------------------------------ MODULE DiskList ------------------------------
(***************************************************************************)
(* disk_io_reader::sample (detail/osx_disk_io_reader.cpp): the walk over   *)
(* the media of the IOKit registry, which lists the counters of those that *)
(* lie on a block storage driver.  A medium that cannot be read is passed  *)
(* over; what it held is released by the scope guards.                     *)
(*                                                                         *)
(* IOKit is external: any call may fail, the media come in any order, the  *)
(* drivers count and disks are unplugged while the walk goes on, and the   *)
(* properties of a driver are those of the moment they are asked for.  The *)
(* six counters are read alike and stand as one.                           *)
(***************************************************************************)
EXTENDS Integers, Sequences, FiniteSets

CONSTANTS
    Media,      \* [bsd : names, driver, stats : BOOLEAN, count : Int]: its BSD name,
                \* whether its parent is a block storage driver and has statistics,
                \* and what those say first (0 when they lack the counter)
    NoName,     \* the bsd of a medium without one
    MaxPlugged, \* bound: media in the registry
    MaxWork     \* bound: transfers while the walk goes on

\* What the constants have to be.
Assumption ==
    /\ Media \subseteq [bsd : {m.bsd : m \in Media}, driver : BOOLEAN, stats : BOOLEAN, count : Int]
    /\ \A m, n \in Media : m.bsd = n.bsd /\ m.bsd # NoName => m = n
    /\ {MaxPlugged, MaxWork} \subseteq Nat

VARIABLES
    plugged,    \* the media there are
    count,      \* what their drivers count
    work,       \* transfers since the walk began
    pc,
    left,       \* media the iterator has not returned
    disk,       \* the medium of this turn of the loop
    held,       \* variable of the code -> the object it holds
    retains,    \* retain counts of the objects, see RefCounts
    props,      \* the counter in the properties of the parent
    counters,   \* what the walk has put together
    sample,     \* the disk_io_sample: [counters, failed]
    skipped     \* history: media one of whose calls has failed

world == <<plugged, count, work>>
vars == <<world, pc, left, disk, held, retains, props, counters, sample, skipped>>

NoCounters == [n \in {} |-> 0]
NoSample == [counters |-> NoCounters, failed |-> FALSE]
NoMedium == [bsd |-> NoName, driver |-> FALSE, stats |-> FALSE, count |-> 0]
Nothing == [iterator |-> 0, disk |-> 0, parent |-> 0, disk_props |-> 0, props |-> 0]

Init ==
    /\ plugged \in {S \in SUBSET Media : Cardinality(S) <= MaxPlugged}
    /\ count = [m \in Media |-> m.count] /\ work = 0
    /\ pc = "list" /\ left = {} /\ disk = NoMedium /\ held = Nothing /\ retains = <<>>
    /\ props = 0 /\ counters = NoCounters /\ sample = NoSample /\ skipped = {}

-----------------------------------------------------------------------------
(***************************************************************************)
(* The world.                                                              *)
(***************************************************************************)
Transfer ==
    /\ pc \notin {"list", "done"} /\ work < MaxWork
    /\ work' = work + 1
    /\ \E m \in plugged : m.driver /\ count' = [count EXCEPT ![m] = @ + 1]
    /\ UNCHANGED <<plugged, pc, left, disk, held, retains, props, counters, sample, skipped>>

Unplug ==
    /\ pc # "done"
    /\ \E m \in plugged : plugged' = plugged \ {m}
    /\ UNCHANGED <<count, work, pc, left, disk, held, retains, props, counters, sample, skipped>>

-----------------------------------------------------------------------------
(***************************************************************************)
(* Objects: each is created for a variable and released with it.           *)
(***************************************************************************)
CreateFor(v) ==
    /\ retains' = Append(retains, 1)
    /\ held' = [held EXCEPT ![v] = Len(retains) + 1]

ReleaseOf(vs) ==
    /\ retains' = [r \in DOMAIN retains |->
                      IF r \in {held[v] : v \in vs} THEN retains[r] - 1 ELSE retains[r]]
    /\ UNCHANGED held

\* Mutations: a medium to pass over ends the walk; the guard of the parent is missing.
ContinueBreak(vs) == ReleaseOf(vs \cup {"iterator"}) /\ sample' = [NoSample EXCEPT !.counters = counters] /\ pc' = "done"
ContinueLeaky(vs) == ReleaseOf(vs \ {"parent"}) /\ pc' = "next" /\ UNCHANGED sample
\* `continue`: the guards of this turn run.
Continue(vs) == ReleaseOf(vs) /\ pc' = "next" /\ UNCHANGED sample

\* A call fails for the medium, which costs its counters and nothing else.
Skip(vs) ==
    /\ Continue(vs)
    /\ skipped' = skipped \cup {disk}
    /\ UNCHANGED <<world, left, disk, props, counters>>

-----------------------------------------------------------------------------
(***************************************************************************)
(* get_disk_io_counter, one action for a call and what follows from it.    *)
(***************************************************************************)

\* IOServiceMatching, IOServiceGetMatchingServices.
ListMedia ==
    /\ pc = "list"
    /\ \/ /\ CreateFor("iterator")
          /\ left' = plugged
          /\ pc' = "next"
          /\ UNCHANGED sample
       \/ /\ sample' = [counters |-> NoCounters, failed |-> TRUE]
          /\ pc' = "done"
          /\ UNCHANGED <<left, held, retains>>
    /\ UNCHANGED <<world, disk, props, counters, skipped>>

IOIteratorNext ==
    /\ pc = "next"
    /\ \E m \in left : disk' = m /\ left' = left \ {m}
    /\ CreateFor("disk")
    /\ pc' = "parent"
    /\ UNCHANGED <<world, props, counters, sample, skipped>>

\* The medium of an unplugged disk has no parent any more.
GetParent ==
    /\ pc = "parent"
    /\ \/ /\ disk \in plugged
          /\ CreateFor("parent")
          /\ pc' = "conforms"
          /\ UNCHANGED <<world, left, disk, props, counters, sample, skipped>>
       \/ Skip({"disk"})

ConformsTo ==
    /\ pc = "conforms"
    /\ IF disk.driver THEN pc' = "name" /\ UNCHANGED <<held, retains, sample>>
       ELSE Continue({"disk", "parent"})
    /\ UNCHANGED <<world, left, disk, props, counters, skipped>>

GetDiskProps ==
    /\ pc = "name"
    /\ \/ /\ CreateFor("disk_props")
          /\ pc' = "named"
          /\ UNCHANGED <<world, left, disk, props, counters, sample, skipped>>
       \/ Skip({"disk", "parent"})

GetDiskName ==
    /\ pc = "named"
    /\ IF disk.bsd # NoName
       THEN ReleaseOf({"disk_props"}) /\ pc' = "counters" /\ UNCHANGED sample
       ELSE Continue({"disk", "parent", "disk_props"})
    /\ UNCHANGED <<world, left, disk, props, counters, skipped>>

GetProps ==
    /\ pc = "counters"
    /\ \/ /\ CreateFor("props")
          /\ props' = count[disk]
          /\ pc' = "stats"
          /\ UNCHANGED <<world, left, disk, counters, sample, skipped>>
       \/ Skip({"disk", "parent"})

\* What a signed counter becomes.
Counted(n) == IF n > 0 THEN n ELSE 0

\* counters.emplace, which keeps a counter that is there.
AddCounter ==
    /\ pc = "stats"
    /\ counters' = IF disk.stats THEN [n \in DOMAIN counters \cup {disk.bsd} |->
                                          IF n \in DOMAIN counters THEN counters[n] ELSE Counted(props)]
                   ELSE counters
    /\ Continue({"disk", "parent", "props"})
    /\ UNCHANGED <<world, left, disk, props, skipped>>

\* The iterator returns nothing more.
EndOfMedia ==
    /\ pc = "next" /\ left = {}
    /\ ReleaseOf({"iterator"})
    /\ sample' = [counters |-> counters, failed |-> FALSE]
    /\ pc' = "done"
    /\ UNCHANGED <<world, left, disk, props, counters, skipped>>

Done == pc = "done" /\ UNCHANGED vars

Walk == \/ ListMedia \/ IOIteratorNext \/ GetParent \/ ConformsTo \/ GetDiskProps
        \/ GetDiskName \/ GetProps \/ AddCounter \/ EndOfMedia

Next == Walk \/ Transfer \/ Unplug \/ Done

Spec == Init /\ [][Next]_vars

-----------------------------------------------------------------------------
(***************************************************************************)
(* Properties.                                                             *)
(***************************************************************************)

\* At the end of the walk nothing is held and nothing was released twice, on
\* whatever path each turn ended.
NothingHeld == pc = "done" => \A r \in DOMAIN retains : retains[r] = 0

\* A walk lists every named medium on a driver with statistics, unless the disk
\* was unplugged before it was read or a call failed for it: what happens to one
\* medium costs no other medium its counters.
FailureIsLocal ==
    pc = "done" /\ ~sample.failed =>
        /\ \A m \in plugged : m.driver /\ m.stats /\ m.bsd # NoName /\ m \notin skipped =>
               m.bsd \in DOMAIN sample.counters
        /\ \A n \in DOMAIN sample.counters :
               \E m \in Media \ skipped : m.bsd = n /\ n # NoName /\ m.driver /\ m.stats

\* The counters in a sample are unsigned, and those of a moment of the walk.
ReadDuringWalk ==
    \A m \in Media : m.bsd \in DOMAIN sample.counters =>
        /\ sample.counters[m.bsd] \in Nat
        /\ m.count <= sample.counters[m.bsd]
        /\ sample.counters[m.bsd] <= count[m] \/ sample.counters[m.bsd] = 0

\* A walk lists what the registry had, with its counters, but for the media that
\* failed.
SampleIsOfTheRegistry == FailureIsLocal /\ ReadDuringWalk
=============================================================================
