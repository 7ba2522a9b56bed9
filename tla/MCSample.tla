------------------------------ MODULE MCSample ------------------------------
(* hwinfo::sample: the readers that take objects or buffers from the kernel, *)
(* the IO report (IoReport), the disks (DiskList) and the interfaces         *)
(* (NetIfList), which share no state.  One of them is at work, from each of  *)
(* its initial states; the others rest in one of theirs, so that the state   *)
(* space is the sum of theirs.                                               *)
EXTENDS IoReport

CONSTANTS
    Media, NoName, MaxPlugged, MaxWork,                                     \* DiskList
    Messages, MaxMessages, Garbage, Slack, StaticSize, Header, Header2      \* NetIfList

VARIABLES
    at_work,    \* "io", "disk" or "net"
    plugged, count, work, disk_pc, left, disk, held, disk_retains, props,
    disk_counters, disk_sample, skipped,
    list, needed_size, buffer, data, changed, p_read, found, net_counters,
    net_sample, touched, net_pc

disk_vars == <<plugged, count, work, disk_pc, left, disk, held, disk_retains, props,
               disk_counters, disk_sample, skipped>>
net_vars == <<list, needed_size, buffer, data, changed, p_read, found, net_counters,
              net_sample, touched, net_pc>>

Disk == INSTANCE DiskList WITH pc <- disk_pc, retains <- disk_retains,
                               counters <- disk_counters, sample <- disk_sample
Net == INSTANCE NetIfList WITH pc <- net_pc, counters <- net_counters, sample <- net_sample

ASSUME ReadersAssumption == Disk!Assumption /\ Net!Assumption

-----------------------------------------------------------------------------
DiskRests == Disk!Init /\ plugged = {}
NetRests == Net!Init /\ list = <<>>

MCInit ==
    \/ at_work = "io" /\ DiskRests /\ NetRests /\ Init
    \/ at_work = "disk" /\ Init /\ NetRests /\ Disk!Init
    \/ at_work = "net" /\ Init /\ DiskRests /\ Net!Init

MCNext ==
    \/ at_work = "io" /\ Next /\ UNCHANGED <<at_work, disk_vars, net_vars>>
    \/ at_work = "disk" /\ Disk!Next /\ UNCHANGED <<at_work, vars, net_vars>>
    \/ at_work = "net" /\ Net!Next /\ UNCHANGED <<at_work, vars, disk_vars>>

MCSpec == /\ MCInit /\ [][MCNext]_<<at_work, vars, disk_vars, net_vars>>
          /\ at_work = "net" => Net!Fairness

-----------------------------------------------------------------------------
(* Properties, by the names they have in their modules. *)

\* At the end of the walk over the disks nothing is held or released twice.
NothingHeld == Disk!NothingHeld
\* The walk lists what the registry had, but for the media that failed.
SampleIsOfTheRegistry == Disk!SampleIsOfTheRegistry

\* A sample of the interfaces is what the second call told.
SampleIsOfTheCall == Net!SampleIsOfTheCall
\* Every reading of the interfaces ends.
ReadingEnds == at_work = "net" => Net!ReadingEnds

-----------------------------------------------------------------------------
(* Values: two disks, one of which has counted below 0, a partition, a medium *)
(* without a name and a driver without statistics.                            *)
Medium(bsd, driver, stats, first) == [bsd |-> bsd, driver |-> driver, stats |-> stats, count |-> first]

MCMedia == {Medium("disk0", TRUE, TRUE, 2), Medium("disk1", TRUE, TRUE, -1),
            Medium("disk0s1", FALSE, FALSE, 0), Medium("", TRUE, TRUE, 1),
            Medium("disk2", TRUE, FALSE, 0)}

(* A header of 2 units, interfaces of 4, addresses of 3. *)
IfInfo(name, bytes) == [len |-> 4, type |-> "IFINFO2", name |-> name, bytes |-> bytes]
Other(len) == [len |-> len, type |-> "other", name |-> "", bytes |-> 0]

MCMessages == {IfInfo("en0", 5), IfInfo("en1", 6), IfInfo("", 0), Other(3)}

(* An empty header, one that is too long, and what an earlier call has left. *)
MCGarbage == {Other(0), Other(9), Other(1), Other(2), IfInfo("en0", 4), IfInfo("gone0", 3),
              [IfInfo("", 1) EXCEPT !.len = 2]}
=============================================================================
