------------------------------ MODULE IoReport -----------------------------
(***************************************************************************)
(* The references of the IO report (detail/osx_io_report.cpp/.hpp): how    *)
(* io_report::init comes by its channel and subscription, how the          *)
(* reference of a sample travels from IOReportCreateSamples through a      *)
(* temporary, an optional and the sampler's queue until the sample is      *)
(* popped, and what the destructors release at the end.                    *)
(*                                                                         *)
(* A reference is the number of its object in the order of creation, 0 is  *)
(* the null pointer.  Which objects are diffed depends on the clock        *)
(* (module Sampler); here a diff may be refused at any time.               *)
(***************************************************************************)
EXTENDS Integers, Sequences, FiniteSets

CONSTANTS
    Groups,        \* channel groups asked for, 3 in the code
    MaxSamples     \* bound: samples taken

ASSUME IoReportAssumption == Groups \in Nat /\ MaxSamples \in Nat

VARIABLES
    retains,        \* retain count of every object created
    pc,
    group,          \* io_report::init: the channel group asked for
    channels,       \*                  channels copied so far
    merged,         \*                  merged_channel
    channel,        \* io_report: channel_
    subscription,   \*            subscription_
    temp,           \* the io_report_sample that io_report::sample returns
    building,       \* the optional of the sample that hwinfo::sample builds
    queue,          \* sampler::sample_queue_: the reference of each sample
    delta,          \* io_report::sample_diff: ref
    taken           \* samples taken

init == <<group, channels, merged>>
members == <<channel, subscription>>
sampling == <<temp, building, queue, taken>>
vars == <<retains, pc, init, members, sampling, delta>>

Null == 0

-----------------------------------------------------------------------------
(***************************************************************************)
(* Core Foundation.                                                        *)
(***************************************************************************)

\* The reference of the next object to be created, and its first retain.
New == Len(retains) + 1
Create(ones) == retains' = retains \o ones
\* CFRelease of every reference in refs that is not null.
CFRelease(refs) ==
    retains' = [r \in DOMAIN retains |-> IF r \in refs THEN retains[r] - 1 ELSE retains[r]]

\* A call that creates an object, or fails and returns NULL.
CreateOrNull(ref) == \/ Create(<<1>>) /\ ref = New
                     \/ UNCHANGED retains /\ ref = Null

Init ==
    /\ retains = <<>> /\ pc = "copy"
    /\ group = 1 /\ channels = {} /\ merged = Null
    /\ channel = Null /\ subscription = Null
    /\ temp = Null /\ building = Null /\ queue = <<>> /\ taken = 0
    /\ delta = Null

-----------------------------------------------------------------------------
(***************************************************************************)
(* io_report::init                                                         *)
(***************************************************************************)

\* The channels of the next group; a group without channels is skipped.
CopyChannels ==
    /\ pc = "copy" /\ group <= Groups
    /\ \E ref \in {Null, New} :
          /\ CreateOrNull(ref)
          /\ channels' = channels \cup ({ref} \ {Null})
    /\ group' = group + 1
    /\ UNCHANGED <<pc, merged, members, sampling, delta>>

\* No group has channels: an IO report without subscription, and no error.
NoChannels ==
    /\ pc = "copy" /\ group > Groups
    /\ channels = {}
    /\ pc' = "ready"
    /\ UNCHANGED <<retains, init, members, sampling, delta>>

Merge ==
    /\ pc = "copy" /\ group > Groups
    /\ channels # {}
    /\ \E ref \in {Null, New} : CreateOrNull(ref) /\ merged' = ref
    /\ pc' = "release"
    /\ UNCHANGED <<group, channels, members, sampling, delta>>

ReleaseChannels ==
    /\ pc = "release"
    /\ CFRelease(channels)
    /\ channels' = {}
    /\ pc' = IF merged = Null THEN "failed" ELSE "merged"
    /\ UNCHANGED <<group, merged, members, sampling, delta>>

\* The dictionary has no IOReportChannels: init fails and forgets it.
NoReportChannels ==
    /\ pc = "merged"
    /\ merged' = Null
    /\ pc' = "failed"
    /\ UNCHANGED <<retains, group, channels, members, sampling, delta>>

\* The subscription comes with the dictionary `s` of the subscribed channels,
\* which nobody keeps.
Subscribe ==
    /\ pc = "merged"
    /\ Create(<<1, 1>>)
    /\ channel' = merged /\ subscription' = New
    /\ merged' = Null
    /\ pc' = "ready"
    /\ UNCHANGED <<group, channels, sampling, delta>>

SubscribeFails ==
    /\ pc = "merged"
    /\ CFRelease({merged})
    /\ merged' = Null
    /\ pc' = "failed"
    /\ UNCHANGED <<group, channels, members, sampling, delta>>

-----------------------------------------------------------------------------
(***************************************************************************)
(* hwinfo::sample and sampler::sample                                      *)
(***************************************************************************)

\* A minor sample's optional stays empty and goes straight to the queue.
Sample ==
    /\ pc = "ready" /\ taken < MaxSamples
    /\ IF Len(queue) % 5 = 0
       THEN pc' = "create" /\ UNCHANGED queue
       ELSE /\ queue' = Append(queue, Null)
            /\ pc' = IF Len(queue') = 6 THEN "diff" ELSE "ready"
    /\ taken' = taken + 1
    /\ UNCHANGED <<retains, init, members, temp, building, delta>>

\* io_report::sample: a null sample without a subscription.
CreateSample ==
    /\ pc = "create"
    /\ IF channel # Null /\ subscription # Null
       THEN \E ref \in {Null, New} : CreateOrNull(ref) /\ temp' = ref
       ELSE UNCHANGED <<retains, temp>>
    /\ pc' = "assign"
    /\ UNCHANGED <<init, members, building, queue, taken, delta>>

\* Mutation: the move constructor leaves the reference in its source too.
AssignCopies ==
    /\ pc = "assign"
    /\ building' = temp
    /\ CFRelease({temp} \ {Null})
    /\ temp' = Null
    /\ pc' = "push"
    /\ UNCHANGED <<init, members, queue, taken, delta>>

\* The temporary is moved into the empty optional and destroyed as a null one.
Assign ==
    /\ pc = "assign"
    /\ building' = temp
    /\ temp' = Null
    /\ pc' = "push"
    /\ UNCHANGED <<retains, init, members, queue, taken, delta>>

\* The sample is moved to the end of the queue.
Push ==
    /\ pc = "push"
    /\ queue' = Append(queue, building)
    /\ building' = Null
    /\ pc' = IF Len(queue') = 6 THEN "diff" ELSE "ready"
    /\ UNCHANGED <<retains, init, members, temp, taken, delta>>

\* io_report::sample_diff of the first and the last sample, unless the window
\* or the stamps do not allow it; the delta object may be null.
Diff ==
    /\ pc = "diff"
    /\ \/ /\ queue[1] # Null /\ queue[6] # Null
          /\ Create(<<1>>) /\ delta' = New
          /\ pc' = "walk"
       \/ /\ UNCHANGED <<retains, delta>>
          /\ pc' = "pop"
    /\ UNCHANGED <<init, members, sampling>>

\* However the walk over the items ends, the scope guard releases the delta.
Walk ==
    /\ pc = "walk"
    /\ CFRelease({delta})
    /\ delta' = Null
    /\ pc' = "pop"
    /\ UNCHANGED <<init, members, sampling>>

\* Mutation: ~io_report_sample releases nothing.
PopWithoutRelease ==
    /\ pc = "pop"
    /\ queue' = <<queue[6]>>
    /\ pc' = "ready"
    /\ UNCHANGED <<retains, init, members, temp, building, taken, delta>>

\* Five samples are popped, each releases its reference.
Pop ==
    /\ pc = "pop"
    /\ CFRelease({queue[i] : i \in 1..5} \ {Null})
    /\ queue' = <<queue[6]>>
    /\ pc' = "ready"
    /\ UNCHANGED <<init, members, temp, building, taken, delta>>

-----------------------------------------------------------------------------
(***************************************************************************)
(* The end of main: ~sampler destroys the queue, then hwinfo.              *)
(***************************************************************************)

\* The output is done, or init failed: the samples of the queue are destroyed.
DestroyQueue ==
    /\ pc \in {"ready", "failed"}
    /\ CFRelease({queue[i] : i \in DOMAIN queue} \ {Null})
    /\ queue' = <<>>
    /\ pc' = "destroy"
    /\ UNCHANGED <<init, members, temp, building, taken, delta>>

\* ~io_report
DestroyReport ==
    /\ pc = "destroy"
    /\ CFRelease({channel, subscription} \ {Null})
    /\ channel' = Null /\ subscription' = Null
    /\ pc' = "gone"
    /\ UNCHANGED <<init, sampling, delta>>

Gone == pc = "gone" /\ UNCHANGED vars

Next ==
    \/ CopyChannels \/ NoChannels \/ Merge \/ ReleaseChannels
    \/ NoReportChannels \/ Subscribe \/ SubscribeFails
    \/ Sample \/ CreateSample \/ Assign \/ Push
    \/ Diff \/ Walk \/ Pop
    \/ DestroyQueue \/ DestroyReport \/ Gone

Spec == Init /\ [][Next]_vars

-----------------------------------------------------------------------------
TypeOK ==
    /\ retains \in Seq({0, 1})
    /\ pc \in {"copy", "release", "merged", "failed", "ready", "create", "assign",
              "push", "diff", "walk", "pop", "destroy", "gone"}
    /\ channels \subseteq Nat
    /\ {group, merged, channel, subscription, temp, building, delta, taken} \subseteq Nat
    /\ queue \in Seq(Nat)

QueueRefs == {queue[i] : i \in DOMAIN queue} \ {Null}
OtherRefs == channels \cup {merged, channel, subscription, temp, building, delta}
Held == QueueRefs \cup (OtherRefs \ {Null})

Live == {r \in DOMAIN retains : retains[r] = 1}

\* Whatever is reachable through a pointer of the program is alive: nothing is
\* used after its release, through moves, pops and failed initialisations.
HeldAreLive == Held \subseteq Live

\* Nobody else holds what a sample in the queue holds, so that popping the
\* sample releases it for good.
SamplesOwnTheirRefs ==
    /\ \A i, j \in DOMAIN queue : queue[i] # Null /\ queue[i] = queue[j] => i = j
    /\ QueueRefs \cap OtherRefs = {}

\* However many windows are sampled, at most one object is left without an
\* owner: what init forgets, the subscribed channels or the merged ones.
LeakIsOnce == Cardinality(Live \ Held) <= 1

\* A sample is not kept longer than the subscription it was taken from.
SubscriptionOutlivesSamples == QueueRefs # {} => subscription \in Live /\ channel \in Live

\* The ownership of references: alive, one owner for those of samples, and the
\* subscription behind them.
Ownership == HeldAreLive /\ SamplesOwnTheirRefs /\ SubscriptionOutlivesSamples

\* Every object is released at most once, and while it is alive.
Counts == INSTANCE RefCounts WITH retains <- retains
CountsKept == Counts!Spec
=============================================================================
