---------------------------- MODULE SampleProofs ----------------------------
(***************************************************************************)
(* The readers of hwinfo::sample: the ownership of the IO report's         *)
(* references, for any number of channel groups, samples and windows, the  *)
(* walk over the disks, for any registry, and the reading of the           *)
(* interfaces, for any lists and any size the kernel tells.                *)
(***************************************************************************)
EXTENDS MCSample, DataLemmas, SequenceTheorems, FiniteSetTheorems, TLAPS

\* Which pointers are null at which statement.
Stages ==
    /\ pc \notin {"copy", "release"} => channels = {}
    /\ pc \notin {"release", "merged"} => merged = Null
    /\ pc \in {"copy", "release", "merged", "failed"} =>
          channel = Null /\ subscription = Null /\ queue = <<>>
    /\ pc # "assign" => temp = Null
    /\ pc # "push" => building = Null
    /\ pc # "walk" => delta = Null
    /\ pc = "merged" => merged # Null
    /\ pc = "walk" => delta # Null
    /\ pc \in {"diff", "walk", "pop"} => Len(queue) = 6
    /\ pc \in {"destroy", "gone"} => queue = <<>>

\* The pointers that are not the queue's do not share an object either.
OthersAreApart ==
    /\ merged \notin channels /\ Null \notin channels
    /\ {temp, building, delta} \cap {channel, subscription} \subseteq {Null}

\* A sample with a reference was taken from a subscription that still stands.
Subscribed ==
    QueueRefs \cup ({temp, building} \ {Null}) # {} => channel # Null /\ subscription # Null

\* What nobody holds any more: nothing while init is under way.
Lost == Live \ Held
LostOnce ==
    /\ pc \in {"copy", "release", "merged"} => Lost = {}
    /\ \E r \in Nat : Lost \subseteq {r}

IInv ==
    /\ TypeOK
    /\ Stages
    /\ HeldAreLive
    /\ SamplesOwnTheirRefs
    /\ OthersAreApart
    /\ Subscribed
    /\ LostOnce

-----------------------------------------------------------------------------
LEMMA LiveRefs ==
    ASSUME TypeOK
    PROVE  /\ Len(retains) \in Nat /\ New \in Nat /\ New # Null /\ New \notin Live
           /\ New + 1 \notin Live
           /\ Live \subseteq Nat /\ Null \notin Live
<1>1. Len(retains) \in Nat /\ DOMAIN retains = 1..Len(retains)
  BY DEF TypeOK
<1> QED BY <1>1 DEF New, Null, Live

\* Creation adds the new references and leaves the others as they are.
LEMMA CreateOnes ==
    ASSUME TypeOK, NEW ones \in {<< 1 >>, << 1, 1 >>}, Create(ones)
    PROVE  /\ retains' \in Seq({0, 1})
           /\ ones = <<1>> => Live' = Live \cup {New}
           /\ ones = <<1, 1>> => Live' = Live \cup {New, New + 1}
<1> DEFINE n == Len(retains)
           m == Len(ones)
<1>0. n \in Nat
  BY DEF TypeOK
<1>1. n \in Nat /\ m \in 1..2 /\ ones \in Seq({0, 1}) /\ \A i \in 1..m : ones[i] = 1
  <2>1. CASE ones = <<1>>
    BY <1>0, <2>1
  <2>2. CASE ones = <<1, 1>>
    BY <1>0, <2>2
  <2> QED BY <2>1, <2>2
<1>1a. (ones = <<1>> => m = 1) /\ (ones = <<1, 1>> => m = 2)
  OBVIOUS
<1>2. /\ retains' \in Seq({0, 1}) /\ Len(retains') = n + m
      /\ \A r \in 1..(n + m) :
            retains'[r] = IF r <= n THEN retains[r] ELSE ones[r - n]
  BY <1>1, ConcatProperties DEF TypeOK, Create
<1> HIDE DEF m
<1>3. Live = {r \in 1..n : retains[r] = 1}
  BY DEF TypeOK, Live
<1>4. Live' = {r \in 1..(n + m) : retains'[r] = 1}
  BY <1>2 DEF Live
<1> HIDE DEF n
<1>5. \A r \in (n + 1)..(n + m) : retains'[r] = 1
  <2> SUFFICES ASSUME NEW r \in (n + 1)..(n + m) PROVE retains'[r] = 1
    OBVIOUS
  <2>1. r \in 1..(n + m) /\ ~(r <= n) /\ r - n \in 1..m
    BY <1>1
  <2> QED BY <1>1, <1>2, <2>1
<1>6. \A r \in 1..n : retains'[r] = retains[r]
  BY <1>1, <1>2
<1>7. Live' = Live \cup ((n + 1)..(n + m))
  BY <1>1, <1>3, <1>4, <1>5, <1>6
<1>8. New = n + 1
  BY DEF New, n
<1>9. (m = 1 => (n + 1)..(n + m) = {New}) /\ (m = 2 => (n + 1)..(n + m) = {New, New + 1})
  BY <1>1, <1>8
<1> QED BY <1>1a, <1>2, <1>7, <1>9

\* Releasing live references makes them dead and leaves the others.
LEMMA ReleaseLive ==
    ASSUME TypeOK, NEW refs, refs \subseteq Live, CFRelease(refs)
    PROVE  /\ retains' \in Seq({0, 1})
           /\ Live' = Live \ refs
           /\ Counts!Release
<1> DEFINE n == Len(retains)
<1>1. n \in Nat /\ DOMAIN retains = 1..n /\ \A r \in 1..n : retains[r] \in {0, 1}
  BY DEF TypeOK
<1>2. retains' = [r \in 1..n |-> IF r \in refs THEN retains[r] - 1 ELSE retains[r]]
  BY <1>1 DEF CFRelease
<1> HIDE DEF n
<1>3. retains' \in [1..n -> Int] /\ DOMAIN retains' = 1..n
  BY <1>1, <1>2
<1>5. Live = {r \in 1..n : retains[r] = 1} /\ Live' = {r \in 1..n : retains'[r] = 1}
  BY <1>1, <1>3 DEF Live
<1>6. \A r \in refs : r \in 1..n /\ retains[r] = 1
  BY <1>5
<1>7. retains' = [r \in 1..n |-> IF r \in refs THEN 0 ELSE retains[r]]
  <2>1. \A r \in 1..n : (IF r \in refs THEN retains[r] - 1 ELSE retains[r])
                        = (IF r \in refs THEN 0 ELSE retains[r])
    BY <1>6
  <2> QED BY <1>2, <2>1
<1>4. retains' \in Seq({0, 1})
  <2>1. retains' \in [1..n -> {0, 1}]
    BY <1>1, <1>7
  <2> QED BY <1>1, <2>1
<1>8. Live' = Live \ refs
  BY <1>5, <1>7
<1>9. Counts!Release
  <2>1. refs \in SUBSET (DOMAIN retains) /\ \A r \in refs : Counts!Live(r)
    BY <1>1, <1>6 DEF Counts!Live
  <2> QED BY <1>1, <1>7, <2>1 DEF Counts!Release
<1> QED BY <1>4, <1>8, <1>9

\* What the queue holds after a push.
LEMMA PushRefs ==
    ASSUME TypeOK, SamplesOwnTheirRefs, NEW ref \in Nat, ref \notin QueueRefs,
           queue' = Append(queue, ref)
    PROVE  /\ queue' \in Seq(Nat)
           /\ Len(queue') = Len(queue) + 1
           /\ QueueRefs' = QueueRefs \cup ({ref} \ {Null})
           /\ \A i, j \in DOMAIN queue' :
                 queue'[i] # Null /\ queue'[i] = queue'[j] => i = j
<1> DEFINE n == Len(queue)
<1>1. n \in Nat /\ DOMAIN queue = 1..n
  BY DEF TypeOK
<1>2. /\ queue' \in Seq(Nat) /\ Len(queue') = n + 1 /\ DOMAIN queue' = 1..(n + 1)
      /\ \A i \in 1..n : queue'[i] = queue[i]
      /\ queue'[n + 1] = ref
  BY DEF TypeOK
<1> HIDE DEF n
<1>3. 1..(n + 1) = 1..n \cup {n + 1}
  BY <1>1
<1>4. QueueRefs' = QueueRefs \cup ({ref} \ {Null})
  BY <1>1, <1>2, <1>3 DEF QueueRefs, Null
<1>5. ASSUME NEW i \in 1..(n + 1), NEW j \in 1..(n + 1),
             queue'[i] # Null, queue'[i] = queue'[j]
      PROVE  i = j
  <2>1. CASE i \in 1..n /\ j \in 1..n
    BY <1>1, <1>2, <1>5, <2>1 DEF SamplesOwnTheirRefs
  <2>2. CASE i \in 1..n /\ j = n + 1
    BY <1>1, <1>2, <1>5, <2>2 DEF QueueRefs
  <2>3. CASE i = n + 1 /\ j \in 1..n
    BY <1>1, <1>2, <1>5, <2>3 DEF QueueRefs
  <2> QED BY <1>3, <2>1, <2>2, <2>3
<1> QED BY <1>2, <1>4, <1>5 DEF n

-----------------------------------------------------------------------------
LEMMA InitOwns == Init => IInv
<1> SUFFICES ASSUME Init PROVE IInv
  OBVIOUS
<1> USE DEF Init, Null
<1>1. TypeOK /\ Stages /\ OthersAreApart
  BY DEF TypeOK, Stages, OthersAreApart
<1>2. DOMAIN retains = {} /\ DOMAIN queue = {}
  OBVIOUS
<1>3. Live = {} /\ QueueRefs = {} /\ Held = {}
  BY <1>2 DEF Live, QueueRefs, Held, OtherRefs
<1>4. SamplesOwnTheirRefs
  BY <1>2, <1>3 DEF SamplesOwnTheirRefs
<1>5. Subscribed /\ LostOnce
  BY <1>3 DEF Subscribed, LostOnce, Lost
<1> QED BY <1>1, <1>3, <1>4, <1>5 DEF IInv, HeldAreLive

\* A step that leaves the queue alone: what is held stays live if the other
\* pointers do, and nothing more is lost.
LEMMA QueueStays ==
    ASSUME IInv, UNCHANGED queue,
           OtherRefs' \ {Null} \subseteq Live', QueueRefs \subseteq Live',
           QueueRefs \cap OtherRefs' = {}
    PROVE  HeldAreLive' /\ SamplesOwnTheirRefs' /\ QueueRefs' = QueueRefs
<1>1. QueueRefs' = QueueRefs
  BY DEF QueueRefs
<1> QED BY <1>1 DEF IInv, HeldAreLive, Held, SamplesOwnTheirRefs

LEMMA NothingLost ==
    ASSUME IInv, Live' \ Held' \subseteq Lost,
           pc' \in {"copy", "release", "merged"} => pc \in {"copy", "release", "merged"}
    PROVE  LostOnce'
<1>1. Lost' \subseteq Lost
  BY DEF Lost
<1> QED BY <1>1 DEF IInv, LostOnce

LEMMA InitStepsOwn ==
    ASSUME IInv, \/ CopyChannels \/ NoChannels \/ Merge \/ ReleaseChannels
                 \/ NoReportChannels \/ Subscribe \/ SubscribeFails
    PROVE  IInv'
<1> USE DEF IInv
<1>0. Live \subseteq Nat /\ Null \notin Live /\ New \in Nat /\ New # Null
      /\ New \notin Live /\ New + 1 \notin Live /\ New + 1 \in Nat /\ New + 1 # New
  BY LiveRefs DEF New, Null
<1>1. Held = QueueRefs \cup (OtherRefs \ {Null}) /\ Held \subseteq Live
  BY DEF Held, HeldAreLive
<1>1a. Subscribed'
  <2>1. pc \in {"copy", "release", "merged"} /\ UNCHANGED sampling
    BY DEF CopyChannels, NoChannels, Merge, ReleaseChannels, NoReportChannels,
           Subscribe, SubscribeFails
  <2>2. queue' = <<>> /\ temp' = Null /\ building' = Null
    BY <2>1 DEF sampling, Stages
  <2> QED BY <2>2 DEF Subscribed, QueueRefs
<1>2. CASE CopyChannels
  <2>1. PICK ref \in {Null, New} : CreateOrNull(ref) /\ channels' = channels \cup ({ref} \ {Null})
    BY <1>2 DEF CopyChannels
  <2>2. retains' \in Seq({0, 1}) /\ Live' = Live \cup ({ref} \ {Null})
    BY <1>0, <2>1, CreateOnes DEF CreateOrNull, Live, TypeOK
  <2>3. OtherRefs' = OtherRefs \cup ({ref} \ {Null}) /\ UNCHANGED queue
    BY <1>2, <2>1 DEF CopyChannels, members, sampling, OtherRefs
  <2>4. TypeOK' /\ Stages'
    BY <1>0, <1>2, <2>1, <2>2 DEF CopyChannels, members, sampling, TypeOK, Stages, Null
  <2>5. HeldAreLive' /\ SamplesOwnTheirRefs' /\ QueueRefs' = QueueRefs
    BY <1>0, <1>1, <2>1, <2>2, <2>3, QueueStays DEF SamplesOwnTheirRefs
  <2>6. OthersAreApart'
    BY <1>0, <1>1, <1>2, <2>1 DEF CopyChannels, members, sampling, OthersAreApart, OtherRefs, Stages, Null
  <2>7. Live' \ Held' \subseteq Lost
    BY <1>0, <1>1, <2>2, <2>3, <2>5 DEF Held, Lost
  <2>8. LostOnce'
    BY <1>2, <2>7, NothingLost DEF CopyChannels
  <2> QED BY <1>1a, <2>4, <2>5, <2>6, <2>8
<1>3. CASE NoChannels
  <2>1. UNCHANGED <<retains, channels, merged, channel, subscription, temp, building, queue, delta, group, taken>>
    BY <1>3 DEF NoChannels, init, members, sampling
  <2>2. Live' = Live /\ Held' = Held /\ QueueRefs' = QueueRefs /\ OtherRefs' = OtherRefs
    BY <2>1 DEF Live, Held, QueueRefs, OtherRefs
  <2>3. TypeOK' /\ Stages' /\ OthersAreApart'
    BY <1>3, <2>1 DEF NoChannels, TypeOK, Stages, OthersAreApart
  <2>4. HeldAreLive' /\ SamplesOwnTheirRefs'
    BY <2>1, <2>2 DEF HeldAreLive, SamplesOwnTheirRefs
  <2>5. LostOnce'
    BY <1>3, <2>2, NothingLost DEF NoChannels, Lost
  <2> QED BY <1>1a, <2>3, <2>4, <2>5
<1>4. CASE Merge
  <2>1. PICK ref \in {Null, New} : CreateOrNull(ref) /\ merged' = ref
    BY <1>4 DEF Merge
  <2>2. retains' \in Seq({0, 1}) /\ Live' = Live \cup ({ref} \ {Null})
    BY <1>0, <2>1, CreateOnes DEF CreateOrNull, Live, TypeOK
  <2>3. merged = Null /\ OtherRefs' \cup {Null} = OtherRefs \cup {ref, Null} /\ UNCHANGED queue
    BY <1>4, <2>1 DEF Merge, members, sampling, OtherRefs, Stages
  <2>4. TypeOK' /\ Stages'
    BY <1>0, <1>4, <2>1, <2>2 DEF Merge, members, sampling, TypeOK, Stages, Null
  <2>4a. QueueRefs \cap OtherRefs' = {}
    BY <1>0, <1>1, <2>1, <2>3 DEF SamplesOwnTheirRefs, QueueRefs
  <2>5. HeldAreLive' /\ SamplesOwnTheirRefs' /\ QueueRefs' = QueueRefs
    BY <1>0, <1>1, <2>1, <2>2, <2>3, <2>4a, QueueStays
  <2>6. merged' \notin channels' 
    <3>1. channels \subseteq OtherRefs /\ channels' = channels /\ Null \notin channels
      BY <1>4, <2>3 DEF Merge, OtherRefs, OthersAreApart
    <3> QED BY <1>0, <1>1, <2>1, <3>1
  <2>6a. OthersAreApart'
    BY <1>4, <2>6 DEF Merge, members, sampling, OthersAreApart
  <2>7. Live' \ Held' \subseteq Lost
    BY <1>0, <1>1, <2>2, <2>3, <2>5 DEF Held, Lost
  <2>8. LostOnce'
    BY <1>4, <2>7, NothingLost DEF Merge
  <2> QED BY <1>1a, <2>4, <2>5, <2>6a, <2>8
<1>5. CASE ReleaseChannels
  <2>1. /\ pc = "release" /\ channels' = {} /\ UNCHANGED <<group, merged, members, sampling, delta>>
        /\ pc' = IF merged = Null THEN "failed" ELSE "merged"
        /\ CFRelease(channels)
    BY <1>5 DEF ReleaseChannels
  <2>2. /\ OtherRefs = channels \cup {merged, Null} /\ OtherRefs' = {merged, Null}
        /\ QueueRefs = {} /\ UNCHANGED queue
    BY <2>1 DEF OtherRefs, QueueRefs, Stages, members, sampling, Null
  <2>3. channels \subseteq Live /\ merged \notin channels
    BY <1>1, <2>2 DEF OthersAreApart
  <2>4. retains' \in Seq({0, 1}) /\ Live' = Live \ channels
    BY <2>1, <2>3, ReleaseLive
  <2>5. TypeOK' /\ Stages' /\ OthersAreApart'
    BY <2>1, <2>4 DEF members, sampling, TypeOK, Stages, OthersAreApart, Null
  <2>6. HeldAreLive' /\ SamplesOwnTheirRefs' /\ QueueRefs' = QueueRefs
    BY <1>1, <2>2, <2>3, <2>4, QueueStays
  <2>7. Live' \ Held' \subseteq Lost
    BY <1>1, <2>2, <2>4, <2>6 DEF Held, Lost
  <2>8. LostOnce'
    BY <2>1, <2>7, NothingLost
  <2> QED BY <1>1a, <2>5, <2>6, <2>8
<1>6. CASE NoReportChannels
  <2>1. /\ pc = "merged" /\ pc' = "failed" /\ merged' = Null
        /\ UNCHANGED <<retains, group, channels, members, sampling, delta>>
    BY <1>6 DEF NoReportChannels
  <2>2. /\ OtherRefs = {merged, Null} /\ OtherRefs' = {Null}
        /\ QueueRefs = {} /\ UNCHANGED queue
    BY <2>1 DEF OtherRefs, QueueRefs, Stages, members, sampling, Null
  <2>3. Live' = Live
    BY <2>1 DEF Live
  <2>4. TypeOK' /\ Stages' /\ OthersAreApart'
    BY <2>1 DEF members, sampling, TypeOK, Stages, OthersAreApart, Null
  <2>5. HeldAreLive' /\ SamplesOwnTheirRefs'
    BY <2>2, QueueStays
  <2>6. Lost = {} /\ merged \in Nat
    BY <2>1 DEF LostOnce, TypeOK
  <2>7. Lost' \subseteq {merged}
    BY <1>1, <2>2, <2>3, <2>6 DEF Lost
  <2>8. LostOnce'
    BY <2>1, <2>6, <2>7 DEF LostOnce
  <2> QED BY <1>1a, <2>4, <2>5, <2>8
<1>7. CASE Subscribe
  <2>1. /\ pc = "merged" /\ pc' = "ready" /\ merged' = Null
        /\ channel' = merged /\ subscription' = New
        /\ Create(<<1, 1>>)
        /\ UNCHANGED <<group, channels, sampling, delta>>
    BY <1>7 DEF Subscribe
  <2>2. /\ OtherRefs = {merged, Null} /\ OtherRefs' = {merged, New, Null}
        /\ QueueRefs = {} /\ UNCHANGED queue /\ merged # Null
    BY <2>1 DEF OtherRefs, QueueRefs, Stages, sampling, Null
  <2>3. retains' \in Seq({0, 1}) /\ Live' = Live \cup {New, New + 1}
    BY <2>1, CreateOnes
  <2>4. TypeOK' /\ Stages' /\ OthersAreApart'
    BY <1>0, <2>1, <2>3 DEF sampling, TypeOK, Stages, OthersAreApart, Null
  <2>5. HeldAreLive' /\ SamplesOwnTheirRefs' /\ QueueRefs' = QueueRefs
    BY <1>1, <2>2, <2>3, QueueStays
  <2>6. Lost = {}
    BY <2>1 DEF LostOnce
  <2>7. Lost' \subseteq {New + 1}
    <3>1. Live \subseteq {merged}
      BY <1>1, <2>2, <2>6 DEF Lost
    <3>2. Held' = {merged, New}
      BY <1>0, <2>2, <2>5 DEF Held
    <3> QED BY <2>3, <3>1, <3>2 DEF Lost
  <2>8. LostOnce'
    BY <1>0, <2>1, <2>7 DEF LostOnce
  <2> QED BY <1>1a, <2>4, <2>5, <2>8
<1>8. CASE SubscribeFails
  <2>1. /\ pc = "merged" /\ pc' = "failed" /\ merged' = Null
        /\ CFRelease({merged})
        /\ UNCHANGED <<group, channels, members, sampling, delta>>
    BY <1>8 DEF SubscribeFails
  <2>2. /\ OtherRefs = {merged, Null} /\ OtherRefs' = {Null}
        /\ QueueRefs = {} /\ UNCHANGED queue /\ merged # Null
    BY <2>1 DEF OtherRefs, QueueRefs, Stages, members, sampling, Null
  <2>3. retains' \in Seq({0, 1}) /\ Live' = Live \ {merged}
    BY <1>1, <2>1, <2>2, ReleaseLive
  <2>4. TypeOK' /\ Stages' /\ OthersAreApart'
    BY <2>1, <2>3 DEF members, sampling, TypeOK, Stages, OthersAreApart, Null
  <2>5. HeldAreLive' /\ SamplesOwnTheirRefs' /\ QueueRefs' = QueueRefs
    BY <1>1, <2>2, <2>3, QueueStays
  <2>7. Live' \ Held' \subseteq Lost
    BY <1>1, <2>2, <2>3, <2>5 DEF Held, Lost
  <2>8. LostOnce'
    BY <2>1, <2>7, NothingLost
  <2> QED BY <1>1a, <2>4, <2>5, <2>8
<1> QED BY <1>2, <1>3, <1>4, <1>5, <1>6, <1>7, <1>8

\* The pointers while samples are taken.
LEMMA Sampling ==
    ASSUME IInv, pc \in {"ready", "failed", "create", "assign", "push", "diff", "walk", "pop", "destroy"}
    PROVE  /\ channels = {} /\ merged = Null
           /\ OtherRefs = {Null, channel, subscription, temp, building, delta}
           /\ Held = QueueRefs \cup (OtherRefs \ {Null}) /\ Held \subseteq Live
           /\ Null \notin QueueRefs /\ QueueRefs \cap OtherRefs = {}
           /\ QueueRefs \subseteq Nat /\ OtherRefs \subseteq Nat
<1>1. channels = {} /\ merged = Null
  BY DEF IInv, Stages
<1>2. QueueRefs \subseteq Nat
  BY DEF IInv, TypeOK, QueueRefs
<1> QED BY <1>1, <1>2 DEF IInv, TypeOK, HeldAreLive, SamplesOwnTheirRefs, Held, OtherRefs,
                          QueueRefs, Null

LEMMA TakingStepsOwn ==
    ASSUME IInv, Sample \/ CreateSample \/ Assign \/ Push
    PROVE  IInv'
<1> USE DEF IInv
<1>0. New \in Nat /\ New # Null /\ New \notin Live /\ Null \in Nat
  BY LiveRefs DEF New, Null
<1>1. /\ channels = {} /\ merged = Null
      /\ OtherRefs = {Null, channel, subscription, temp, building, delta}
      /\ Held = QueueRefs \cup (OtherRefs \ {Null}) /\ Held \subseteq Live
      /\ Null \notin QueueRefs /\ QueueRefs \cap OtherRefs = {}
  BY Sampling DEF Sample, CreateSample, Assign, Push
<1>2. CASE Sample
  <2>1. /\ pc = "ready"
        /\ UNCHANGED <<retains, group, channels, merged, channel, subscription, temp, building, delta>>
        /\ taken' = taken + 1
    BY <1>2 DEF Sample, init, members
  <2>2. Live' = Live /\ OtherRefs' = OtherRefs
    BY <2>1 DEF Live, OtherRefs
  <2>3. CASE pc' = "create" /\ UNCHANGED queue
    <3>1. QueueRefs' = QueueRefs /\ Held' = Held
      BY <2>2, <2>3 DEF QueueRefs, Held
    <3>2. TypeOK' /\ Stages' /\ OthersAreApart'
      BY <2>1, <2>3 DEF TypeOK, Stages, OthersAreApart
    <3>3. HeldAreLive' /\ SamplesOwnTheirRefs' /\ Subscribed'
      BY <2>1, <2>2, <2>3, <3>1 DEF HeldAreLive, SamplesOwnTheirRefs, Subscribed
    <3>4. LostOnce'
      BY <2>2, <2>3, <3>1, NothingLost DEF Lost
    <3> QED BY <3>2, <3>3, <3>4
  <2>4. CASE queue' = Append(queue, Null) /\ pc' = IF Len(queue') = 6 THEN "diff" ELSE "ready"
    <3>1. /\ queue' \in Seq(Nat) /\ QueueRefs' = QueueRefs
          /\ \A i, j \in DOMAIN queue' : queue'[i] # Null /\ queue'[i] = queue'[j] => i = j
      <4>1. Null \in Nat /\ Null \notin QueueRefs /\ queue' = Append(queue, Null)
        BY <1>0, <1>1, <2>4
      <4>2. QueueRefs \cup ({Null} \ {Null}) = QueueRefs
        OBVIOUS
      <4> QED BY <4>1, <4>2, PushRefs
    <3>2. Held' = Held
      BY <2>2, <3>1 DEF Held
    <3>3. TypeOK' /\ Stages' /\ OthersAreApart'
      BY <2>1, <2>4, <3>1 DEF TypeOK, Stages, OthersAreApart
    <3>4. HeldAreLive' /\ SamplesOwnTheirRefs' /\ Subscribed'
      BY <2>1, <2>2, <3>1, <3>2 DEF HeldAreLive, SamplesOwnTheirRefs, Subscribed
    <3>5. LostOnce'
      BY <2>2, <2>4, <3>2, NothingLost DEF Lost
    <3> QED BY <3>3, <3>4, <3>5
  <2> QED BY <1>2, <2>3, <2>4 DEF Sample
<1>3. CASE CreateSample
  <2>1. /\ pc = "create" /\ pc' = "assign" /\ temp = Null
        /\ UNCHANGED <<group, channels, merged, channel, subscription, building, queue, delta, taken>>
    BY <1>3 DEF CreateSample, init, members, Stages
  <2>2. PICK ref \in {Null, New} :
            /\ temp' = ref
            /\ ref = New => Create(<<1>>) /\ channel # Null /\ subscription # Null
            /\ ref = Null => UNCHANGED retains
    BY <1>0, <1>3, <2>1 DEF CreateSample, CreateOrNull
  <2>3. retains' \in Seq({0, 1}) /\ Live' = Live \cup ({ref} \ {Null})
    BY <1>0, <2>2, CreateOnes DEF Live, TypeOK
  <2>4. OtherRefs' = OtherRefs \cup {ref}
    BY <1>1, <2>1, <2>2 DEF OtherRefs
  <2>5. TypeOK' /\ Stages'
    BY <1>0, <2>1, <2>2, <2>3 DEF TypeOK, Stages
  <2>6. ref # Null => ref \notin Held
    BY <1>0, <1>1
  <2>7. HeldAreLive' /\ SamplesOwnTheirRefs' /\ QueueRefs' = QueueRefs
    BY <1>1, <2>1, <2>2, <2>3, <2>4, <2>6, QueueStays
  <2>8. OthersAreApart' /\ Subscribed'
    BY <1>1, <2>1, <2>2, <2>6, <2>7 DEF OthersAreApart, Subscribed
  <2>9. LostOnce'
    <3>1. Live' \ Held' \subseteq Lost
      BY <1>1, <2>3, <2>4, <2>7 DEF Held, Lost
    <3> QED BY <2>1, <3>1, NothingLost
  <2> QED BY <2>5, <2>7, <2>8, <2>9
<1>4. CASE Assign
  <2>1. /\ pc = "assign" /\ pc' = "push" /\ building = Null /\ delta = Null
        /\ building' = temp /\ temp' = Null
        /\ UNCHANGED <<retains, group, channels, merged, channel, subscription, queue, delta, taken>>
    BY <1>4 DEF Assign, init, members, Stages
  <2>2. Live' = Live /\ OtherRefs' = OtherRefs
    BY <1>1, <2>1 DEF Live, OtherRefs
  <2>3. TypeOK' /\ Stages' /\ OthersAreApart'
    BY <2>1 DEF TypeOK, Stages, OthersAreApart
  <2>4. HeldAreLive' /\ SamplesOwnTheirRefs' /\ QueueRefs' = QueueRefs
    BY <1>1, <2>1, <2>2, QueueStays
  <2>5. Subscribed'
    BY <2>1, <2>4 DEF Subscribed
  <2>6. LostOnce'
    BY <1>1, <2>1, <2>2, <2>4, NothingLost DEF Held, Lost
  <2> QED BY <2>3, <2>4, <2>5, <2>6
<1>5. CASE Push
  <2>1. /\ pc = "push" /\ pc' \in {"diff", "ready"} /\ building' = Null
        /\ pc' = "diff" => Len(queue') = 6
        /\ temp = Null /\ delta = Null
        /\ queue' = Append(queue, building)
        /\ UNCHANGED <<retains, group, channels, merged, channel, subscription, temp, delta, taken>>
    BY <1>5 DEF Push, init, members, Stages
  <2>2. /\ queue' \in Seq(Nat) /\ QueueRefs' = QueueRefs \cup ({building} \ {Null})
        /\ \A i, j \in DOMAIN queue' : queue'[i] # Null /\ queue'[i] = queue'[j] => i = j
    <3>1. building \in Nat /\ building \notin QueueRefs
      BY <1>1 DEF TypeOK
    <3> QED BY <2>1, <3>1, PushRefs
  <2>3. Live' = Live /\ OtherRefs = {Null, channel, subscription, building}
        /\ OtherRefs' = {Null, channel, subscription}
    BY <1>1, <2>1 DEF Live, OtherRefs
  <2>4. TypeOK' /\ Stages' /\ OthersAreApart'
    <3>1. TypeOK'
      BY <1>0, <2>1, <2>2 DEF TypeOK
    <3>2. Stages'
      BY <2>1 DEF Stages
    <3> QED BY <2>1, <3>1, <3>2 DEF OthersAreApart
  <2>5. Held' = Held
    BY <1>1, <2>2, <2>3 DEF Held
  <2>6. HeldAreLive' /\ SamplesOwnTheirRefs'
    BY <1>1, <2>1, <2>2, <2>3, <2>5 DEF HeldAreLive, SamplesOwnTheirRefs, OthersAreApart
  <2>7. Subscribed'
    BY <2>1, <2>2 DEF Subscribed
  <2>8. LostOnce'
    BY <2>1, <2>3, <2>5, NothingLost DEF Lost
  <2> QED BY <2>4, <2>6, <2>7, <2>8
<1> QED BY <1>2, <1>3, <1>4, <1>5

LEMMA SixSamples ==
    ASSUME NEW q \in Seq(Nat), Len(q) = 6
    PROVE  DOMAIN q = 1..6 /\ q[6] \in Nat /\ 1..6 = 1..5 \cup {6}
<1>1. DOMAIN q = 1..6 /\ 6 \in 1..6
  OBVIOUS
<1>2. \A i \in 1..Len(q) : q[i] \in Nat
  BY ElementOfSeq
<1> QED BY <1>1, <1>2

LEMMA DiffStepsOwn ==
    ASSUME IInv, Diff \/ Walk \/ Pop
    PROVE  IInv'
<1> USE DEF IInv
<1>0. New \in Nat /\ New # Null /\ New \notin Live /\ Null \in Nat
  BY LiveRefs DEF New, Null
<1>1. /\ channels = {} /\ merged = Null
      /\ OtherRefs = {Null, channel, subscription, temp, building, delta}
      /\ Held = QueueRefs \cup (OtherRefs \ {Null}) /\ Held \subseteq Live
      /\ Null \notin QueueRefs /\ QueueRefs \cap OtherRefs = {}
  BY Sampling DEF Diff, Walk, Pop
<1>2. CASE Diff
  <2>1. /\ pc = "diff" /\ pc' \in {"walk", "pop"} /\ delta = Null
        /\ UNCHANGED <<group, channels, merged, channel, subscription, temp, building, queue, taken>>
    BY <1>2 DEF Diff, init, members, sampling, Stages
  <2>2. PICK ref \in {Null, New} :
            /\ delta' = ref
            /\ ref = New => Create(<<1>>) /\ pc' = "walk"
            /\ ref = Null => UNCHANGED retains /\ pc' = "pop"
    BY <1>0, <1>2, <2>1 DEF Diff
  <2>3. retains' \in Seq({0, 1}) /\ Live' = Live \cup ({ref} \ {Null})
    BY <1>0, <2>2, CreateOnes DEF Live, TypeOK
  <2>4. OtherRefs' = OtherRefs \cup {ref}
    BY <1>1, <2>1, <2>2 DEF OtherRefs
  <2>5. TypeOK' /\ Stages'
    BY <1>0, <2>1, <2>2, <2>3 DEF TypeOK, Stages
  <2>6. ref # Null => ref \notin Held
    BY <1>0, <1>1
  <2>7. HeldAreLive' /\ SamplesOwnTheirRefs' /\ QueueRefs' = QueueRefs
    BY <1>1, <2>1, <2>2, <2>3, <2>4, <2>6, QueueStays
  <2>8. OthersAreApart' /\ Subscribed'
    BY <1>1, <2>1, <2>2, <2>6, <2>7 DEF OthersAreApart, Subscribed
  <2>9. LostOnce'
    <3>1. Live' \ Held' \subseteq Lost
      BY <1>1, <2>3, <2>4, <2>7 DEF Held, Lost
    <3> QED BY <2>1, <3>1, NothingLost
  <2> QED BY <2>5, <2>7, <2>8, <2>9
<1>3. CASE Walk
  <2>1. /\ pc = "walk" /\ pc' = "pop" /\ delta # Null /\ delta' = Null
        /\ temp = Null /\ building = Null
        /\ CFRelease({delta})
        /\ UNCHANGED <<group, channels, merged, channel, subscription, temp, building, queue, taken>>
    BY <1>3 DEF Walk, init, members, sampling, Stages
  <2>2. delta \in Live /\ delta \notin {channel, subscription} /\ delta \notin QueueRefs
    BY <1>1, <2>1 DEF OthersAreApart
  <2>3. retains' \in Seq({0, 1}) /\ Live' = Live \ {delta}
    BY <2>1, <2>2, ReleaseLive
  <2>4. OtherRefs' = OtherRefs \ {delta}
    BY <1>1, <2>1, <2>2 DEF OtherRefs
  <2>5. TypeOK' /\ Stages' /\ OthersAreApart'
    BY <1>0, <2>1, <2>3 DEF TypeOK, Stages, OthersAreApart
  <2>6. HeldAreLive' /\ SamplesOwnTheirRefs' /\ QueueRefs' = QueueRefs
    BY <1>1, <2>1, <2>2, <2>3, <2>4, QueueStays
  <2>7. Subscribed'
    BY <2>1, <2>6 DEF Subscribed
  <2>8. LostOnce'
    <3>1. Live' \ Held' \subseteq Lost
      BY <1>1, <2>3, <2>4, <2>6 DEF Held, Lost
    <3> QED BY <2>1, <3>1, NothingLost
  <2> QED BY <2>5, <2>6, <2>7, <2>8
<1>4. CASE Pop
  <2> DEFINE refs == {queue[i] : i \in 1..5} \ {Null}
  <2>1. /\ pc = "pop" /\ pc' = "ready"
        /\ CFRelease(refs) /\ queue' = <<queue[6]>>
        /\ UNCHANGED <<group, channels, merged, channel, subscription, temp, building, delta, taken>>
    BY <1>4 DEF Pop, init, members
  <2>2. /\ queue \in Seq(Nat) /\ DOMAIN queue = 1..6 /\ queue[6] \in Nat
        /\ 1..6 = 1..5 \cup {6}
    <3>1. queue \in Seq(Nat) /\ Len(queue) = 6
      BY <2>1 DEF TypeOK, Stages
    <3> QED BY <3>1, SixSamples
  <2>3. QueueRefs = refs \cup ({queue[6]} \ {Null})
    BY <2>2 DEF QueueRefs
  <2>4. queue[6] \notin refs
    <3>1. ASSUME NEW i \in 1..5, queue[6] = queue[i], queue[6] # Null PROVE FALSE
      BY <2>2, <3>1 DEF SamplesOwnTheirRefs
    <3> QED BY <3>1
  <2>5. queue' \in Seq(Nat) /\ DOMAIN queue' = {1} /\ queue'[1] = queue[6]
    BY <2>1, <2>2
  <2>6. QueueRefs' = {queue[6]} \ {Null}
    BY <2>5 DEF QueueRefs, Null
  <2> HIDE DEF refs
  <2>7. retains' \in Seq({0, 1}) /\ Live' = Live \ refs
    <3>1. refs \subseteq Live
      BY <1>1, <2>3
    <3> QED BY <2>1, <3>1, ReleaseLive
  <2>8. OtherRefs' = OtherRefs /\ Held' = Held \ refs
    <3>1. OtherRefs' = OtherRefs
      BY <2>1 DEF OtherRefs
    <3> QED BY <1>1, <2>3, <2>4, <2>6, <3>1 DEF Held
  <2>9. TypeOK' /\ Stages' /\ OthersAreApart'
    BY <2>1, <2>5, <2>7 DEF TypeOK, Stages, OthersAreApart
  <2>10. HeldAreLive'
    BY <1>1, <2>7, <2>8 DEF HeldAreLive
  <2>11. SamplesOwnTheirRefs' /\ Subscribed'
    BY <1>1, <2>1, <2>3, <2>5, <2>6, <2>8 DEF SamplesOwnTheirRefs, Subscribed
  <2>12. LostOnce'
    <3>1. Live' \ Held' \subseteq Lost
      BY <2>7, <2>8 DEF Lost
    <3> QED BY <2>1, <3>1, NothingLost
  <2> QED BY <2>9, <2>10, <2>11, <2>12
<1> QED BY <1>2, <1>3, <1>4

LEMMA DestroyingStepsOwn ==
    ASSUME IInv, DestroyQueue \/ DestroyReport
    PROVE  IInv'
<1> USE DEF IInv
<1>1. /\ channels = {} /\ merged = Null
      /\ OtherRefs = {Null, channel, subscription, temp, building, delta}
      /\ Held = QueueRefs \cup (OtherRefs \ {Null}) /\ Held \subseteq Live
      /\ Null \notin QueueRefs /\ QueueRefs \cap OtherRefs = {}
  BY Sampling DEF DestroyQueue, DestroyReport
<1>2. CASE DestroyQueue
  <2>1. /\ pc \in {"ready", "failed"} /\ pc' = "destroy"
        /\ temp = Null /\ building = Null
        /\ CFRelease(QueueRefs) /\ queue' = <<>>
        /\ UNCHANGED <<group, channels, merged, channel, subscription, temp, building, delta, taken>>
    BY <1>2 DEF DestroyQueue, QueueRefs, init, members, Stages
  <2>2. retains' \in Seq({0, 1}) /\ Live' = Live \ QueueRefs
    BY <1>1, <2>1, ReleaseLive
  <2>3. OtherRefs' = OtherRefs /\ QueueRefs' = {}
    BY <2>1 DEF OtherRefs, QueueRefs
  <2>4. Held' = Held \ QueueRefs
    BY <1>1, <2>3 DEF Held
  <2>5. TypeOK' /\ Stages' /\ OthersAreApart'
    BY <2>1, <2>2 DEF TypeOK, Stages, OthersAreApart
  <2>6. HeldAreLive' /\ SamplesOwnTheirRefs' /\ Subscribed'
    BY <1>1, <2>1, <2>2, <2>3, <2>4 DEF HeldAreLive, SamplesOwnTheirRefs, Subscribed
  <2>7. LostOnce'
    <3>1. Live' \ Held' \subseteq Lost
      BY <2>2, <2>4 DEF Lost
    <3> QED BY <2>1, <3>1, NothingLost
  <2> QED BY <2>5, <2>6, <2>7
<1>3. CASE DestroyReport
  <2> DEFINE refs == {channel, subscription} \ {Null}
  <2>1. /\ pc = "destroy" /\ pc' = "gone"
        /\ temp = Null /\ building = Null /\ delta = Null /\ queue = <<>>
        /\ CFRelease(refs) /\ channel' = Null /\ subscription' = Null
        /\ UNCHANGED <<group, channels, merged, temp, building, queue, delta, taken>>
    BY <1>3 DEF DestroyReport, init, sampling, Stages
  <2>2. Held = refs
    BY <1>1, <2>1 DEF QueueRefs
  <2>3. OtherRefs' = {Null} /\ QueueRefs' = {}
    BY <1>1, <2>1 DEF OtherRefs, QueueRefs
  <2> HIDE DEF refs
  <2>4. retains' \in Seq({0, 1}) /\ Live' = Live \ refs
    BY <1>1, <2>1, <2>2, ReleaseLive
  <2>5. Held' = {}
    BY <2>3 DEF Held
  <2>6. TypeOK' /\ Stages' /\ OthersAreApart'
    BY <1>1, <2>1, <2>4 DEF TypeOK, Stages, OthersAreApart, Null
  <2>7. HeldAreLive' /\ SamplesOwnTheirRefs' /\ Subscribed'
    BY <2>1, <2>3, <2>5 DEF HeldAreLive, SamplesOwnTheirRefs, Subscribed
  <2>8. LostOnce'
    <3>1. Live' \ Held' \subseteq Lost
      BY <2>2, <2>4, <2>5 DEF Lost
    <3> QED BY <2>1, <3>1, NothingLost
  <2> QED BY <2>6, <2>7, <2>8
<1> QED BY <1>2, <1>3

LEMMA StutterOwns ==
    ASSUME IInv, UNCHANGED vars
    PROVE  IInv'
<1> USE DEF vars, init, members, sampling
<1>1. Live' = Live /\ QueueRefs' = QueueRefs /\ OtherRefs' = OtherRefs
  BY DEF Live, QueueRefs, OtherRefs
<1>2. Held' = Held
  BY <1>1 DEF Held
<1>3. TypeOK' /\ Stages' /\ OthersAreApart'
  BY DEF IInv, TypeOK, Stages, OthersAreApart
<1>4. HeldAreLive' /\ SamplesOwnTheirRefs' /\ Subscribed' /\ LostOnce'
  BY <1>1, <1>2 DEF IInv, HeldAreLive, SamplesOwnTheirRefs, Subscribed, LostOnce, Lost
<1> QED BY <1>3, <1>4 DEF IInv

LEMMA Owns == Spec => []IInv
<1>1. IInv /\ [Next]_vars => IInv'
  BY InitStepsOwn, TakingStepsOwn, DiffStepsOwn, DestroyingStepsOwn, StutterOwns
     DEF Next, Gone
<1> QED BY InitOwns, <1>1, PTL DEF Spec

-----------------------------------------------------------------------------
\* Nothing that a pointer of the program still names has been released.
THEOREM HeldAreAlwaysLive == Spec => []HeldAreLive
<1>1. IInv => HeldAreLive
  BY DEF IInv
<1> QED BY Owns, <1>1, PTL

\* Every sample of the queue is the only owner of its reference.
THEOREM SamplesAlwaysOwn == Spec => []SamplesOwnTheirRefs
<1>1. IInv => SamplesOwnTheirRefs
  BY DEF IInv
<1> QED BY Owns, <1>1, PTL

\* One object at most is ever left without an owner, whatever fails.
THEOREM LeaksAtMostOnce == Spec => []LeakIsOnce
<1>1. IInv => LeakIsOnce
  <2> SUFFICES ASSUME IInv
               PROVE  Cardinality(Live \ Held) <= 1
    BY DEF LeakIsOnce
  <2>2. PICK r \in Nat : Live \ Held \subseteq {r}
    BY DEF IInv, LostOnce, Lost
  <2>3. Live \ Held = {} \/ Live \ Held = {r}
    BY <2>2
  <2>4. Cardinality({}) = 0 /\ Cardinality({r}) = 1
    BY FS_EmptySet, FS_Singleton
  <2>5. CASE Live \ Held = {}
    <3>1. Cardinality(Live \ Held) = 0
      BY <2>4, <2>5, Zenon
    <3> QED BY <3>1
  <2>6. CASE Live \ Held = {r}
    <3>1. Cardinality(Live \ Held) = 1
      BY <2>4, <2>6, Zenon
    <3> QED BY <3>1
  <2> QED BY <2>3, <2>5, <2>6
<1> QED BY Owns, <1>1, PTL

\* The subscription of a sample that is still in the queue is alive.
THEOREM SubscriptionStays == Spec => []SubscriptionOutlivesSamples
<1>1. IInv => SubscriptionOutlivesSamples
  BY DEF IInv, SubscriptionOutlivesSamples, Subscribed, HeldAreLive, Held, OtherRefs
<1> QED BY Owns, <1>1, PTL

\* The three together: the ownership of references is kept.
THEOREM OwnershipIsKept == Spec => []Ownership
<1>1. HeldAreLive /\ SamplesOwnTheirRefs /\ SubscriptionOutlivesSamples => Ownership
  BY DEF Ownership
<1> QED BY HeldAreAlwaysLive, SamplesAlwaysOwn, SubscriptionStays, <1>1, PTL

\* What the program does with its references keeps the rule of Core Foundation
\* objects: created with one retain, released once.
THEOREM ReportKeepsCounts == Spec => CountsKept
<1>1. Init => Counts!Init
  BY DEF Init, Counts!Init
<1>2. IInv /\ [Next]_vars => [Counts!Create \/ Counts!Release]_retains
  <2> SUFFICES ASSUME IInv, [Next]_vars
               PROVE  Counts!Create \/ Counts!Release \/ UNCHANGED retains
    OBVIOUS
  <2>1. ASSUME NEW ones \in {<< 1 >>, << 1, 1 >>}, Create(ones) PROVE Counts!Create
    BY <2>1 DEF Create, Counts!Create
  <2>2. ASSUME NEW refs, refs \subseteq Held, CFRelease(refs) PROVE Counts!Release
    BY <2>2, ReleaseLive DEF IInv, HeldAreLive
  <2>3. CASE CopyChannels \/ Merge \/ CreateSample \/ Diff \/ Subscribe
    BY <2>1, <2>3 DEF CopyChannels, Merge, CreateSample, Diff, Subscribe, CreateOrNull
  <2>4. CASE ReleaseChannels
    <3>1. channels \subseteq Held /\ CFRelease(channels)
      BY <2>4 DEF ReleaseChannels, Held, OtherRefs, IInv, OthersAreApart
    <3> QED BY <2>2, <3>1
  <2>5. CASE SubscribeFails
    <3>1. {merged} \subseteq Held /\ CFRelease({merged})
      BY <2>5 DEF SubscribeFails, Held, OtherRefs, IInv, Stages
    <3> QED BY <2>2, <3>1
  <2>6. CASE Walk
    <3>1. {delta} \subseteq Held /\ CFRelease({delta})
      BY <2>6 DEF Walk, Held, OtherRefs, IInv, Stages
    <3> QED BY <2>2, <3>1
  <2>7. CASE Pop
    <3>1. DOMAIN queue = 1..6
      BY <2>7 DEF Pop, IInv, Stages, TypeOK
    <3>2. {queue[i] : i \in 1..5} \ {Null} \subseteq Held
      BY <3>1 DEF Held, QueueRefs
    <3> QED BY <2>2, <2>7, <3>2 DEF Pop
  <2>8. CASE DestroyQueue
    BY <2>2, <2>8 DEF DestroyQueue, Held, QueueRefs
  <2>9. CASE DestroyReport
    BY <2>2, <2>9 DEF DestroyReport, Held, OtherRefs
  <2>10. CASE NoChannels \/ NoReportChannels \/ Sample \/ Assign \/ Push \/ Gone \/ UNCHANGED vars
    BY <2>10 DEF NoChannels, NoReportChannels, Sample, Assign, Push, Gone, vars
  <2> QED BY <2>3, <2>4, <2>5, <2>6, <2>7, <2>8, <2>9, <2>10 DEF Next
<1> QED BY Owns, <1>1, <1>2, PTL DEF Spec, CountsKept, Counts!Spec

-----------------------------------------------------------------------------
(***************************************************************************)
(* The walk over the disks.  What it holds is a matter of where it is, and *)
(* a medium of the registry is left, in its turn, listed or passed over.   *)
(***************************************************************************)
HandleNames == {"iterator", "disk", "parent", "disk_props", "props"}

\* The variables whose object is held at each call.
Holders(at) ==
    CASE at = "next" -> {"iterator"}
      [] at = "parent" -> {"iterator", "disk"}
      [] at \in {"conforms", "name", "counters"} -> {"iterator", "disk", "parent"}
      [] at = "named" -> {"iterator", "disk", "parent", "disk_props"}
      [] at = "stats" -> {"iterator", "disk", "parent", "props"}
      [] OTHER -> {}

Turn == {"parent", "conforms", "name", "named", "counters", "stats"}

\* Each of them has an object of its own, with one retain, and no other has any.
HeldOnce(h, counts, live) ==
    /\ h \in [HandleNames -> Nat]
    /\ counts \in Seq(Int)
    /\ \A v \in live : h[v] \in 1..Len(counts)
    /\ \A v, w \in live : h[v] = h[w] => v = w
    /\ \A r \in 1..Len(counts) : counts[r] = IF r \in {h[v] : v \in live} THEN 1 ELSE 0

WalkTypes ==
    /\ disk_pc \in {"list", "next", "done"} \cup Turn
    /\ count \in [Media -> Int] /\ plugged \subseteq Media /\ left \subseteq Media
    /\ \A m \in Media : m.count \in Int /\ m.count <= count[m]
    /\ props \in Int

\* Where the medium of this turn stands.
InTurn ==
    disk_pc \in Turn =>
        /\ disk \in Media /\ disk \notin left /\ disk \notin skipped
        /\ disk_pc \in {"name", "named", "counters", "stats"} => disk.driver
        /\ disk_pc \in {"counters", "stats"} => disk.bsd # NoName
        /\ disk_pc = "stats" => disk.count <= props /\ props <= count[disk]

Wanted(m) == m.driver /\ m.stats /\ m.bsd # NoName

\* No medium of the registry is forgotten, and each counter is of one that was
\* read.
Complete ==
    /\ skipped \cap left = {}
    /\ disk_pc # "list" /\ ~disk_sample.failed =>
          \A m \in plugged : Wanted(m) /\ m \notin skipped =>
              \/ m \in left
              \/ disk_pc \in Turn /\ m = disk
              \/ m.bsd \in DOMAIN disk_counters
    /\ \A n \in DOMAIN disk_counters :
          \E m \in Media \ (skipped \cup left) :
              m.bsd = n /\ Wanted(m) /\ (disk_pc \in Turn => m # disk)

\* Its value was the driver's at some moment of the walk.
Measured ==
    \A m \in Media : m.bsd \in DOMAIN disk_counters =>
        /\ disk_counters[m.bsd] \in Nat
        /\ m.count <= disk_counters[m.bsd]
        /\ disk_counters[m.bsd] <= count[m] \/ disk_counters[m.bsd] = 0

\* The sample is made at the end.
Sampled ==
    /\ disk_pc \notin {"done"} => disk_sample = Disk!NoSample
    /\ disk_pc = "list" => disk_counters = Disk!NoCounters /\ disk_retains = <<>> /\ skipped = {} /\ left = {}
    /\ disk_pc = "done" =>
          \/ disk_sample.failed /\ disk_sample.counters = Disk!NoCounters
          \/ disk_sample.counters = disk_counters /\ left = {}

WalkInv ==
    /\ WalkTypes
    /\ HeldOnce(held, disk_retains, Holders(disk_pc))
    /\ InTurn /\ Complete /\ Measured /\ Sampled

LEMMA CreateKeepsHeld ==
    ASSUME NEW live \in SUBSET HandleNames, HeldOnce(held, disk_retains, live),
           NEW v \in HandleNames \ live, Disk!CreateFor(v)
    PROVE  HeldOnce(held', disk_retains', live \cup {v})
<1> DEFINE n == Len(disk_retains)
<1>1. /\ disk_retains' = Append(disk_retains, 1)
      /\ held' = [held EXCEPT ![v] = n + 1]
  BY DEF Disk!CreateFor
<1>2. n \in Nat /\ disk_retains \in Seq(Int) /\ held \in [HandleNames -> Nat]
  BY DEF HeldOnce
<1>3. /\ disk_retains' \in Seq(Int) /\ Len(disk_retains') = n + 1
      /\ \A r \in 1..n : disk_retains'[r] = disk_retains[r]
      /\ disk_retains'[n + 1] = 1
  BY <1>1, <1>2
<1>4. /\ held' \in [HandleNames -> Nat] /\ held'[v] = n + 1
      /\ \A w \in live : held'[w] = held[w] /\ held[w] \in 1..n
  BY <1>1, <1>2 DEF HeldOnce
<1>5. {held'[w] : w \in live \cup {v}} = {held[w] : w \in live} \cup {n + 1}
  BY <1>4
<1>6. \A w \in live \cup {v} : held'[w] \in 1..(n + 1)
  BY <1>2, <1>4
<1>7. \A w, u \in live \cup {v} : held'[w] = held'[u] => w = u
  BY <1>2, <1>4 DEF HeldOnce
<1>8. \A r \in 1..(n + 1) :
         disk_retains'[r] = IF r \in {held'[w] : w \in live \cup {v}} THEN 1 ELSE 0
  <2> TAKE r \in 1..(n + 1)
  <2>1. CASE r \in 1..n
    <3>1. r # n + 1
      BY <1>2, <2>1
    <3>2. disk_retains[r] = IF r \in {held[w] : w \in live} THEN 1 ELSE 0
      BY <2>1 DEF HeldOnce
    <3> HIDE DEF n
    <3> QED BY <1>3, <1>5, <2>1, <3>1, <3>2
  <2>2. CASE r = n + 1
    BY <1>3, <1>5, <2>2
  <2> QED BY <1>2, <2>1, <2>2
<1> QED BY <1>3, <1>4, <1>6, <1>7, <1>8 DEF HeldOnce

LEMMA ReleaseKeepsHeld ==
    ASSUME NEW live \in SUBSET HandleNames, HeldOnce(held, disk_retains, live),
           NEW vs \in SUBSET live, Disk!ReleaseOf(vs)
    PROVE  HeldOnce(held', disk_retains', live \ vs)
<1> DEFINE n == Len(disk_retains)
<1>1. /\ disk_retains' = [r \in DOMAIN disk_retains |->
             IF r \in {held[v] : v \in vs} THEN disk_retains[r] - 1 ELSE disk_retains[r]]
      /\ held' = held
  BY DEF Disk!ReleaseOf
<1>2. /\ n \in Nat /\ DOMAIN disk_retains = 1..n
      /\ \A r \in 1..n : disk_retains[r] \in Int
  BY DEF HeldOnce
<1>3. /\ disk_retains' \in Seq(Int) /\ Len(disk_retains') = n
  <2>1. disk_retains' \in [1..n -> Int]
    BY <1>1, <1>2
  <2>2. disk_retains' \in Seq(Int)
    BY <1>2, <2>1, SeqDef
  <2>3. Len(disk_retains') = n
    BY <1>2, <2>1, <2>2, LenProperties
  <2> QED BY <2>2, <2>3
<1>4. ASSUME NEW r \in 1..n
      PROVE  disk_retains'[r] = IF r \in {held[v] : v \in live \ vs} THEN 1 ELSE 0
  <2>1. disk_retains[r] = IF r \in {held[v] : v \in live} THEN 1 ELSE 0
    BY DEF HeldOnce
  <2>2. r \in {held[v] : v \in live \ vs} <=>
            r \in {held[v] : v \in live} /\ r \notin {held[v] : v \in vs}
    BY DEF HeldOnce
  <2>3. r \in {held[v] : v \in vs} => r \in {held[v] : v \in live}
    OBVIOUS
  <2>4. disk_retains'[r] = IF r \in {held[v] : v \in vs} THEN disk_retains[r] - 1
                           ELSE disk_retains[r]
    BY <1>1, <1>2
  <2> HIDE DEF n
  <2> QED BY <2>1, <2>2, <2>3, <2>4
<1>5. /\ held' \in [HandleNames -> Nat]
      /\ \A v \in live \ vs : held'[v] \in 1..n
      /\ \A v, w \in live \ vs : held'[v] = held'[w] => v = w
  BY <1>1 DEF HeldOnce
<1>6. \A r \in 1..n : disk_retains'[r] = IF r \in {held'[v] : v \in live \ vs} THEN 1 ELSE 0
  BY <1>1, <1>4
<1> HIDE DEF n
<1> QED BY <1>3, <1>5, <1>6 DEF HeldOnce

-----------------------------------------------------------------------------
\* The iterator is held in each turn, with what the turn has created.
LEMMA HoldersOf ==
    /\ \A at \in {"list", "done"} : Holders(at) = {}
    /\ Holders("next") = {"iterator"}
    /\ Holders("parent") = {"iterator", "disk"}
    /\ \A at \in {"conforms", "name", "counters"} : Holders(at) = {"iterator", "disk", "parent"}
    /\ Holders("named") = {"iterator", "disk", "parent", "disk_props"}
    /\ Holders("stats") = {"iterator", "disk", "parent", "props"}
    /\ \A at : Holders(at) \in SUBSET HandleNames
BY DEF Holders, HandleNames

LEMMA InitWalkInv == Disk!Assumption /\ Disk!Init => WalkInv
<1> SUFFICES ASSUME Disk!Assumption, Disk!Init PROVE WalkInv
  OBVIOUS
<1>1. /\ plugged \subseteq Media /\ count = [m \in Media |-> m.count]
      /\ disk_pc = "list" /\ left = {} /\ held = Disk!Nothing /\ disk_retains = <<>>
      /\ props = 0 /\ disk_counters = Disk!NoCounters /\ disk_sample = Disk!NoSample
      /\ skipped = {}
  BY DEF Disk!Init
<1>2. \A m \in Media : m.count \in Int
  BY DEF Disk!Assumption
<1>3. WalkTypes
  BY <1>1, <1>2 DEF WalkTypes
<1>4. HeldOnce(held, disk_retains, Holders(disk_pc))
  <2>1. disk_retains \in Seq(Int) /\ Len(disk_retains) = 0
    BY <1>1
  <2>2. held \in [HandleNames -> Nat]
    BY <1>1 DEF Disk!Nothing, HandleNames
  <2> QED BY <1>1, <2>1, <2>2, HoldersOf DEF HeldOnce
<1>5. DOMAIN disk_counters = {}
  BY <1>1 DEF Disk!NoCounters
<1>6. InTurn /\ Complete /\ Measured /\ Sampled
  BY <1>1, <1>5 DEF InTurn, Complete, Measured, Sampled, Turn
<1> QED BY <1>3, <1>4, <1>6 DEF WalkInv

\* A turn ends for a medium that is passed over, for good or because a call
\* failed, and lists no counters.
LEMMA PassOverKeeps ==
    ASSUME WalkInv, disk_pc \in Turn, disk_pc' = "next",
           NEW vs, vs = Holders(disk_pc) \ {"iterator"}, Disk!ReleaseOf(vs),
           (skipped' = skipped /\ ~Wanted(disk)) \/ skipped' = skipped \cup {disk},
           UNCHANGED <<plugged, count, left, disk, props, disk_counters, disk_sample>>
    PROVE  WalkInv'
<1> USE DEF WalkInv
<1>1. HeldOnce(held', disk_retains', Holders(disk_pc'))
  <2> DEFINE live == Holders(disk_pc)
  <2>1. live \in SUBSET HandleNames /\ vs \in SUBSET live
    BY HoldersOf
  <2>2. HeldOnce(held', disk_retains', live \ vs)
    <3> HIDE DEF live
    <3> QED BY <2>1, ReleaseKeepsHeld DEF live
  <2>3. live \ vs = Holders("next")
    BY HoldersOf DEF Turn
  <2> QED BY <2>2, <2>3
<1>2. WalkTypes' /\ InTurn'
  BY DEF WalkTypes, InTurn, Turn
<1>3. Complete'
  <2>1. disk_pc # "list" /\ ~disk_sample.failed
    BY DEF Sampled, Turn, Disk!NoSample
  <2>2. disk \notin left
    BY DEF InTurn
  <2>3. \A n \in DOMAIN disk_counters :
          \E m \in Media \ (skipped' \cup left) : m.bsd = n /\ Wanted(m)
    BY DEF Complete
  <2> QED BY <2>1, <2>2, <2>3 DEF Complete, Turn
<1>4. Measured' /\ Sampled'
  BY DEF Measured, Sampled, Turn
<1> QED BY <1>1, <1>2, <1>3, <1>4

\* A call succeeds in its turn, and what it creates is held from there.
LEMMA TurnGoesOn ==
    ASSUME WalkInv, disk_pc \in Turn, disk_pc' \in Turn,
           HeldOnce(held', disk_retains', Holders(disk_pc')),
           props' \in Int, InTurn',
           UNCHANGED <<plugged, count, left, disk, disk_counters, disk_sample, skipped>>
    PROVE  WalkInv'
<1> USE DEF WalkInv
<1>1. WalkTypes'
  BY DEF WalkTypes
<1>2. Complete' /\ Measured' /\ Sampled'
  BY DEF Complete, Measured, Sampled, Turn
<1> QED BY <1>1, <1>2

\* A call that creates an object for v.
LEMMA CreateInTurn ==
    ASSUME HeldOnce(held, disk_retains, Holders(disk_pc)),
           NEW v \in HandleNames \ Holders(disk_pc), Disk!CreateFor(v),
           NEW at, Holders(at) = Holders(disk_pc) \cup {v}
    PROVE  HeldOnce(held', disk_retains', Holders(at))
<1> DEFINE live == Holders(disk_pc)
<1>1. live \in SUBSET HandleNames
  BY HoldersOf
<1>2. HeldOnce(held', disk_retains', live \cup {v})
  <2> HIDE DEF live
  <2> QED BY <1>1, CreateKeepsHeld DEF live
<1> QED BY <1>2

\* The calls of a walk.
LEMMA WalkKeepsInv == Disk!Assumption /\ WalkInv /\ Disk!Walk => WalkInv'
<1> SUFFICES ASSUME Disk!Assumption, WalkInv, Disk!Walk PROVE WalkInv'
  OBVIOUS
<1> DEFINE inTurn == Holders(disk_pc) \ {"iterator"}
<1>0. HeldOnce(held, disk_retains, Holders(disk_pc))
  BY DEF WalkInv
<1>1. CASE Disk!ListMedia
  <2>1. /\ disk_pc = "list" /\ disk_retains = <<>> /\ skipped = {}
        /\ disk_counters = Disk!NoCounters /\ disk_sample = Disk!NoSample
        /\ UNCHANGED <<plugged, count, props, disk_counters, skipped>>
    BY <1>1 DEF Disk!ListMedia, WalkInv, Sampled, Disk!world
  <2>2. DOMAIN disk_counters = {}
    BY <2>1 DEF Disk!NoCounters
  <2>3. CASE /\ Disk!CreateFor("iterator") /\ left' = plugged /\ disk_pc' = "next"
             /\ UNCHANGED disk_sample
    <3>1. HeldOnce(held', disk_retains', Holders("next"))
      <4>1. "iterator" \in HandleNames \ Holders(disk_pc) /\ Holders("next") = Holders(disk_pc) \cup {"iterator"}
        BY <2>1, HoldersOf DEF HandleNames
      <4> QED BY <1>0, <2>3, <4>1, CreateInTurn
    <3>2. WalkTypes' /\ InTurn' /\ Measured' /\ Sampled'
      BY <2>1, <2>2, <2>3 DEF WalkInv, WalkTypes, InTurn, Measured, Sampled, Turn
    <3>3. Complete'
      BY <2>1, <2>2, <2>3 DEF Complete, Turn
    <3> QED BY <2>3, <3>1, <3>2, <3>3 DEF WalkInv
  <2>4. CASE /\ disk_sample' = [counters |-> Disk!NoCounters, failed |-> TRUE]
             /\ disk_pc' = "done" /\ UNCHANGED <<left, held, disk_retains>>
    <3>1. HeldOnce(held', disk_retains', Holders(disk_pc'))
      BY <1>0, <2>1, <2>4, HoldersOf
    <3>2. WalkTypes' /\ InTurn' /\ Measured' /\ Sampled'
      BY <2>1, <2>2, <2>4 DEF WalkInv, WalkTypes, InTurn, Measured, Sampled, Turn
    <3>3. Complete'
      BY <2>1, <2>2, <2>4 DEF Complete
    <3> QED BY <3>1, <3>2, <3>3 DEF WalkInv
  <2> QED BY <1>1, <2>3, <2>4 DEF Disk!ListMedia
<1>2. CASE Disk!IOIteratorNext
  <2>1. /\ disk_pc = "next" /\ disk' \in left /\ left' = left \ {disk'}
        /\ Disk!CreateFor("disk") /\ disk_pc' = "parent"
        /\ UNCHANGED <<plugged, count, props, disk_counters, disk_sample, skipped>>
    BY <1>2 DEF Disk!IOIteratorNext, Disk!world
  <2>2. HeldOnce(held', disk_retains', Holders("parent"))
    <3>1. "disk" \in HandleNames \ Holders(disk_pc) /\ Holders("parent") = Holders(disk_pc) \cup {"disk"}
      BY <2>1, HoldersOf DEF HandleNames
    <3> QED BY <1>0, <2>1, <3>1, CreateInTurn
  <2>3. WalkTypes' /\ InTurn' /\ Measured' /\ Sampled'
    BY <2>1 DEF WalkInv, WalkTypes, InTurn, Measured, Sampled, Complete, Turn
  <2>4. Complete'
    BY <2>1 DEF WalkInv, Complete, Turn
  <2> QED BY <2>1, <2>2, <2>3, <2>4 DEF WalkInv
<1>3. CASE Disk!GetParent
  <2>1. disk_pc = "parent" /\ disk_pc \in Turn
    BY <1>3 DEF Disk!GetParent, Turn
  <2>2. CASE /\ Disk!CreateFor("parent") /\ disk_pc' = "conforms"
             /\ UNCHANGED <<Disk!world, left, disk, props, disk_counters, disk_sample, skipped>>
    <3>1. HeldOnce(held', disk_retains', Holders("conforms"))
      <4>1. "parent" \in HandleNames \ Holders(disk_pc) /\ Holders("conforms") = Holders(disk_pc) \cup {"parent"}
        BY <2>1, HoldersOf DEF HandleNames
      <4> QED BY <1>0, <2>2, <4>1, CreateInTurn
    <3>2. props' \in Int /\ InTurn' /\ disk_pc' \in Turn
      BY <2>1, <2>2 DEF WalkInv, WalkTypes, InTurn, Turn
    <3> QED BY <2>1, <2>2, <3>1, <3>2, TurnGoesOn DEF Disk!world
  <2>3. CASE Disk!Skip({"disk"})
    <3>1. {"disk"} = inTurn
      BY <2>1, HoldersOf
    <3> QED BY <2>1, <2>3, <3>1, PassOverKeeps DEF Disk!Skip, Disk!Continue, Disk!world
  <2> QED BY <1>3, <2>2, <2>3 DEF Disk!GetParent
<1>4. CASE Disk!ConformsTo
  <2>1. /\ disk_pc = "conforms" /\ disk_pc \in Turn
        /\ UNCHANGED <<plugged, count, left, disk, props, disk_counters, skipped>>
    BY <1>4 DEF Disk!ConformsTo, Disk!world, Turn
  <2>2. CASE disk.driver
    <3>1. disk_pc' = "name" /\ UNCHANGED <<held, disk_retains, disk_sample>>
      BY <1>4, <2>2 DEF Disk!ConformsTo
    <3>2. HeldOnce(held', disk_retains', Holders(disk_pc'))
      BY <1>0, <2>1, <3>1, HoldersOf
    <3>3. props' \in Int /\ InTurn' /\ disk_pc' \in Turn
      BY <2>1, <2>2, <3>1 DEF WalkInv, WalkTypes, InTurn, Turn
    <3> QED BY <2>1, <3>1, <3>2, <3>3, TurnGoesOn
  <2>3. CASE ~disk.driver
    <3>1. Disk!Continue({"disk", "parent"}) /\ {"disk", "parent"} = inTurn /\ ~Wanted(disk)
      BY <1>4, <2>1, <2>3, HoldersOf DEF Disk!ConformsTo, Wanted
    <3> QED BY <2>1, <3>1, PassOverKeeps DEF Disk!Continue
  <2> QED BY <2>2, <2>3
<1>5. CASE Disk!GetDiskProps
  <2>1. disk_pc = "name" /\ disk_pc \in Turn
    BY <1>5 DEF Disk!GetDiskProps, Turn
  <2>2. CASE /\ Disk!CreateFor("disk_props") /\ disk_pc' = "named"
             /\ UNCHANGED <<Disk!world, left, disk, props, disk_counters, disk_sample, skipped>>
    <3>1. HeldOnce(held', disk_retains', Holders("named"))
      <4>1. "disk_props" \in HandleNames \ Holders(disk_pc) /\ Holders("named") = Holders(disk_pc) \cup {"disk_props"}
        BY <2>1, HoldersOf DEF HandleNames
      <4> QED BY <1>0, <2>2, <4>1, CreateInTurn
    <3>2. props' \in Int /\ InTurn' /\ disk_pc' \in Turn
      BY <2>1, <2>2 DEF WalkInv, WalkTypes, InTurn, Turn
    <3> QED BY <2>1, <2>2, <3>1, <3>2, TurnGoesOn DEF Disk!world
  <2>3. CASE Disk!Skip({"disk", "parent"})
    <3>1. {"disk", "parent"} = inTurn
      BY <2>1, HoldersOf
    <3> QED BY <2>1, <2>3, <3>1, PassOverKeeps DEF Disk!Skip, Disk!Continue, Disk!world
  <2> QED BY <1>5, <2>2, <2>3 DEF Disk!GetDiskProps
<1>6. CASE Disk!GetDiskName
  <2>1. /\ disk_pc = "named" /\ disk_pc \in Turn
        /\ UNCHANGED <<plugged, count, left, disk, props, disk_counters, skipped>>
    BY <1>6 DEF Disk!GetDiskName, Disk!world, Turn
  <2>2. CASE disk.bsd # NoName
    <3>1. Disk!ReleaseOf({"disk_props"}) /\ disk_pc' = "counters" /\ UNCHANGED disk_sample
      BY <1>6, <2>2 DEF Disk!GetDiskName
    <3>2. HeldOnce(held', disk_retains', Holders(disk_pc'))
      <4> DEFINE live == Holders(disk_pc)
      <4>1. live \in SUBSET HandleNames /\ {"disk_props"} \in SUBSET live
        BY <2>1, HoldersOf
      <4>2. HeldOnce(held', disk_retains', live \ {"disk_props"})
        <5> HIDE DEF live
        <5> QED BY <1>0, <3>1, <4>1, ReleaseKeepsHeld DEF live
      <4>3. live \ {"disk_props"} = Holders("counters")
        BY <2>1, HoldersOf
      <4> QED BY <3>1, <4>2, <4>3
    <3>3. props' \in Int /\ InTurn' /\ disk_pc' \in Turn
      BY <2>1, <2>2, <3>1 DEF WalkInv, WalkTypes, InTurn, Turn
    <3> QED BY <2>1, <3>1, <3>2, <3>3, TurnGoesOn
  <2>3. CASE disk.bsd = NoName
    <3>1. /\ Disk!Continue({"disk", "parent", "disk_props"})
          /\ {"disk", "parent", "disk_props"} = inTurn /\ ~Wanted(disk)
      BY <1>6, <2>1, <2>3, HoldersOf DEF Disk!GetDiskName, Wanted
    <3> QED BY <2>1, <3>1, PassOverKeeps DEF Disk!Continue
  <2> QED BY <2>2, <2>3
<1>7. CASE Disk!GetProps
  <2>1. disk_pc = "counters" /\ disk_pc \in Turn
    BY <1>7 DEF Disk!GetProps, Turn
  <2>2. CASE /\ Disk!CreateFor("props") /\ props' = count[disk] /\ disk_pc' = "stats"
             /\ UNCHANGED <<Disk!world, left, disk, disk_counters, disk_sample, skipped>>
    <3>1. HeldOnce(held', disk_retains', Holders("stats"))
      <4>1. "props" \in HandleNames \ Holders(disk_pc) /\ Holders("stats") = Holders(disk_pc) \cup {"props"}
        BY <2>1, HoldersOf DEF HandleNames
      <4> QED BY <1>0, <2>2, <4>1, CreateInTurn
    <3>2. props' \in Int /\ disk.count <= props' /\ props' <= count[disk]
      BY <2>1, <2>2 DEF WalkInv, WalkTypes, InTurn
    <3>3. InTurn' /\ disk_pc' \in Turn
      BY <2>1, <2>2, <3>2 DEF WalkInv, InTurn, Turn, Disk!world
    <3> QED BY <2>1, <2>2, <3>1, <3>2, <3>3, TurnGoesOn DEF Disk!world
  <2>3. CASE Disk!Skip({"disk", "parent"})
    <3>1. {"disk", "parent"} = inTurn
      BY <2>1, HoldersOf
    <3> QED BY <2>1, <2>3, <3>1, PassOverKeeps DEF Disk!Skip, Disk!Continue, Disk!world
  <2> QED BY <1>7, <2>2, <2>3 DEF Disk!GetProps
<1>8. CASE Disk!AddCounter
  <2>1. /\ disk_pc = "stats" /\ disk_pc \in Turn /\ disk_pc' = "next"
        /\ disk_counters' = IF disk.stats
                            THEN [n \in DOMAIN disk_counters \cup {disk.bsd} |->
                                    IF n \in DOMAIN disk_counters THEN disk_counters[n]
                                    ELSE Disk!Counted(props)]
                            ELSE disk_counters
        /\ Disk!ReleaseOf({"disk", "parent", "props"})
        /\ UNCHANGED <<plugged, count, left, disk, props, disk_sample, skipped>>
    BY <1>8 DEF Disk!AddCounter, Disk!Continue, Disk!world, Turn
  <2>2. {"disk", "parent", "props"} = inTurn
    BY <2>1, HoldersOf
  <2>3. CASE ~disk.stats
    <3>1. UNCHANGED disk_counters /\ ~Wanted(disk)
      BY <2>1, <2>3 DEF Wanted
    <3> QED BY <2>1, <2>2, <3>1, PassOverKeeps
  <2>4. CASE disk.stats
    <3>1. HeldOnce(held', disk_retains', Holders(disk_pc'))
      <4> DEFINE live == Holders(disk_pc)
      <4>1. live \in SUBSET HandleNames /\ inTurn \in SUBSET live
        BY HoldersOf
      <4>2. HeldOnce(held', disk_retains', live \ inTurn)
        <5> HIDE DEF live, inTurn
        <5> QED BY <1>0, <2>1, <2>2, <4>1, ReleaseKeepsHeld DEF live
      <4>3. live \ inTurn = Holders("next")
        BY <2>1, HoldersOf
      <4> QED BY <2>1, <4>2, <4>3
    <3>2. WalkTypes' /\ InTurn' /\ Sampled'
      BY <2>1 DEF WalkInv, WalkTypes, InTurn, Sampled, Turn
    <3>3. DOMAIN disk_counters' = DOMAIN disk_counters \cup {disk.bsd}
      BY <2>1, <2>4
    <3>4. Wanted(disk) /\ disk \in Media /\ disk \notin left /\ disk \notin skipped
      BY <2>1, <2>4 DEF WalkInv, InTurn, Wanted
    <3>5. Complete'
      <4>1. disk_pc # "list" /\ ~disk_sample.failed
        BY <2>1 DEF WalkInv, Sampled, Disk!NoSample
      <4> QED BY <2>1, <3>3, <3>4, <4>1 DEF WalkInv, Complete, Turn
    <3>6. Measured'
      <4> SUFFICES ASSUME NEW m \in Media, m.bsd \in DOMAIN disk_counters'
                   PROVE  /\ disk_counters'[m.bsd] \in Nat
                          /\ m.count <= disk_counters'[m.bsd]
                          /\ disk_counters'[m.bsd] <= count[m] \/ disk_counters'[m.bsd] = 0
        BY <2>1 DEF Measured
      <4>1. CASE m.bsd \in DOMAIN disk_counters
        <5>1. disk_counters'[m.bsd] = disk_counters[m.bsd]
          BY <2>1, <2>4, <4>1
        <5> QED BY <4>1, <5>1 DEF WalkInv, Measured
      <4>2. CASE m.bsd \notin DOMAIN disk_counters
        <5>1. m.bsd = disk.bsd
          BY <3>3, <4>2
        <5>2. m = disk
          BY <3>4, <5>1 DEF Disk!Assumption, Wanted
        <5>3. disk_counters'[m.bsd] = Disk!Counted(props)
          BY <2>1, <2>4, <4>2, <5>1
        <5>4. props \in Int /\ disk.count <= props /\ props <= count[disk]
          BY <2>1 DEF WalkInv, WalkTypes, InTurn
        <5>5. disk.count \in Int /\ count[disk] \in Int
          BY <3>4 DEF Disk!Assumption, WalkInv, WalkTypes
        <5> QED BY <5>2, <5>3, <5>4, <5>5 DEF Disk!Counted
      <4> QED BY <4>1, <4>2
    <3> QED BY <3>1, <3>2, <3>5, <3>6 DEF WalkInv
  <2> QED BY <2>3, <2>4
<1>9. CASE Disk!EndOfMedia
  <2>1. /\ disk_pc = "next" /\ left = {} /\ disk_pc' = "done"
        /\ Disk!ReleaseOf({"iterator"})
        /\ disk_sample' = [counters |-> disk_counters, failed |-> FALSE]
        /\ UNCHANGED <<plugged, count, left, disk, props, disk_counters, skipped>>
    BY <1>9 DEF Disk!EndOfMedia, Disk!world
  <2>2. HeldOnce(held', disk_retains', Holders(disk_pc'))
    <3> DEFINE live == Holders(disk_pc)
    <3>1. live \in SUBSET HandleNames /\ {"iterator"} \in SUBSET live
      BY <2>1, HoldersOf
    <3>2. HeldOnce(held', disk_retains', live \ {"iterator"})
      <4> HIDE DEF live
      <4> QED BY <1>0, <2>1, <3>1, ReleaseKeepsHeld DEF live
    <3>3. live \ {"iterator"} = Holders("done")
      BY <2>1, HoldersOf
    <3> QED BY <2>1, <3>2, <3>3
  <2>3. WalkTypes' /\ InTurn' /\ Measured' /\ Sampled'
    BY <2>1 DEF WalkInv, WalkTypes, InTurn, Measured, Sampled, Turn
  <2>4. ~disk_sample.failed
    BY <2>1 DEF WalkInv, Sampled, Disk!NoSample
  <2>5. Complete'
    BY <2>1, <2>4 DEF WalkInv, Complete, Turn
  <2> QED BY <2>2, <2>3, <2>5 DEF WalkInv
<1> QED BY <1>1, <1>2, <1>3, <1>4, <1>5, <1>6, <1>7, <1>8, <1>9 DEF Disk!Walk

\* What the world does meanwhile.
LEMMA WorldKeepsWalkInv ==
    WalkInv /\ (Disk!Transfer \/ Disk!Unplug \/ Disk!Done \/ UNCHANGED disk_vars) => WalkInv'
<1> SUFFICES ASSUME WalkInv, Disk!Transfer \/ Disk!Unplug \/ Disk!Done \/ UNCHANGED disk_vars
             PROVE  WalkInv'
  OBVIOUS
<1> USE DEF WalkInv
<1>1. CASE Disk!Transfer
  <2>1. UNCHANGED <<plugged, disk_pc, left, disk, held, disk_retains, props, disk_counters,
                    disk_sample, skipped>>
    BY <1>1 DEF Disk!Transfer
  <2>2. /\ count' \in [Media -> Int]
        /\ \A m \in Media : count[m] <= count'[m]
    BY <1>1 DEF Disk!Transfer, WalkTypes
  <2>3. /\ WalkTypes'
    <3>1. \A m \in Media : m.count \in Int /\ m.count <= count'[m]
      <4> TAKE m \in Media
      <4>1. m.count \in Int /\ m.count <= count[m] /\ count[m] <= count'[m] /\ count[m] \in Int /\ count'[m] \in Int
        BY <2>2 DEF WalkTypes
      <4> QED BY <4>1
    <3> QED BY <2>1, <2>2, <3>1 DEF WalkTypes
  <2>4. InTurn' /\ Measured'
    BY <2>1, <2>2 DEF InTurn, Measured, WalkTypes
  <2>5. Complete' /\ Sampled' /\ HeldOnce(held', disk_retains', Holders(disk_pc'))
    BY <2>1 DEF Complete, Sampled
  <2> QED BY <2>3, <2>4, <2>5
<1>2. CASE Disk!Unplug
  <2>1. /\ plugged' \subseteq plugged
        /\ UNCHANGED <<count, disk_pc, left, disk, held, disk_retains, props, disk_counters,
                       disk_sample, skipped>>
    BY <1>2 DEF Disk!Unplug
  <2> QED BY <2>1 DEF WalkTypes, InTurn, Complete, Measured, Sampled
<1>3. CASE Disk!Done \/ UNCHANGED disk_vars
  <2>1. UNCHANGED disk_vars
    BY <1>3 DEF Disk!Done, Disk!vars, Disk!world, disk_vars
  <2> QED BY <2>1 DEF disk_vars, WalkTypes, InTurn, Complete, Measured, Sampled
<1> QED BY <1>1, <1>2, <1>3

LEMMA WalkInvariance == MCSpec => []WalkInv
<1>1. MCInit => WalkInv
  BY InitWalkInv, ReadersAssumption DEF MCInit, DiskRests
<1>2. WalkInv /\ [MCNext]_<<at_work, vars, disk_vars, net_vars>> => WalkInv'
  BY WalkKeepsInv, WorldKeepsWalkInv, ReadersAssumption DEF MCNext, Disk!Next
<1> QED BY <1>1, <1>2, PTL DEF MCSpec

\* At the end of the walk over the disks nothing is held and nothing was
\* released twice, whichever calls fail and whatever is unplugged meanwhile.
THEOREM WalkHoldsNothing == MCSpec => []NothingHeld
<1>1. WalkInv => NothingHeld
  <2> SUFFICES ASSUME WalkInv, disk_pc = "done", NEW r \in DOMAIN disk_retains
               PROVE  disk_retains[r] = 0
    BY DEF NothingHeld, Disk!NothingHeld
  <2>1. HeldOnce(held, disk_retains, {})
    BY HoldersOf DEF WalkInv
  <2>2. r \in 1..Len(disk_retains)
    BY <2>1 DEF HeldOnce
  <2> QED BY <2>1, <2>2 DEF HeldOnce
<1> QED BY <1>1, WalkInvariance, PTL

\* A walk lists every medium of the registry but for those one of whose calls
\* failed, with what its driver counted at some moment of the walk, for any
\* number of media that come in any order.
THEOREM WalkListsTheRegistry == MCSpec => []SampleIsOfTheRegistry
<1>1. WalkInv => SampleIsOfTheRegistry
  <2> SUFFICES ASSUME WalkInv PROVE Disk!FailureIsLocal /\ Disk!ReadDuringWalk
    BY DEF SampleIsOfTheRegistry, Disk!SampleIsOfTheRegistry
  <2>1. DOMAIN Disk!NoCounters = {}
    BY DEF Disk!NoCounters
  <2>2. Disk!FailureIsLocal
    <3> SUFFICES ASSUME disk_pc = "done", ~disk_sample.failed PROVE Disk!FailureIsLocal
      BY DEF Disk!FailureIsLocal
    <3>1. disk_sample.counters = disk_counters /\ left = {} /\ disk_pc \notin Turn
      BY DEF WalkInv, Sampled, Turn
    <3> QED BY <3>1 DEF WalkInv, Complete, Wanted, Disk!FailureIsLocal
  <2>3. Disk!ReadDuringWalk
    <3>1. disk_sample.counters = disk_counters \/ disk_sample.counters = Disk!NoCounters
      BY DEF WalkInv, Sampled, Disk!NoSample
    <3> QED BY <2>1, <3>1 DEF WalkInv, Measured, Disk!ReadDuringWalk
  <2> QED BY <2>2, <2>3
<1> QED BY <1>1, WalkInvariance, PTL

-----------------------------------------------------------------------------
(***************************************************************************)
(* The interfaces.  Size and Counters fold the messages of a list: both go *)
(* from a prefix to the next by one message.                               *)
(***************************************************************************)
Headers == Messages \cup Garbage

\* What the callback may have put together.
Tables == UNION {[d -> {msg.bytes : msg \in Headers}] : d \in SUBSET {msg.name : msg \in Headers}}

\* d is in c, as it was.
Extends(c, d) == DOMAIN d \subseteq DOMAIN c /\ \A n \in DOMAIN d : c[n] = d[n]

Prefix(s, i) == SubSeq(s, 1, i)

LEMMA PrefixOf ==
    ASSUME NEW S, NEW s \in Seq(S), NEW i \in 0..Len(s)
    PROVE  /\ Prefix(s, i) \in Seq(S) /\ Len(Prefix(s, i)) = i
           /\ \A j \in 1..i : Prefix(s, i)[j] = s[j]
           /\ Prefix(s, Len(s)) = s
<1> DEFINE n == Len(s)
<1>1. n \in Nat
  OBVIOUS
<1>2. \A k \in 0..n : Prefix(s, k) = [j \in 1..k |-> s[j]]
  BY DEF Prefix
<1>3. s = [j \in 1..n |-> s[j]]
  OBVIOUS
<1>4. \A j \in 1..n : s[j] \in S
  OBVIOUS
<1>5. Prefix(s, i) \in Seq(S) /\ Len(Prefix(s, i)) = i /\ \A j \in 1..i : Prefix(s, i)[j] = s[j]
  BY <1>1, <1>2, <1>4
<1>6. Prefix(s, n) = s
  BY <1>1, <1>2, <1>3
<1> QED BY <1>5, <1>6

\* What the size of a list is, given what each prefix comes to.
LEMMA SizeIs ==
    ASSUME Net!Assumption, NEW s \in Seq(Messages), NEW acc,
           acc[0] = 0, \A i \in 1..Len(s) : acc[i] = acc[i - 1] + s[i].len
    PROVE  Net!Size(s) = acc[Len(s)]
<1> DEFINE n == Len(s)
           step == [i \in 1..n |-> [v \in Nat |-> v + s[i].len]]
           Body(f) == [t \in SUBSET DOMAIN s |->
                          IF t = {} THEN 0 ELSE f[t \ {Max(t)}] + s[Max(t)].len]
           fold == CHOOSE f : f = Body(f)
<1>1. n \in Nat /\ DOMAIN s = 1..n
  OBVIOUS
<1>2. \A i \in 1..n : s[i].len \in Nat
  BY DEF Net!Assumption
<1>3. step \in [1..n -> [Nat -> Nat]]
  BY <1>2
<1>4. PICK it \in [SUBSET (1..n) -> Nat] : Iterates(it, n, 0, step)
  <2> HIDE DEF step
  <2> QED BY <1>1, <1>3, IterationExists
<1>5. it = Body(it)
  <2>1. ASSUME NEW t \in SUBSET (1..n) PROVE it[t] = IF t = {} THEN 0 ELSE it[t \ {Max(t)}] + s[Max(t)].len
    <3>1. CASE t = {}
      BY <1>4, <3>1 DEF Iterates
    <3>2. CASE t # {}
      <4>1. Max(t) \in 1..n
        BY <1>1, <3>2, MaxOfIndices
      <4>2. it[t \ {Max(t)}] \in Nat
        OBVIOUS
      <4>3. it[t] = step[Max(t)][it[t \ {Max(t)}]]
        BY <1>4, <3>2 DEF Iterates
      <4> QED BY <3>2, <4>1, <4>2, <4>3
    <3> QED BY <3>1, <3>2
  <2> QED BY <1>1, <2>1
<1>6. fold = Body(fold)
  <2> HIDE DEF Body
  <2> QED BY <1>5
<1>7. fold[{}] = 0
  BY <1>6
<1>8. \A i \in 1..n : fold[1..i] = fold[1..(i - 1)] + s[i].len
  <2> SUFFICES ASSUME NEW i \in 1..n PROVE fold[1..i] = fold[1..(i - 1)] + s[i].len
    OBVIOUS
  <2>1. 1..i # {} /\ 1..i \in SUBSET (1..n) /\ Max(1..i) = i /\ (1..i) \ {i} = 1..(i - 1)
    BY <1>1, MaxOfPrefix
  <2>2. fold[1..i] = Body(fold)[1..i]
    BY <1>6
  <2> HIDE DEF fold
  <2> QED BY <1>1, <2>1, <2>2
<1>9. Net!Size(s) = fold[DOMAIN s]
  BY DEF Net!Size, Net!FoldLeft, Net!MapThenFoldSet, Net!Max, Max
<1>10. fold[1..n] = acc[n]
  <2>1. fold[{}] = acc[0]
    BY <1>7
  <2>2. \A i \in 1..n : fold[1..(i - 1)] = acc[i - 1] => fold[1..i] = acc[i]
    BY <1>8
  <2>3. Follows(fold, acc, n)
    <3> HIDE DEF fold
    <3> QED BY <2>1, <2>2 DEF Follows
  <2> HIDE DEF fold, n, step, Body
  <2> QED BY <1>1, <2>3, PrefixInduction
<1> QED BY <1>1, <1>9, <1>10

\* The size of a prefix is that of the one before and its last message.
LEMMA SizeOfPrefix ==
    ASSUME Net!Assumption, NEW s \in Seq(Messages)
    PROVE  /\ Net!Size(Prefix(s, 0)) = 0
           /\ \A i \in 0..Len(s) : Net!Size(Prefix(s, i)) \in Nat
           /\ \A i \in 1..Len(s) : Net!Size(Prefix(s, i)) = Net!Size(Prefix(s, i - 1)) + s[i].len
<1> DEFINE n == Len(s)
           step == [i \in 1..n |-> [v \in Nat |-> v + s[i].len]]
<1>1. n \in Nat /\ \A i \in 1..n : s[i].len \in Nat
  BY DEF Net!Assumption
<1>2. step \in [1..n -> [Nat -> Nat]]
  BY <1>1
<1>3. PICK acc \in [0..n -> Nat] : Accumulates(acc, n, 0, step)
  <2> HIDE DEF step
  <2> QED BY <1>1, <1>2, AccumulationExists
<1>4. acc[0] = 0 /\ \A i \in 1..n : acc[i] = acc[i - 1] + s[i].len
  <2>1. \A i \in 1..n : i - 1 \in 0..n
    BY <1>1
  <2>2. \A i \in 1..n : acc[i - 1] \in Nat
    BY <2>1
  <2> QED BY <1>3, <2>1, <2>2 DEF Accumulates
<1>5. ASSUME NEW i \in 0..n PROVE Net!Size(Prefix(s, i)) = acc[i]
  <2> DEFINE p == Prefix(s, i)
  <2>1. p \in Seq(Messages) /\ Len(p) = i /\ \A j \in 1..i : p[j] = s[j]
    BY PrefixOf
  <2> HIDE DEF p
  <2>2. \A j \in 1..Len(p) : acc[j] = acc[j - 1] + p[j].len
    BY <1>1, <1>4, <2>1
  <2>3. Net!Size(p) = acc[Len(p)]
    BY <1>4, <2>1, <2>2, SizeIs
  <2>4. Net!Size(p) = acc[i]
    BY <2>1, <2>3
  <2> QED BY <2>4 DEF p
<1>6. \A i \in 1..n : i \in 0..n /\ i - 1 \in 0..n
  BY <1>1
<1>7. 0 \in 0..n /\ \A i \in 0..n : acc[i] \in Nat
  BY <1>1
<1> HIDE DEF step, n
<1>8. /\ Net!Size(Prefix(s, 0)) = 0
      /\ \A i \in 0..n : Net!Size(Prefix(s, i)) \in Nat
      /\ \A i \in 1..n : Net!Size(Prefix(s, i)) = Net!Size(Prefix(s, i - 1)) + s[i].len
  BY <1>4, <1>5, <1>6, <1>7
<1> QED BY <1>8 DEF n

LEMMA NoCountersIsTable == Net!NoCounters \in Tables
  BY DEF Net!NoCounters, Tables

\* A message adds its interface at most.
LEMMA CountedExtends ==
    ASSUME NEW c \in Tables, NEW msg \in Headers
    PROVE  Net!Counted(c, msg) \in Tables /\ Extends(Net!Counted(c, msg), c)
<1> DEFINE Names == {m.name : m \in Headers}
           Bytes == {m.bytes : m \in Headers}
           d == DOMAIN c \cup {msg.name}
           added == [n \in d |-> IF n \in DOMAIN c THEN c[n] ELSE msg.bytes]
<1>1. DOMAIN c \in SUBSET Names /\ c \in [DOMAIN c -> Bytes]
  BY DEF Tables
<1>2. msg.name \in Names /\ msg.bytes \in Bytes
  OBVIOUS
<1>3. d \in SUBSET Names /\ added \in [d -> Bytes]
  <2> HIDE DEF Names, Bytes
  <2> QED BY <1>1, <1>2
<1>4. added \in Tables
  <2>1. \A e \in SUBSET Names : \A f \in [e -> Bytes] : f \in Tables
    BY DEF Tables
  <2> HIDE DEF d, added, Names, Bytes
  <2> QED BY <1>3, <2>1
<1>5. Extends(added, c) /\ Extends(c, c)
  BY DEF Extends
<1>6. Net!Counted(c, msg) = added \/ Net!Counted(c, msg) = c
  BY DEF Net!Counted
<1> HIDE DEF added
<1> QED BY <1>4, <1>5, <1>6

\* What the counters of a list are, given what each prefix comes to.
LEMMA CountersAre ==
    ASSUME NEW s \in Seq(Headers), NEW acc,
           acc[0] = Net!NoCounters,
           \A i \in 1..Len(s) : acc[i] = Net!Counted(acc[i - 1], s[i])
    PROVE  Net!Counters(s) = acc[Len(s)]
<1> DEFINE n == Len(s)
           none == Net!NoCounters
           step == [i \in 1..n |-> [c \in Tables |-> Net!Counted(c, s[i])]]
           Body(f) == [t \in SUBSET DOMAIN s |->
                          IF t = {} THEN none ELSE Net!Counted(f[t \ {Max(t)}], s[Max(t)])]
           fold == CHOOSE f : f = Body(f)
<1>1. n \in Nat /\ DOMAIN s = 1..n
  OBVIOUS
<1>2. none \in Tables
  BY NoCountersIsTable
<1>3. step \in [1..n -> [Tables -> Tables]]
  BY CountedExtends
<1>4. PICK it \in [SUBSET (1..n) -> Tables] : Iterates(it, n, none, step)
  <2> HIDE DEF step, none
  <2> QED BY <1>1, <1>2, <1>3, IterationExists
<1> HIDE DEF none
<1>5. it = Body(it)
  <2>1. ASSUME NEW t \in SUBSET (1..n)
        PROVE  it[t] = IF t = {} THEN none ELSE Net!Counted(it[t \ {Max(t)}], s[Max(t)])
    <3>1. CASE t = {}
      BY <1>4, <3>1 DEF Iterates
    <3>2. CASE t # {}
      <4>1. Max(t) \in 1..n
        BY <1>1, <3>2, MaxOfIndices
      <4>2. it[t \ {Max(t)}] \in Tables
        OBVIOUS
      <4>3. it[t] = step[Max(t)][it[t \ {Max(t)}]]
        BY <1>4, <3>2 DEF Iterates
      <4> QED BY <3>2, <4>1, <4>2, <4>3
    <3> QED BY <3>1, <3>2
  <2> QED BY <1>1, <2>1
<1>6. fold = Body(fold)
  <2> HIDE DEF Body
  <2> QED BY <1>5
<1>7. fold[{}] = none
  BY <1>6
<1>8. \A i \in 1..n : fold[1..i] = Net!Counted(fold[1..(i - 1)], s[i])
  <2> SUFFICES ASSUME NEW i \in 1..n PROVE fold[1..i] = Net!Counted(fold[1..(i - 1)], s[i])
    OBVIOUS
  <2>1. 1..i # {} /\ 1..i \in SUBSET (1..n) /\ Max(1..i) = i /\ (1..i) \ {i} = 1..(i - 1)
    BY <1>1, MaxOfPrefix
  <2>2. fold[1..i] = Body(fold)[1..i]
    BY <1>6
  <2> HIDE DEF fold
  <2> QED BY <1>1, <2>1, <2>2
<1>9. Net!Counters(s) = fold[DOMAIN s]
  BY DEF Net!Counters, Net!FoldLeft, Net!MapThenFoldSet, Net!Max, Max, none
<1>10. fold[1..n] = acc[n]
  <2>1. fold[{}] = acc[0]
    BY <1>7 DEF none
  <2>2. \A i \in 1..n : fold[1..(i - 1)] = acc[i - 1] => fold[1..i] = acc[i]
    BY <1>8
  <2>3. Follows(fold, acc, n)
    <3> HIDE DEF fold
    <3> QED BY <2>1, <2>2 DEF Follows
  <2> HIDE DEF fold, n, step, Body
  <2> QED BY <1>1, <2>3, PrefixInduction
<1> QED BY <1>1, <1>9, <1>10

\* The counters of a prefix are those of the one before with its last message.
LEMMA CountersOfPrefix ==
    ASSUME NEW s \in Seq(Headers)
    PROVE  /\ Net!Counters(Prefix(s, 0)) = Net!NoCounters
           /\ \A i \in 0..Len(s) : Net!Counters(Prefix(s, i)) \in Tables
           /\ \A i \in 1..Len(s) :
                 Net!Counters(Prefix(s, i)) = Net!Counted(Net!Counters(Prefix(s, i - 1)), s[i])
<1> DEFINE n == Len(s)
           none == Net!NoCounters
           step == [i \in 1..n |-> [c \in Tables |-> Net!Counted(c, s[i])]]
<1>1. n \in Nat /\ none \in Tables
  BY NoCountersIsTable
<1>2. step \in [1..n -> [Tables -> Tables]]
  BY CountedExtends
<1>3. PICK acc \in [0..n -> Tables] : Accumulates(acc, n, none, step)
  <2> HIDE DEF step, none
  <2> QED BY <1>1, <1>2, AccumulationExists
<1>4. acc[0] = none /\ \A i \in 1..n : acc[i] = Net!Counted(acc[i - 1], s[i])
  <2>1. \A i \in 1..n : i - 1 \in 0..n
    BY <1>1
  <2>2. \A i \in 1..n : acc[i - 1] \in Tables
    BY <2>1
  <2> QED BY <1>3, <2>1, <2>2 DEF Accumulates
<1>5. ASSUME NEW i \in 0..n PROVE Net!Counters(Prefix(s, i)) = acc[i]
  <2> DEFINE p == Prefix(s, i)
  <2>1. p \in Seq(Headers) /\ Len(p) = i /\ \A j \in 1..i : p[j] = s[j]
    BY PrefixOf
  <2> HIDE DEF p
  <2>2. \A j \in 1..Len(p) : acc[j] = Net!Counted(acc[j - 1], p[j])
    BY <1>1, <1>4, <2>1
  <2>3. Net!Counters(p) = acc[Len(p)]
    BY <1>4, <2>1, <2>2, CountersAre
  <2>4. Net!Counters(p) = acc[i]
    BY <2>1, <2>3
  <2> QED BY <2>4 DEF p
<1>6. \A i \in 1..n : i \in 0..n /\ i - 1 \in 0..n
  BY <1>1
<1>7. 0 \in 0..n /\ \A i \in 0..n : acc[i] \in Tables
  BY <1>1
<1> HIDE DEF step, n
<1>8. /\ Net!Counters(Prefix(s, 0)) = none
      /\ \A i \in 0..n : Net!Counters(Prefix(s, i)) \in Tables
      /\ \A i \in 1..n : Net!Counters(Prefix(s, i)) = Net!Counted(Net!Counters(Prefix(s, i - 1)), s[i])
  BY <1>4, <1>5, <1>6, <1>7
<1> QED BY <1>8 DEF n

\* A longer prefix is longer by a header at least, and has all that a shorter one has.
LEMMA PrefixesGrow ==
    ASSUME Net!Assumption, NEW s \in Seq(Messages), NEW i \in 0..Len(s)
    PROVE  \A j \in 0..Len(s) :
              i <= j => /\ Extends(Net!Counters(Prefix(s, j)), Net!Counters(Prefix(s, i)))
                        /\ i < j => Net!Size(Prefix(s, i)) + Header <= Net!Size(Prefix(s, j))
<1> DEFINE n == Len(s)
           Sz(j) == Net!Size(Prefix(s, j))
           Cs(j) == Net!Counters(Prefix(s, j))
           Grown(j) == Extends(Cs(j), Cs(i)) /\ (i < j => Sz(i) + Header <= Sz(j))
           S == {j \in Nat : i <= j /\ j <= n => Grown(j)}
<1>1. n \in Nat /\ i \in Nat /\ Header \in Nat /\ \A j \in 1..n : s[j].len \in Nat /\ s[j].len >= Header
  BY DEF Net!Assumption
<1>2. s \in Seq(Headers)
  BY DEF Headers
<1>3. /\ \A j \in 0..n : Sz(j) \in Nat
      /\ \A j \in 1..n : Sz(j) = Sz(j - 1) + s[j].len
  BY SizeOfPrefix
<1>4. /\ \A j \in 0..n : Cs(j) \in Tables
      /\ \A j \in 1..n : Cs(j) = Net!Counted(Cs(j - 1), s[j])
  BY <1>2, CountersOfPrefix
<1>5. Grown(i)
  BY <1>1 DEF Extends
<1>6. ASSUME NEW j \in Nat, i <= j, j + 1 <= n, Grown(j) PROVE Grown(j + 1)
  <2>1. j + 1 \in 1..n /\ j \in 0..n /\ (j + 1) - 1 = j
    BY <1>1, <1>6
  <2>2. s[j + 1] \in Headers
    BY <1>2, <2>1
  <2>3. Cs(j + 1) = Net!Counted(Cs(j), s[j + 1])
    <3> HIDE DEF Cs
    <3> QED BY <1>4, <2>1
  <2>4. Cs(j) \in Tables
    BY <1>4, <2>1
  <2>5. Extends(Cs(j + 1), Cs(j))
    <3> HIDE DEF Cs
    <3> QED BY <2>2, <2>3, <2>4, CountedExtends
  <2>6. Extends(Cs(j + 1), Cs(i))
    <3> HIDE DEF Cs
    <3> QED BY <1>6, <2>5 DEF Extends
  <2>7. Sz(i) + Header <= Sz(j + 1)
    <3> HIDE DEF Sz
    <3>1. Sz(j + 1) = Sz(j) + s[j + 1].len /\ Sz(j) \in Nat /\ Sz(i) \in Nat
      BY <1>1, <1>3, <2>1
    <3>2. s[j + 1].len \in Nat /\ s[j + 1].len >= Header
      BY <1>1, <2>1
    <3>3. i = j \/ Sz(i) + Header <= Sz(j)
      BY <1>1, <1>6
    <3> QED BY <1>1, <3>1, <3>2, <3>3
  <2> HIDE DEF Cs, Sz
  <2> QED BY <2>6, <2>7
<1>7. 0 \in S
  <2>1. i <= 0 => i = 0
    BY <1>1
  <2> HIDE DEF Grown
  <2> QED BY <1>5, <2>1
<1>8. ASSUME NEW j \in Nat, j \in S PROVE j + 1 \in S
  <2> HIDE DEF Grown
  <2> SUFFICES ASSUME i <= j + 1, j + 1 <= n PROVE Grown(j + 1)
    OBVIOUS
  <2>1. CASE i = j + 1
    BY <1>5, <2>1
  <2>2. CASE i # j + 1
    <3>1. i <= j /\ j <= n
      BY <1>1, <2>2
    <3> QED BY <1>6, <1>8, <3>1
  <2> QED BY <2>1, <2>2
<1>9. \A j \in Nat : j \in S
  <2> HIDE DEF S
  <2> QED BY <1>7, <1>8, SetInduction
<1>10. \A j \in 0..n : i <= j => Grown(j)
  <2> HIDE DEF Grown
  <2> QED BY <1>1, <1>9
<1> QED BY <1>10

-----------------------------------------------------------------------------
NetTypes ==
    /\ list \in Seq(Messages) /\ data \in Seq(Messages)
    /\ needed_size \in Nat /\ p_read \in Nat /\ touched \in Nat /\ found.at \in Int
    /\ buffer \in {"none", "static", "dynamic"}
    /\ net_counters \in Tables
    /\ net_pc \in {"size", "read", "parse", "done"}

\* Nothing is read before the second call, and then up to the told size, which
\* the buffer has room for; no header is looked at twice.
Bounds ==
    /\ net_pc \in {"size", "read"} => p_read = 0 /\ touched = 0 /\ net_counters = Net!NoCounters
    /\ net_pc # "done" => found.at < p_read
    /\ touched <= needed_size /\ p_read <= needed_size
    /\ buffer = "static" => needed_size <= StaticSize

\* The loop is between two messages of the list and has their counters, or
\* behind the list with what it had and maybe more.
Position ==
    \/ \E i \in 0..Len(data) :
          /\ p_read = Net!Size(Prefix(data, i))
          /\ net_counters = Net!Counters(Prefix(data, i))
    \/ p_read > Net!Size(data) /\ Extends(net_counters, Net!Counters(data))

Outcome ==
    IF net_pc = "done"
    THEN \/ net_sample.failed = TRUE /\ net_sample.counters = Net!NoCounters
         \/ /\ net_sample.failed = FALSE /\ net_sample.counters = net_counters
            /\ p_read + Header > needed_size
    ELSE TRUE

NetInv == NetTypes /\ Bounds /\ Position /\ Outcome

\* The lists of the kernel are sequences of messages.
LEMMA ListsAreSequences == \A msgs \in Net!Lists : msgs \in Seq(Messages)
<1>1. ASSUME NEW n \in 0..MaxMessages, NEW msgs \in [1..n -> Messages] PROVE msgs \in Seq(Messages)
  OBVIOUS
<1> QED BY <1>1 DEF Net!Lists

\* Every list begins with the prefix of no message.
LEMMA EmptyPrefix ==
    ASSUME Net!Assumption, NEW s \in Seq(Messages)
    PROVE  0 \in 0..Len(s) /\ Net!Size(Prefix(s, 0)) = 0 /\ Net!Counters(Prefix(s, 0)) = Net!NoCounters
<1>1. Net!Size(Prefix(s, 0)) = 0
  BY SizeOfPrefix
<1>2. s \in Seq(Headers)
  BY DEF Headers
<1>3. Net!Counters(Prefix(s, 0)) = Net!NoCounters
  BY <1>2, CountersOfPrefix
<1>4. 0 \in 0..Len(s)
  OBVIOUS
<1> QED BY <1>1, <1>3, <1>4

LEMMA InitNetInv == Net!Assumption /\ Net!Init => NetInv
<1> SUFFICES ASSUME Net!Assumption, Net!Init PROVE NetInv
  OBVIOUS
<1>1. list \in Seq(Messages) /\ data \in Seq(Messages)
  BY ListsAreSequences DEF Net!Init
<1>2. NetTypes
  BY <1>1, NoCountersIsTable DEF Net!Init, NetTypes
<1>3. Bounds /\ Outcome
  BY DEF Net!Init, Bounds, Outcome
<1>4. Position
  BY <1>1, EmptyPrefix DEF Net!Init, Position
<1> QED BY <1>2, <1>3, <1>4 DEF NetInv

\* A message read: the loop goes on to the next one, or behind the list.
LEMMA ReadKeepsPosition ==
    ASSUME Net!Assumption, NetInv, net_pc = "parse",
           NEW msg \in Net!Headers, Net!Fits(msg),
           p_read' = p_read + msg.len, net_counters' = Net!Counted(net_counters, msg), data' = data
    PROVE  msg \in Headers /\ msg.len \in Nat /\ Position'
<1> DEFINE n == Len(data)
           Sz(i) == Net!Size(Prefix(data, i))
           Cs(i) == Net!Counters(Prefix(data, i))
<1>1. data \in Seq(Messages) /\ data \in Seq(Headers) /\ n \in Nat /\ net_counters \in Tables /\ p_read \in Nat
  BY DEF NetInv, NetTypes, Headers
<1>2. /\ \A i \in 0..n : Sz(i) \in Nat
      /\ \A i \in 1..n : Sz(i) = Sz(i - 1) + data[i].len
  BY <1>1, SizeOfPrefix
<1>3. \A i \in 1..n : Cs(i) = Net!Counted(Cs(i - 1), data[i])
  BY <1>1, CountersOfPrefix
<1>4. Prefix(data, n) = data /\ n \in 0..n
  BY <1>1, PrefixOf
<1>5. \A i, j \in 0..n : i < j => Sz(i) + Header <= Sz(j)
  BY <1>1, PrefixesGrow
<1>6. Header \in Nat \ {0} /\ \A m \in Headers : m.len \in Nat
  BY DEF Net!Assumption, Headers
<1> HIDE DEF Sz, Cs
<1>7. \A i, j \in 0..n : i < j => Sz(i) < Sz(j)
  BY <1>2, <1>5, <1>6
<1>8. Sz(n) = Net!Size(data) /\ Cs(n) = Net!Counters(data)
  BY <1>4 DEF Sz, Cs
<1>9. CASE p_read < Sz(n)
  <2>1. PICK i \in 0..n : p_read = Sz(i) /\ net_counters = Cs(i)
    <3>1. ~ (p_read > Net!Size(data))
      BY <1>1, <1>2, <1>4, <1>8, <1>9
    <3> QED BY <3>1 DEF NetInv, Position, Sz, Cs
  <2>2. PICK j \in 0..(n - 1) : Sz(j) = p_read /\ msg = data[j + 1]
    BY <1>8, <1>9 DEF Net!Headers, Sz, Prefix
  <2>3. i = j /\ i + 1 \in 1..n /\ (i + 1) - 1 = i
    <3>1. i \in Int /\ j \in Int /\ j \in 0..n
      BY <1>1
    <3>2. ~ (i < j) /\ ~ (j < i)
      BY <1>2, <1>7, <2>1, <2>2, <3>1
    <3> QED BY <3>1, <3>2
  <2>4. msg = data[i + 1] /\ msg \in Headers
    BY <1>1, <2>2, <2>3
  <2>5. p_read' = Sz(i + 1) /\ net_counters' = Cs(i + 1)
    BY <1>2, <1>3, <2>1, <2>3, <2>4
  <2>6. i + 1 \in 0..Len(data')
    BY <1>1, <2>3
  <2> QED BY <1>6, <2>4, <2>5, <2>6 DEF Position, Sz, Cs
<1>10. CASE ~ (p_read < Sz(n))
  <2>1. msg \in Garbage
    <3>1. ~ (found.at = p_read)
      BY <1>1 DEF NetInv, NetTypes, Bounds
    <3> QED BY <1>8, <1>10, <3>1 DEF Net!Headers
  <2>2. msg \in Headers /\ msg.len \in Nat \ {0}
    BY <1>6, <2>1 DEF Net!Fits, Headers
  <2>3. Extends(net_counters', net_counters)
    BY <1>1, <2>2, CountedExtends
  <2>4. Extends(net_counters, Cs(n))
    <3>1. ASSUME NEW i \in 0..n, p_read = Sz(i), net_counters = Cs(i) PROVE i = n
      <4>1. ~ (i < n)
        BY <1>2, <1>4, <1>7, <1>10, <3>1
      <4> QED BY <1>1, <4>1
    <3>2. CASE \E i \in 0..n : p_read = Sz(i) /\ net_counters = Cs(i)
      BY <3>1, <3>2 DEF Extends
    <3>3. CASE Extends(net_counters, Net!Counters(data))
      BY <1>8, <3>3
    <3> QED BY <3>2, <3>3 DEF NetInv, Position, Sz, Cs
  <2>5. Extends(net_counters', Net!Counters(data))
    BY <1>8, <2>3, <2>4 DEF Extends
  <2>6. p_read' > Net!Size(data)
    <3>1. Sz(n) \in Nat
      BY <1>2, <1>4
    <3>2. p_read' > Sz(n)
      BY <1>1, <1>10, <2>2, <3>1
    <3> QED BY <1>8, <3>2
  <2> QED BY <2>2, <2>5, <2>6 DEF Position
<1> QED BY <1>9, <1>10

LEMMA NetKeepsInv == Net!Assumption /\ NetInv /\ Net!Next => NetInv'
<1> SUFFICES ASSUME Net!Assumption, NetInv, Net!Next PROVE NetInv'
  OBVIOUS
<1>1. NetTypes /\ Bounds /\ Position /\ Outcome
  BY DEF NetInv
<1>2. Header \in Nat /\ Header2 \in Nat /\ Slack \in Nat /\ StaticSize \in Nat
  BY DEF Net!Assumption
<1>3. ASSUME Net!Fail PROVE net_pc' = "done" /\ Outcome'
  BY <1>3 DEF Net!Fail, Outcome
<1>4. ASSUME net_pc' # "done" PROVE Outcome'
  BY <1>4 DEF Outcome
<1>5. ASSUME UNCHANGED <<p_read, net_counters, data>> PROVE Position'
  BY <1>1, <1>5 DEF Position
<1>6. CASE Net!CallFails
  <2>1. Net!Fail /\ UNCHANGED <<list, needed_size, buffer, data, p_read, found, net_counters, touched>>
    BY <1>6 DEF Net!CallFails
  <2>2. net_pc' = "done"
    BY <2>1 DEF Net!Fail
  <2>3. NetTypes' /\ Bounds'
    BY <1>1, <2>1, <2>2 DEF NetTypes, Bounds
  <2> QED BY <1>3, <1>5, <2>1, <2>3 DEF NetInv
<1>7. CASE Net!AskSize
  <2>1. net_pc = "size" /\ UNCHANGED <<list, data, p_read, found, net_counters, touched>>
    BY <1>7 DEF Net!AskSize
  <2>2. needed_size' \in Nat
    <3>1. Net!Size(Prefix(list, Len(list))) \in Nat /\ Prefix(list, Len(list)) = list
      <4>1. list \in Seq(Messages) /\ Len(list) \in 0..Len(list)
        BY <1>1 DEF NetTypes
      <4> QED BY <4>1, PrefixOf, SizeOfPrefix
    <3>2. Net!Size(list) \in Nat
      BY <3>1
    <3> QED BY <1>2, <1>7, <3>2 DEF Net!AskSize
  <2>3. buffer' \in {"none", "static", "dynamic"} /\ (buffer' = "static" => needed_size' <= StaticSize)
    BY <1>1, <1>2, <1>7 DEF Net!AskSize, NetTypes, Bounds
  <2>4. net_pc' = "read" \/ Net!Fail
    BY <1>7 DEF Net!AskSize
  <2>5. net_pc' \in {"read", "done"} /\ Outcome'
    BY <1>3, <1>4, <2>4
  <2>6. NetTypes'
    BY <1>1, <2>1, <2>2, <2>3, <2>5 DEF NetTypes
  <2>7. Bounds'
    BY <1>1, <2>1, <2>2, <2>3, <2>5 DEF NetTypes, Bounds
  <2> QED BY <1>5, <2>1, <2>5, <2>6, <2>7 DEF NetInv
<1>8. CASE Net!Change
  <2>1. UNCHANGED <<needed_size, buffer, data, p_read, found, net_counters, net_sample, touched, net_pc>>
    BY <1>8 DEF Net!Change
  <2>2. list' \in Seq(Messages)
    BY <1>8, ListsAreSequences DEF Net!Change
  <2> QED BY <1>1, <2>1, <2>2 DEF NetInv, NetTypes, Bounds, Position, Outcome
<1>9. CASE Net!ReadList
  <2>1. /\ net_pc = "read" /\ net_pc' = "parse" /\ data' = list
        /\ UNCHANGED <<list, needed_size, buffer, p_read, found, net_counters, net_sample, touched>>
    BY <1>9 DEF Net!ReadList
  <2>2. NetTypes' /\ Bounds'
    BY <1>1, <2>1 DEF NetTypes, Bounds
  <2>3. Position'
    BY <1>1, <2>1, EmptyPrefix DEF NetTypes, Bounds, Position
  <2> QED BY <1>4, <2>1, <2>2, <2>3 DEF NetInv
<1>10. CASE Net!ReadMessage
  <2>1. /\ net_pc = "parse" /\ p_read + Header <= needed_size
        /\ UNCHANGED <<list, needed_size, buffer, data>>
    BY <1>10 DEF Net!ReadMessage, Net!HeaderIsLeft, Net!End
  <2>2. PICK msg \in Net!Headers :
           /\ found' = [at |-> p_read, msg |-> msg]
           /\ IF ~Net!Fits(msg) \/ (msg.type = "IFINFO2" /\ p_read + Header2 > needed_size)
              THEN /\ Net!Fail
                   /\ touched' = p_read + Header
                   /\ UNCHANGED <<p_read, net_counters>>
              ELSE /\ p_read' = p_read + msg.len
                   /\ net_counters' = Net!Counted(net_counters, msg)
                   /\ touched' = p_read + (IF msg.type = "IFINFO2" THEN Header2 ELSE Header)
                   /\ UNCHANGED <<net_sample, net_pc>>
    BY <1>10 DEF Net!ReadMessage, Net!End
  <2>3. found'.at = p_read
    BY <2>2
  <2>4. CASE ~Net!Fits(msg) \/ (msg.type = "IFINFO2" /\ p_read + Header2 > needed_size)
    <3>1. Net!Fail /\ touched' = p_read + Header /\ UNCHANGED <<p_read, net_counters>>
      BY <2>2, <2>4
    <3>2. NetTypes' /\ Bounds'
      BY <1>1, <1>2, <1>3, <2>1, <2>3, <3>1 DEF NetTypes, Bounds
    <3> QED BY <1>3, <1>5, <2>1, <3>1, <3>2 DEF NetInv
  <2>5. CASE ~ (~Net!Fits(msg) \/ (msg.type = "IFINFO2" /\ p_read + Header2 > needed_size))
    <3>1. /\ p_read' = p_read + msg.len
          /\ net_counters' = Net!Counted(net_counters, msg)
          /\ touched' \in {p_read + Header, p_read + Header2}
          /\ touched' = p_read + Header2 => p_read + Header2 <= needed_size
          /\ UNCHANGED <<net_sample, net_pc>>
      BY <1>1, <1>2, <2>1, <2>2, <2>5 DEF NetTypes
    <3>2. Net!Fits(msg)
      BY <2>5
    <3>3. msg \in Headers /\ msg.len \in Nat /\ Position'
      BY <2>1, <3>1, <3>2, ReadKeepsPosition
    <3>4. msg.len # 0 /\ p_read + msg.len <= needed_size
      BY <3>2 DEF Net!Fits, Net!End
    <3>5. net_counters' \in Tables
      BY <1>1, <3>1, <3>3, CountedExtends DEF NetTypes
    <3>6. NetTypes'
      BY <1>1, <1>2, <2>1, <2>3, <3>1, <3>3, <3>5 DEF NetTypes
    <3>7. Bounds'
      BY <1>1, <1>2, <2>1, <2>3, <3>1, <3>3, <3>4 DEF NetTypes, Bounds
    <3> QED BY <1>4, <2>1, <3>1, <3>3, <3>6, <3>7 DEF NetInv
  <2> QED BY <2>4, <2>5
<1>11. CASE Net!ReturnCounters
  <2>1. /\ net_pc = "parse" /\ ~ (p_read + Header <= needed_size)
        /\ net_sample' = [counters |-> net_counters, failed |-> FALSE] /\ net_pc' = "done"
        /\ UNCHANGED <<list, needed_size, buffer, data, p_read, found, net_counters, touched>>
    BY <1>11 DEF Net!ReturnCounters, Net!HeaderIsLeft, Net!End
  <2>2. NetTypes' /\ Bounds'
    BY <1>1, <2>1 DEF NetTypes, Bounds
  <2>3. Outcome'
    BY <1>1, <1>2, <2>1 DEF NetTypes, Outcome
  <2> QED BY <1>5, <2>1, <2>2, <2>3 DEF NetInv
<1> QED BY <1>6, <1>7, <1>8, <1>9, <1>10, <1>11 DEF Net!Next

LEMMA WorldKeepsNetInv == NetInv /\ UNCHANGED net_vars => NetInv'
  BY DEF net_vars, NetInv, NetTypes, Bounds, Position, Outcome

LEMMA NetInvariance == MCSpec => []NetInv
<1>1. MCInit => NetInv
  BY InitNetInv, ReadersAssumption DEF MCInit, NetRests
<1>2. NetInv /\ [MCNext]_<<at_work, vars, disk_vars, net_vars>> => NetInv'
  BY NetKeepsInv, WorldKeepsNetInv, ReadersAssumption DEF MCNext
<1> QED BY <1>1, <1>2, PTL DEF MCSpec

\* A sample of the interfaces agrees with what the second call wrote, lacks
\* none of its interfaces if the told size covers them, has no other if the
\* told size is covered by them, and no header was read past the buffer: for
\* lists of any length, any change of the list between the calls, any size told
\* and anything in what was never written.
THEOREM SamplesAreOfTheCall == MCSpec => []SampleIsOfTheCall
<1>1. NetInv => SampleIsOfTheCall
  <2> SUFFICES ASSUME NetInv PROVE SampleIsOfTheCall
    OBVIOUS
  <2> DEFINE n == Len(data)
             Cs(i) == Net!Counters(Prefix(data, i))
             Sz(i) == Net!Size(Prefix(data, i))
             all == Net!Counters(data)
  <2>1. data \in Seq(Messages) /\ n \in Nat /\ p_read \in Nat /\ needed_size \in Nat /\ Header \in Nat
    BY ReadersAssumption DEF NetInv, NetTypes, Net!Assumption
  <2>2. Prefix(data, n) = data /\ n \in 0..n
    BY <2>1, PrefixOf
  <2>3. \A i \in 0..n : Sz(i) \in Nat
    BY <2>1, ReadersAssumption, SizeOfPrefix
  <2>4. ASSUME NEW i \in 0..n PROVE Extends(all, Cs(i)) /\ (i < n => Sz(i) + Header <= Net!Size(data))
    <3>1. i <= n /\ Len(data) = n
      BY <2>1
    <3> QED BY <2>1, <2>2, <3>1, PrefixesGrow, ReadersAssumption
  <2>5. Net!Size(data) \in Nat
    BY <2>2, <2>3
  <2>6. DOMAIN Net!NoCounters = {}
    BY DEF Net!NoCounters
  <2> HIDE DEF all, Sz, Cs
  <2>7. \/ \E i \in 0..n : p_read = Sz(i) /\ net_counters = Cs(i)
        \/ p_read > Net!Size(data) /\ Extends(net_counters, all)
    BY DEF NetInv, Position, all, Sz, Cs
  <2>8. Sz(n) = Net!Size(data) /\ Cs(n) = all
    BY <2>2 DEF Sz, Cs, all
  <2>9. Extends(all, net_counters) \/ Extends(net_counters, all)
    BY <2>4, <2>7
  <2>10. p_read + Header > needed_size /\ needed_size >= Net!Size(data) => Extends(net_counters, all)
    <3> SUFFICES ASSUME p_read + Header > needed_size, needed_size >= Net!Size(data),
                        NEW i \in 0..n, p_read = Sz(i), net_counters = Cs(i)
                 PROVE  i = n
      BY <2>7, <2>8 DEF Extends
    <3> QED BY <2>1, <2>3, <2>4, <2>5
  <2>11. needed_size <= Net!Size(data) => Extends(all, net_counters)
    <3>1. p_read <= needed_size
      BY DEF NetInv, Bounds
    <3> QED BY <2>1, <2>4, <2>5, <2>7, <3>1
  <2>12. ASSUME net_pc = "done" PROVE Net!SampleAgreesWithCall /\ Net!NothingInvented
    <3>1. \/ net_sample.failed = TRUE /\ net_sample.counters = Net!NoCounters
          \/ net_sample.counters = net_counters /\ p_read + Header > needed_size
      BY <2>12 DEF NetInv, Outcome
    <3>2. Net!SampleAgreesWithCall
      BY <2>9, <2>10, <3>1 DEF Net!SampleAgreesWithCall, Net!Agree, Extends, all
    <3>3. Net!NothingInvented
      BY <2>6, <2>11, <3>1 DEF Net!NothingInvented, Extends, all
    <3> QED BY <3>2, <3>3
  <2>13. Net!HeadersAreInside
    BY ReadersAssumption DEF NetInv, NetTypes, Bounds, Net!HeadersAreInside, Net!BufferLen, Net!Assumption
  <2>14. net_pc # "done" => Net!SampleAgreesWithCall /\ Net!NothingInvented
    BY DEF Net!SampleAgreesWithCall, Net!NothingInvented
  <2> QED BY <2>12, <2>13, <2>14 DEF SampleIsOfTheCall, Net!SampleIsOfTheCall
<1> QED BY <1>1, NetInvariance, PTL
=============================================================================
