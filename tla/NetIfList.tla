----------------------------- MODULE NetIfList ------------------------------
(***************************************************************************)
(* net_io_reader::sample (detail/osx_net_io_reader.cpp): two calls of      *)
(* sysctl through sysctl_dynamic_buffer (detail/osx_util.hpp), the list of *)
(* interfaces that may change between them, and the loop that reads the    *)
(* messages of the buffer.                                                 *)
(*                                                                         *)
(* The first call tells a size; the callback is given that size, not the   *)
(* one of the data that the second call writes.  The kernel tells a size   *)
(* that may exceed what it would write (sysctl(3)), and what the buffer    *)
(* has behind the data was never written: whatever is read there is any    *)
(* member of Garbage.                                                      *)
(***************************************************************************)
EXTENDS Integers, Sequences, FiniteSets, SequencesExt

CONSTANTS
    Messages,           \* messages of the kernel: [len, type, name, bytes]
    MaxMessages,        \* bound: messages in a list
    Garbage,            \* headers that unwritten memory may show
    Slack,              \* bound: how much the kernel tells too much
    StaticSize,         \* S, 32 KiB in the program
    Header, Header2     \* sizes of an if_msghdr, and of an if_msghdr2 with its sockaddr_dl

\* What the constants have to be.
Assumption ==
    /\ MaxMessages \in Nat /\ Slack \in Nat /\ StaticSize \in Nat
    /\ Header \in Nat \ {0} /\ Header2 \in Nat /\ Header < Header2
    /\ \A msg \in Messages \cup Garbage : msg.len \in Nat
    /\ \A msg \in Messages : msg.len >= Header /\ (msg.type = "IFINFO2" => msg.len = Header2)

VARIABLES
    list,           \* the kernel's messages
    needed_size,    \* the size the first call told
    buffer,         \* "none", "static" or "dynamic"
    data,           \* the messages the second call wrote
    changed,        \* history: the list is not that of the first call
    p_read,         \* offset of the loop
    found,          \* the header found at an offset, which stays what it is
    counters,       \* what the loop has put together
    sample,         \* the net_io_sample: [counters, failed]
    touched,        \* history: how far a header was read
    pc

vars == <<list, needed_size, buffer, data, changed, p_read, found, counters, sample, touched, pc>>

NoCounters == [n \in {} |-> 0]
NoSample == [counters |-> NoCounters, failed |-> FALSE]

Size(msgs) == FoldLeft(LAMBDA n, msg : n + msg.len, 0, msgs)

Lists == UNION {[1..n -> Messages] : n \in 0..MaxMessages}

\* A name is in one message of a list.
Consistent(msgs) ==
    \A i, j \in DOMAIN msgs : msgs[i].type = "IFINFO2" /\ msgs[j].type = "IFINFO2" /\ msgs[i].name = msgs[j].name
                                  => i = j

Init ==
    /\ list \in {msgs \in Lists : Consistent(msgs)}
    /\ needed_size = 0 /\ buffer = "none" /\ data = <<>> /\ changed = FALSE
    /\ p_read = 0 /\ found = [at |-> -1] /\ counters = NoCounters /\ sample = NoSample /\ touched = 0
    /\ pc = "size"

-----------------------------------------------------------------------------
(***************************************************************************)
(* sysctl_dynamic_buffer.                                                  *)
(***************************************************************************)

\* sample.errors gets the error of the call or of the loop; what the loop has
\* put together goes with it.
Fail ==
    /\ sample' = [counters |-> NoCounters, failed |-> TRUE]
    /\ pc' = "done"

\* Either call fails, or there is nothing.
CallFails ==
    /\ pc \in {"size", "read"}
    /\ Fail
    /\ UNCHANGED <<list, needed_size, buffer, data, changed, p_read, found, counters, touched>>

\* The first call.
AskSize ==
    /\ pc = "size"
    /\ \E slack \in 0..Slack : needed_size' = Size(list) + slack
    /\ IF needed_size' = 0
       THEN Fail /\ buffer' = buffer
       ELSE /\ buffer' = IF needed_size' <= StaticSize THEN "static" ELSE "dynamic"
            /\ pc' = "read"
            /\ sample' = sample
    /\ UNCHANGED <<list, data, changed, p_read, found, counters, touched>>

\* Interfaces come and go between the calls.
Change ==
    /\ pc = "read" /\ ~changed
    /\ \E msgs \in Lists : Consistent(msgs) /\ msgs # list /\ list' = msgs
    /\ changed' = TRUE
    /\ UNCHANGED <<needed_size, buffer, data, p_read, found, counters, sample, touched, pc>>

\* buffer_len of the second call.
BufferLen == IF buffer = "static" THEN StaticSize ELSE needed_size

\* The second call writes the list as it is now, if it fits in.
ReadList ==
    /\ pc = "read" /\ Size(list) <= BufferLen
    /\ data' = list
    /\ pc' = "parse"
    /\ UNCHANGED <<list, needed_size, buffer, changed, p_read, found, counters, sample, touched>>

-----------------------------------------------------------------------------
(***************************************************************************)
(* The callback of get_network_io_counters, one message a step.            *)
(***************************************************************************)

\* Mutation: the callback is given the length of the buffer.
EndOfBuffer == BufferLen

\* p_end of the callback.
End == needed_size

\* What is at p_read: a message that was written, or anything.
Headers ==
    LET before == {i \in 0..(Len(data) - 1) : Size(SubSeq(data, 1, i)) = p_read}
    IN IF p_read < Size(data) THEN {data[i + 1] : i \in before}
       ELSE IF found.at = p_read THEN {found.msg} ELSE Garbage

\* There is a header left to read.
HeaderIsLeft == p_read + Header <= End

\* Mutation: a message of no length fits.
FitsEmpty(msg) == p_read + msg.len <= End

Fits(msg) == msg.len # 0 /\ p_read + msg.len <= End

\* counters.emplace: an interface that is there stays as it is.
Counted(known, msg) ==
    IF msg.type = "IFINFO2" /\ msg.name # ""
    THEN [n \in DOMAIN known \cup {msg.name} |-> IF n \in DOMAIN known THEN known[n] ELSE msg.bytes]
    ELSE known

ReadMessage ==
    /\ pc = "parse" /\ HeaderIsLeft
    /\ \E msg \in Headers :
       /\ found' = [at |-> p_read, msg |-> msg]
       /\ IF ~Fits(msg) \/ (msg.type = "IFINFO2" /\ p_read + Header2 > End)
          THEN /\ Fail
               /\ touched' = p_read + Header
               /\ UNCHANGED <<p_read, counters>>
          ELSE /\ p_read' = p_read + msg.len
               /\ counters' = Counted(counters, msg)
               /\ touched' = p_read + (IF msg.type = "IFINFO2" THEN Header2 ELSE Header)
               /\ UNCHANGED <<sample, pc>>
    /\ UNCHANGED <<list, needed_size, buffer, data, changed>>

\* Less than a header is left.
ReturnCounters ==
    /\ pc = "parse" /\ ~HeaderIsLeft
    /\ sample' = [counters |-> counters, failed |-> FALSE]
    /\ pc' = "done"
    /\ UNCHANGED <<list, needed_size, buffer, data, changed, p_read, found, counters, touched>>

Next == CallFails \/ AskSize \/ Change \/ ReadList \/ ReadMessage \/ ReturnCounters

\* The reader is one thread that keeps running, and both calls return.
Fairness == WF_vars(AskSize) /\ WF_vars(ReadList \/ CallFails) /\ WF_vars(ReadMessage \/ ReturnCounters)

Spec == Init /\ [][Next]_vars /\ Fairness

-----------------------------------------------------------------------------
Counters(msgs) == FoldLeft(Counted, NoCounters, msgs)

Agree(c, d) == \A n \in DOMAIN c \cap DOMAIN d : c[n] = d[n]

\* What a sample says of an interface of the kernel is what the second call
\* said, whatever the buffer has behind the data; and if the size covers the
\* data, an interface is missing only from a sample that failed.
SampleAgreesWithCall ==
    pc = "done" /\ ~sample.failed =>
        /\ Agree(sample.counters, Counters(data))
        /\ needed_size >= Size(data) => DOMAIN Counters(data) \subseteq DOMAIN sample.counters

\* If all that the callback was given had been written, the sample has no
\* interface that the kernel does not have, even if the list has grown.
NothingInvented ==
    pc = "done" /\ needed_size <= Size(data) => DOMAIN sample.counters \subseteq DOMAIN Counters(data)

\* No header is read past the end of the buffer, whatever the messages say.
HeadersAreInside == touched <= BufferLen

\* A sample is what the second call told, as far as the told size allows, and
\* comes from the buffer only.
SampleIsOfTheCall == SampleAgreesWithCall /\ NothingInvented /\ HeadersAreInside

\* Every reading ends.
ReadingEnds == <>(pc = "done")

=============================================================================
