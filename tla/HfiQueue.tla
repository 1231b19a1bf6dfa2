------------------------------ MODULE HfiQueue ------------------------------
(***************************************************************************)
(* A circular queue between the host and the GMU: gen7_hfi_queue_write and *)
(* gen7_hfi_queue_read, whose indices are all the two sides share.  The    *)
(* context queues of adreno_gmu_context_queue_write are written the same   *)
(* way.  Each side copies one dword at a time while the other goes on; the *)
(* header of a message holds its size, and the dwords behind it may hold   *)
(* anything, a header's value included.  Model values stand for the words  *)
(* only where the size does not matter: a dword is a number or the cookie. *)
(***************************************************************************)
EXTENDS Integers, Sequences

CONSTANTS
    Size,       \* hdr->queue_size, in dwords
    Messages,   \* what may be sent: sequences of dwords, the size the first
    Cookie      \* 0xfafafafa, which fills a message up to four dwords

Dwords == Nat \cup {Cookie}

Align(n) == ((n + 3) \div 4) * 4

HfiQueueAssumption ==
    /\ Size \in Nat \ {0} /\ Size % 4 = 0
    /\ Messages \subseteq Seq(Dwords)
    /\ \A m \in Messages : Len(m) > 0 /\ m[1] = Len(m) /\ Align(Len(m)) < Size

VARIABLES
    queue,         \* the dwords of the queue
    write_index,   \* hdr->write_index
    read_index,    \* hdr->read_index
    writing,       \* the message being written, <<>> for none, and how much is
    reading,       \* the size being read, 0 for none, and what was read
    taken          \* the last message handed on

vars == <<queue, write_index, read_index, writing, reading, taken>>

Index == 0 .. Size - 1
NotWriting == [msg |-> <<>>, done |-> 0]
NotReading == [size |-> 0, output |-> <<>>]

Init ==
    /\ queue = [i \in Index |-> Cookie]
    /\ write_index = 0 /\ read_index = 0
    /\ writing = NotWriting /\ reading = NotReading
    /\ taken = <<>>

EmptySpace == IF write_index >= read_index THEN Size - (write_index - read_index)
                                           ELSE read_index - write_index

Bug_HasRoom(n) == EmptySpace >= Align(n)

\* One dword at least stays empty: a full queue would look like an empty one.
HasRoom(n) == EmptySpace > Align(n)

\* gen7_hfi_queue_write under cmdq_lock: it looks at the indices, ...
WriteStarts ==
    /\ writing = NotWriting
    /\ \E m \in Messages :
        /\ HasRoom(Len(m))
        /\ writing' = [msg |-> m, done |-> 0]
    /\ UNCHANGED <<queue, write_index, read_index, reading, taken>>

\* ... writes the message and the cookies that fill it up, ...
Written(msg) == Align(Len(msg))

WriteDword ==
    /\ writing.msg # <<>> /\ writing.done < Written(writing.msg)
    /\ queue' = [queue EXCEPT ![(write_index + writing.done) % Size] =
           IF writing.done < Len(writing.msg) THEN writing.msg[writing.done + 1]
                                              ELSE Cookie]
    /\ writing' = [writing EXCEPT !.done = @ + 1]
    /\ UNCHANGED <<write_index, read_index, reading, taken>>

\* ... and only then shows it to the other side.
WriteEnds ==
    /\ writing.msg # <<>> /\ writing.done = Written(writing.msg)
    /\ write_index' = (write_index + writing.done) % Size
    /\ writing' = NotWriting
    /\ UNCHANGED <<queue, read_index, reading, taken>>

\* gen7_hfi_queue_read: the header gives the size, ...
ReadStarts ==
    /\ reading = NotReading /\ read_index # write_index
    /\ reading' = [size |-> queue[read_index], output |-> <<>>]
    /\ UNCHANGED <<queue, write_index, read_index, writing, taken>>

ReadDword ==
    /\ Len(reading.output) < reading.size
    /\ reading' = [reading EXCEPT !.output =
           Append(@, queue[(read_index + Len(@)) % Size])]
    /\ UNCHANGED <<queue, write_index, read_index, writing, taken>>

Past(n) == Align((read_index + n) % Size) % Size

\* ... and the index moves to the next multiple of four dwords.
ReadEnds ==
    /\ reading.size > 0 /\ Len(reading.output) = reading.size
    /\ read_index' = Past(reading.size)
    /\ taken' = reading.output
    /\ reading' = NotReading
    /\ UNCHANGED <<queue, write_index, writing>>

Next == WriteStarts \/ WriteDword \/ WriteEnds \/ ReadStarts \/ ReadDword \/ ReadEnds

Spec == Init /\ [][Next]_vars

-----------------------------------------------------------------------------
(* What the queue holds, as its reader will find it.                       *)

Unread == (write_index - read_index) % Size

MessageAt(o) == LET at == (read_index + o) % Size
                IN  [i \in 1 .. queue[at] |-> queue[(at + i - 1) % Size]]

\* Where the messages begin, as distances from the read index
Start[k \in 0 .. Size] ==
    IF k = 0 THEN 0
    ELSE Start[k - 1] + Align(queue[(read_index + Start[k - 1]) % Size])

Count == CHOOSE n \in 0 .. Size : Start[n] = Unread /\ \A k \in 0 .. n - 1 : Start[k] < Unread

Contents == [k \in 1 .. Count |-> MessageAt(Start[k - 1])]

-----------------------------------------------------------------------------
(* Properties.                                                             *)

\* Both indices stay multiples of four dwords inside the queue, and a side
\* that copies is inside a message.
TypeOK ==
    /\ write_index \in Index /\ read_index \in Index
    /\ write_index % 4 = 0 /\ read_index % 4 = 0
    /\ queue \in [Index -> Dwords]
    /\ writing.done \in 0 .. Size - 1 /\ reading.size \in 0 .. Size - 1

Fifo == INSTANCE MessageQueue WITH content <- Contents

\* What is read is what was written, once, whole and in order, however the
\* two sides interleave and wherever the queue wraps: the circular queue is
\* a queue of messages.
ReadsAsWritten == Fifo!Spec
=============================================================================
