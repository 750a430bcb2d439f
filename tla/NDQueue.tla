------------------------------ MODULE NDQueue ------------------------------
(***************************************************************************)
(* One circular buffer of NDMsgQueues with one writing and one reading     *)
(* processor: ToND and ReplyND from the host to the i860, FromND the other *)
(* way.  head and tail are the raw words of the structure: both run from 0 *)
(* to MSGBUF_SIZE, which they may equal without being wrapped.  bcopy      *)
(* moves one byte per step, in any interleaving with the other processor,  *)
(* and the index is stored after the copy.  A byte is represented by its   *)
(* position in the stream the writer produced.                             *)
(***************************************************************************)
EXTENDS Integers, Sequences

CONSTANTS MSGBUF_SIZE,    \* bytes in the buffer
          Sizes,          \* lengths of the messages and pieces moved
          MaxStream       \* bound: bytes ever written

ASSUME QueueAssumption == /\ MSGBUF_SIZE \in Nat \ {0}
                          /\ Sizes \subseteq Nat \ {0}
                          /\ MaxStream \in Nat

VARIABLES buf, head, tail,
          wsize,          \* length being written, 0 when the writer is outside
          wcnt,           \* bytes of it copied so far
          rsize,          \* length being read, 0 when the reader is outside
          dst,            \* bytes of it copied so far
          wr, rd,         \* history: bytes published, bytes consumed
          got             \* what the last completed read or snoop returned

writer == <<buf, head, wsize, wcnt, wr>>
reader == <<tail, rsize, dst, rd, got>>
vars == <<writer, reader>>

TypeOK == /\ buf \in [0..MSGBUF_SIZE-1 -> Nat]
          /\ head \in 0..MSGBUF_SIZE
          /\ tail \in 0..MSGBUF_SIZE
          /\ wsize \in Sizes \cup {0}
          /\ wcnt \in 0..wsize
          /\ rsize \in Sizes \cup {0}
          /\ dst \in Seq(Nat) /\ Len(dst) <= rsize
          /\ wr \in Nat
          /\ rd \in Nat
          /\ got \in Seq(Nat)

\* ND_init_message_system clears the control structures.
Init == /\ buf = [i \in 0..MSGBUF_SIZE-1 |-> 0]
        /\ head = 0 /\ tail = 0
        /\ wsize = 0 /\ wcnt = 0
        /\ rsize = 0 /\ dst = <<>>
        /\ wr = 0 /\ rd = 0 /\ got = <<>>

\* ( head - tail ) & MSGBUF_MASK
BYTES_ON_QUEUE == (head - tail) % MSGBUF_SIZE

\* The byte that is i places after index p: copies go to the end of the
\* buffer first and continue at its start.
Slot(p, i) == IF p + i < MSGBUF_SIZE THEN p + i ELSE p + i - MSGBUF_SIZE

\* Mistake: an index never wraps.
BumpUnwrapped(p, n) == p + n

\* An index after n bytes: it wraps only when the copy took two pieces.
Bump(p, n) == IF MSGBUF_SIZE - p < n THEN n - (MSGBUF_SIZE - p) ELSE p + n

----------------------------------------------------------------------------
\* Mistake: a message that would fill the buffer to the last byte is accepted.
WriteBeginFull(n) == /\ wsize = 0
                     /\ n <= MSGBUF_SIZE - BYTES_ON_QUEUE
                     /\ wr + n <= MaxStream
                     /\ wsize' = n /\ wcnt' = 0
                     /\ UNCHANGED <<buf, head, wr, reader>>

\* Mistake: what is still on the queue is not considered.
WriteBeginBlind(n) == /\ wsize = 0
                      /\ n < MSGBUF_SIZE
                      /\ wr + n <= MaxStream
                      /\ wsize' = n /\ wcnt' = 0
                      /\ UNCHANGED <<buf, head, wr, reader>>

\* A writer waits while size >= MSGBUF_SIZE - BYTES_ON_QUEUE(q).
WriteBegin(n) == /\ wsize = 0
                 /\ n < MSGBUF_SIZE - BYTES_ON_QUEUE
                 /\ wr + n <= MaxStream
                 /\ wsize' = n /\ wcnt' = 0
                 /\ UNCHANGED <<buf, head, wr, reader>>

WriteByte == /\ wcnt < wsize
             /\ buf' = [buf EXCEPT ![Slot(head, wcnt)] = wr + wcnt]
             /\ wcnt' = wcnt + 1
             /\ UNCHANGED <<head, wsize, wr, reader>>

\* Mistake: head is stored before the last byte is copied.
WriteEndEarly == /\ wsize > 0 /\ wcnt >= wsize - 1
                 /\ head' = Bump(head, wsize)
                 /\ wr' = wr + wsize
                 /\ wsize' = 0 /\ wcnt' = 0
                 /\ UNCHANGED <<buf, reader>>

WriteEnd == /\ wsize > 0 /\ wcnt = wsize
            /\ head' = Bump(head, wsize)
            /\ wr' = wr + wsize
            /\ wsize' = 0 /\ wcnt' = 0
            /\ UNCHANGED <<buf, reader>>

\* A reader takes n bytes only when at least n are on the queue.
ReadBegin(n) == /\ rsize = 0
                /\ n <= BYTES_ON_QUEUE
                /\ rsize' = n
                /\ UNCHANGED <<tail, dst, rd, got, writer>>

ReadByte == /\ Len(dst) < rsize
            /\ dst' = Append(dst, buf[Slot(tail, Len(dst))])
            /\ UNCHANGED <<tail, rsize, rd, got, writer>>

\* Mistake: the reader masks its index where the writer does not.
ReadEndMasked == /\ rsize > 0 /\ Len(dst) = rsize
                 /\ tail' = (tail + rsize) % MSGBUF_SIZE
                 /\ rd' = rd + rsize
                 /\ got' = dst
                 /\ rsize' = 0 /\ dst' = <<>>
                 /\ UNCHANGED writer

\* The end of readqueue: tail moves after the copy.
ReadEnd == /\ rsize > 0 /\ Len(dst) = rsize
           /\ tail' = Bump(tail, rsize)
           /\ rd' = rd + rsize
           /\ got' = dst
           /\ rsize' = 0 /\ dst' = <<>>
           /\ UNCHANGED writer

\* The end of snoopqueue: the caller has the bytes and tail stays.
SnoopEnd == /\ rsize > 0 /\ Len(dst) = rsize
            /\ got' = dst
            /\ rsize' = 0 /\ dst' = <<>>
            /\ UNCHANGED <<tail, rd, writer>>

\* skipqueue, for a message nobody is registered for.
SkipBytes(n) == /\ rsize = 0
                /\ n <= BYTES_ON_QUEUE
                /\ tail' = Bump(tail, n)
                /\ rd' = rd + n
                /\ UNCHANGED <<rsize, dst, got, writer>>

Next == \/ \E n \in Sizes : WriteBegin(n) \/ ReadBegin(n) \/ SkipBytes(n)
        \/ WriteByte \/ WriteEnd \/ ReadByte \/ ReadEnd \/ SnoopEnd

Spec == Init /\ [][Next]_vars

----------------------------------------------------------------------------
\* The masked difference of the raw indices is the number of bytes written
\* and not consumed: it never loses a full buffer, nor mistakes one for empty.
OccupancyExact == BYTES_ON_QUEUE = wr - rd

\* hardclock and the trap handler compare the raw indices: they are equal
\* exactly when nothing is on the queue, although an index of MSGBUF_SIZE
\* and one of 0 name the same byte.
RawEqualMeansEmpty == (head = tail) <=> (wr = rd)

\* The bytes a read has copied so far are the next bytes of the stream: the
\* writer never overruns them and never publishes what it has not stored.
CopiesInOrder == \A i \in 1..Len(dst) : dst[i] = rd + i - 1

\* The stream an observer of the buffer sees between tail and head.
Content == [i \in 1..(wr - rd) |-> buf[Slot(tail, i - 1)]]

Stream == INSTANCE ByteStream WITH
              Capacity <- MSGBUF_SIZE, fifo <- Content, sent <- wr

\* The buffer implements the stream: publishing head is the write, storing
\* tail the read, and every byte copied in between changes nothing.
ImplementsStream == Stream!Spec
=============================================================================
