----------------------------- MODULE ByteStream -----------------------------
(***************************************************************************)
(* What a circular buffer between the host and the board promises: a       *)
(* bounded stream.  Bytes are named by their position in the stream the    *)
(* writer produced.                                                        *)
(***************************************************************************)
EXTENDS Integers, Sequences

CONSTANTS Capacity,       \* the stream never holds this many bytes
          Sizes           \* lengths of one write or one read

VARIABLES fifo,           \* the bytes written and not yet consumed
          sent,           \* how many bytes were ever written
          got             \* the bytes the last read returned

Count(from, n) == [i \in 1..n |-> from + i - 1]

Init == fifo = <<>> /\ sent = 0 /\ got = <<>>

Put(n) == /\ n < Capacity - Len(fifo)
          /\ fifo' = fifo \o Count(sent, n)
          /\ sent' = sent + n
          /\ UNCHANGED got

Get(n) == /\ n <= Len(fifo)
          /\ got' = SubSeq(fifo, 1, n)
          /\ fifo' = SubSeq(fifo, n + 1, Len(fifo))
          /\ UNCHANGED sent

Peek(n) == /\ n <= Len(fifo)
           /\ got' = SubSeq(fifo, 1, n)
           /\ UNCHANGED <<fifo, sent>>

Skip(n) == /\ n <= Len(fifo)
           /\ fifo' = SubSeq(fifo, n + 1, Len(fifo))
           /\ UNCHANGED <<sent, got>>

Next == \E n \in Sizes : Put(n) \/ Get(n) \/ Peek(n) \/ Skip(n)

Spec == Init /\ [][Next]_<<fifo, sent, got>>
=============================================================================
