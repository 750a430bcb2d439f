------------------------- MODULE SharedMemoryProofs -------------------------
(***************************************************************************)
(* The memory that the host and a board share, part by part: the circular  *)
(* buffer of an NDQueue, the lock of its writers, and the flags and        *)
(* interrupts by which the driver's threads and the board wait for each    *)
(* other.                                                                  *)
(***************************************************************************)
EXTENDS NDQueue, HostLock, HostDriver, SequenceTheorems, TLAPS

----------------------------------------------------------------------------
(* The circular buffer is a bounded stream, whatever its size and the      *)
(* lengths of the messages, and whatever the interleaving of the copies.   *)

Used == wr - rd

\* The raw indices, the histories and the lengths in transfer agree.
Indices == /\ Used \in 0..MSGBUF_SIZE-1
           /\ Used = IF head >= tail THEN head - tail ELSE head - tail + MSGBUF_SIZE
           /\ head = 0 => tail = 0
           /\ wsize > 0 => wsize < MSGBUF_SIZE - Used
           /\ rsize <= Used

\* Between tail and head, and as far beyond head as the writer has copied,
\* the buffer holds the stream in order.
Stored == \A d \in 0..(Used + wcnt - 1) : buf[Slot(tail, d)] = rd + d

IInv == TypeOK /\ Indices /\ Stored /\ CopiesInOrder
----------------------------------------------------------------------------
LEMMA SlotRange ==
  ASSUME NEW p \in 0..MSGBUF_SIZE, NEW i \in 0..MSGBUF_SIZE-1
  PROVE  Slot(p, i) \in 0..MSGBUF_SIZE-1
BY QueueAssumption DEF Slot

\* Two places less than a buffer apart are different bytes.
LEMMA SlotInjective ==
  ASSUME NEW p \in 0..MSGBUF_SIZE, NEW i \in 0..MSGBUF_SIZE-1, NEW j \in 0..MSGBUF_SIZE-1, Slot(p, i) = Slot(p, j)
  PROVE  i = j
BY QueueAssumption DEF Slot

\* Bump is the index n places on, wrapped or not.
LEMMA SlotAfterBump ==
  ASSUME NEW p \in 0..MSGBUF_SIZE, NEW n \in Nat, NEW i \in Nat, n + i < MSGBUF_SIZE
  PROVE  Slot(Bump(p, n), i) = Slot(p, n + i)
BY QueueAssumption DEF Slot, Bump

LEMMA BumpRange ==
  ASSUME NEW p \in 0..MSGBUF_SIZE, NEW n \in 1..MSGBUF_SIZE
  PROVE  Bump(p, n) \in 0..MSGBUF_SIZE
BY QueueAssumption DEF Bump

\* The writer's place i is the reader's place Used + i.
LEMMA SlotHead ==
  ASSUME TypeOK, Indices, NEW i \in Nat, Used + i < MSGBUF_SIZE
  PROVE  Slot(head, i) = Slot(tail, Used + i)
BY QueueAssumption DEF TypeOK, Indices, Slot, Used

LEMMA OccupancyLemma == TypeOK /\ Indices => BYTES_ON_QUEUE = Used
<1> SUFFICES ASSUME TypeOK, Indices PROVE BYTES_ON_QUEUE = Used
  OBVIOUS
<1>1. ASSUME NEW a \in 0..MSGBUF_SIZE-1 PROVE a % MSGBUF_SIZE = a
  BY QueueAssumption
<1>2. ASSUME NEW a \in (-MSGBUF_SIZE)..(-1) PROVE a % MSGBUF_SIZE = a + MSGBUF_SIZE
  BY QueueAssumption
<1>3. CASE head >= tail
  BY <1>1, <1>3, QueueAssumption DEF TypeOK, Indices, BYTES_ON_QUEUE, Used
<1>4. CASE head < tail
  <2>1. head - tail \in (-MSGBUF_SIZE)..(-1)
    BY <1>4, QueueAssumption DEF TypeOK
  <2>2. (head - tail) % MSGBUF_SIZE = head - tail + MSGBUF_SIZE
    BY <1>2, <2>1
  <2> QED
    BY <1>4, <2>2, QueueAssumption DEF TypeOK, Indices, BYTES_ON_QUEUE
<1> QED
  BY <1>3, <1>4 DEF TypeOK

----------------------------------------------------------------------------
LEMMA IInvInit == Init => IInv
<1> SUFFICES ASSUME Init PROVE IInv
  OBVIOUS
<1>1. TypeOK
  BY QueueAssumption DEF Init, TypeOK
<1>2. Indices /\ Stored /\ CopiesInOrder
  BY QueueAssumption DEF Init, Indices, Stored, CopiesInOrder, Used
<1> QED
  BY <1>1, <1>2 DEF IInv

\* Taking n bytes leaves the rest of the stream in place.
LEMMA Consume ==
  ASSUME TypeOK, Indices, Stored, NEW n \in 1..Used,
         tail' = Bump(tail, n), rd' = rd + n, rsize' = 0, UNCHANGED writer
  PROVE  Indices' /\ Stored'
<1> USE QueueAssumption DEF writer
<1>1. Used \in 0..MSGBUF_SIZE-1 /\ Used' = Used - n /\ tail \in 0..MSGBUF_SIZE /\ wcnt \in 0..wsize
      /\ Used + wcnt <= MSGBUF_SIZE
  BY DEF TypeOK, Indices, Used
<1>2. Indices'
  BY DEF TypeOK, Indices, Used, Bump
<1>3. ASSUME NEW d \in 0..(Used' + wcnt' - 1) PROVE buf'[Slot(tail', d)] = rd' + d
  <2>1. n + d \in 0..(Used + wcnt - 1) /\ n + d < MSGBUF_SIZE /\ n \in Nat /\ d \in Nat
    BY <1>1, <1>3 DEF TypeOK
  <2>2. Slot(tail', d) = Slot(tail, n + d)
    BY <1>1, <2>1, SlotAfterBump
  <2> QED
    BY <2>1, <2>2, rd + (n + d) = (rd + n) + d DEF Stored, TypeOK
<1> QED
  BY <1>2, <1>3 DEF Stored

\* No step of the writer or of the reader breaks the inductive invariant.
LEMMA IInvStep == IInv /\ [Next]_vars => IInv'
<1> SUFFICES ASSUME IInv, [Next]_vars PROVE IInv'
  OBVIOUS
<1> USE QueueAssumption DEF writer, reader
<1>0. TypeOK /\ Indices /\ Stored /\ CopiesInOrder /\ BYTES_ON_QUEUE = Used
  BY OccupancyLemma DEF IInv
<1>1. CASE UNCHANGED vars
  BY <1>0, <1>1 DEF vars, IInv, TypeOK, Indices, Stored, CopiesInOrder, Used
<1>2. ASSUME NEW n \in Sizes, WriteBegin(n) PROVE IInv'
  <2>1. TypeOK'
    BY <1>0, <1>2 DEF WriteBegin, TypeOK
  <2>2. Indices' /\ CopiesInOrder'
    BY <1>0, <1>2 DEF WriteBegin, TypeOK, Indices, CopiesInOrder, Used
  <2>3. Stored'
    BY <1>0, <1>2 DEF WriteBegin, TypeOK, Stored, Used
  <2> QED
    BY <2>1, <2>2, <2>3 DEF IInv
<1>3. ASSUME WriteByte PROVE IInv'
  <2> DEFINE s == Slot(head, wcnt)
  <2>1. wcnt \in Nat /\ wsize \in Nat /\ wcnt < wsize /\ Used + wcnt < MSGBUF_SIZE /\ Used \in Nat
    BY <1>0, <1>3 DEF WriteByte, TypeOK, Indices
  <2>a. head \in 0..MSGBUF_SIZE /\ wcnt \in 0..MSGBUF_SIZE-1
    BY <1>0, <2>1 DEF TypeOK
  <2>2. s = Slot(tail, Used + wcnt) /\ s \in 0..MSGBUF_SIZE-1
    BY <1>0, <2>1, <2>a, SlotHead, SlotRange
  <2>3. TypeOK'
    BY <1>0, <1>3, <2>1, <2>2 DEF WriteByte, TypeOK
  <2>4. Indices' /\ CopiesInOrder'
    BY <1>0, <1>3 DEF WriteByte, TypeOK, Indices, CopiesInOrder, Used
  <2>5. ASSUME NEW d \in 0..(Used + wcnt) PROVE buf'[Slot(tail, d)] = rd + d
    <3>1. CASE d = Used + wcnt
      BY <1>0, <1>3, <2>1, <2>2, <3>1 DEF WriteByte, TypeOK, Used
    <3>2. CASE d # Used + wcnt
      <4>1. d \in 0..MSGBUF_SIZE-1 /\ Used + wcnt \in 0..MSGBUF_SIZE-1 /\ d \in 0..(Used + wcnt - 1)
        BY <2>1, <3>2, <2>5
      <4>2. Slot(tail, d) # s
        BY <1>0, <2>2, <3>2, <4>1, SlotInjective DEF TypeOK
      <4>3. buf'[Slot(tail, d)] = buf[Slot(tail, d)]
        BY <1>0, <1>3, <4>1, <4>2, SlotRange DEF WriteByte, TypeOK
      <4> QED
        BY <1>0, <4>1, <4>3 DEF Stored
    <3> QED
      BY <3>1, <3>2
  <2>6. Stored'
    BY <1>0, <1>3, <2>1, <2>5 DEF WriteByte, Stored, Used, Slot
  <2> QED
    BY <2>3, <2>4, <2>6 DEF IInv
<1>4. ASSUME WriteEnd PROVE IInv'
  <2>1. wsize \in 1..MSGBUF_SIZE /\ wsize < MSGBUF_SIZE - Used
    BY <1>0, <1>4 DEF WriteEnd, TypeOK, Indices, Used
  <2>a. Bump(head, wsize) \in 0..MSGBUF_SIZE
    BY <1>0, <2>1, BumpRange DEF TypeOK
  <2>2. TypeOK'
    BY <1>0, <1>4, <2>a DEF WriteEnd, TypeOK
  <2>3. Indices' /\ CopiesInOrder'
    BY <1>0, <1>4, <2>1 DEF WriteEnd, TypeOK, Indices, CopiesInOrder, Used, Bump
  <2>4. /\ Used' + wcnt' = Used + wcnt
        /\ buf' = buf /\ tail' = tail /\ rd' = rd
    BY <1>0, <1>4 DEF WriteEnd, TypeOK, Used
  <2>5. ASSUME NEW d \in 0..(Used' + wcnt' - 1) PROVE buf'[Slot(tail', d)] = rd' + d
    <3>1. d \in 0..(Used + wcnt - 1)
      BY <1>0, <1>4, <2>5 DEF WriteEnd, Used, TypeOK
    <3> QED
      BY <1>0, <2>4, <3>1 DEF Stored
  <2>6. Stored'
    BY <2>5 DEF Stored
  <2> QED
    BY <2>2, <2>3, <2>6 DEF IInv
<1>5. ASSUME NEW n \in Sizes, ReadBegin(n) PROVE IInv'
  BY <1>0, <1>5 DEF ReadBegin, IInv, TypeOK, Indices, Stored, CopiesInOrder, Used, Slot
<1>6. ASSUME ReadByte PROVE IInv'
  <2> DEFINE l == Len(dst)
  <2>1. l \in 0..(Used - 1) /\ l \in 0..MSGBUF_SIZE-1 /\ l \in 0..(Used + wcnt - 1)
    BY <1>0, <1>6 DEF ReadByte, TypeOK, Indices, Used
  <2>2. buf[Slot(tail, l)] = rd + l /\ buf[Slot(tail, l)] \in Nat
    BY <1>0, <2>1, SlotRange DEF Stored, TypeOK
  <2>3. TypeOK'
    BY <1>0, <1>6, <2>2 DEF ReadByte, TypeOK
  <2>4. CopiesInOrder'
    BY <1>0, <1>6, <2>2 DEF ReadByte, TypeOK, CopiesInOrder
  <2>5. Indices' /\ Stored'
    BY <1>0, <1>6 DEF ReadByte, TypeOK, Indices, Stored, Used, Slot
  <2> QED
    BY <2>3, <2>4, <2>5 DEF IInv
<1>7. ASSUME ReadEnd PROVE IInv'
  <2>1. rsize \in 1..Used /\ rsize \in 1..MSGBUF_SIZE
    BY <1>0, <1>7 DEF ReadEnd, TypeOK, Indices, Used
  <2>2. Indices' /\ Stored'
    BY <1>0, <1>7, <2>1, Consume DEF ReadEnd
  <2>a. Bump(tail, rsize) \in 0..MSGBUF_SIZE
    BY <1>0, <2>1, BumpRange DEF TypeOK
  <2>3. TypeOK'
    BY <1>0, <1>7, <2>a DEF ReadEnd, TypeOK
  <2>4. CopiesInOrder'
    BY <1>7 DEF ReadEnd, CopiesInOrder
  <2> QED
    BY <2>2, <2>3, <2>4 DEF IInv
<1>8. CASE SnoopEnd
  BY <1>0, <1>8 DEF SnoopEnd, IInv, TypeOK, Indices, Stored, CopiesInOrder, Used, Slot
<1>9. ASSUME NEW n \in Sizes, SkipBytes(n) PROVE IInv'
  <2>1. n \in 1..Used /\ n \in 1..MSGBUF_SIZE
    BY <1>0, <1>9 DEF SkipBytes, TypeOK, Indices, Used
  <2>2. Indices' /\ Stored'
    BY <1>0, <1>9, <2>1, Consume DEF SkipBytes
  <2>a. Bump(tail, n) \in 0..MSGBUF_SIZE
    BY <1>0, <2>1, BumpRange DEF TypeOK
  <2>3. TypeOK'
    BY <1>0, <1>9, <2>a DEF SkipBytes, TypeOK
  <2>4. CopiesInOrder'
    BY <1>0, <1>9 DEF SkipBytes, CopiesInOrder, TypeOK
  <2> QED
    BY <2>2, <2>3, <2>4 DEF IInv
<1> QED
  BY <1>1, <1>2, <1>3, <1>4, <1>5, <1>6, <1>7, <1>8, <1>9 DEF Next
----------------------------------------------------------------------------
\* Every variable keeps its type.
THEOREM TypeCorrect == Spec => []TypeOK
<1>1. IInv => TypeOK
  BY DEF IInv
<1> QED
  BY <1>1, IInvInit, IInvStep, PTL DEF Spec

\* BYTES_ON_QUEUE is always the number of bytes written and not consumed.
THEOREM OccupancyCorrect == Spec => []OccupancyExact
<1>1. IInv => OccupancyExact
  BY OccupancyLemma DEF IInv, OccupancyExact, Used
<1> QED
  BY <1>1, IInvInit, IInvStep, PTL DEF Spec

\* The raw indices are equal exactly when the queue is empty.
THEOREM RawEqualCorrect == Spec => []RawEqualMeansEmpty
<1>1. IInv => RawEqualMeansEmpty
  BY QueueAssumption DEF IInv, TypeOK, Indices, RawEqualMeansEmpty, Used
<1> QED
  BY <1>1, IInvInit, IInvStep, PTL DEF Spec

\* A reader copies the stream in order, with the writer at work beside it.
THEOREM InOrderCorrect == Spec => []CopiesInOrder
<1>1. IInv => CopiesInOrder
  BY DEF IInv
<1> QED
  BY <1>1, IInvInit, IInvStep, PTL DEF Spec

----------------------------------------------------------------------------
\* A run of n consecutive bytes of the stream.
Chunk(from, n) == [i \in 1..n |-> from + i - 1]

LEMMA ChunkLemma ==
  ASSUME NEW from \in Nat, NEW n \in Nat
  PROVE  Chunk(from, n) \in Seq(Nat) /\ Len(Chunk(from, n)) = n
BY DEF Chunk

LEMMA ChunkAppend ==
  ASSUME NEW from \in Nat, NEW m \in Nat, NEW n \in Nat
  PROVE  Chunk(from, m) \o Chunk(from + m, n) = Chunk(from, m + n)
BY DEF Chunk

LEMMA ChunkFirst ==
  ASSUME NEW from \in Nat, NEW m \in Nat, NEW n \in 0..m
  PROVE  SubSeq(Chunk(from, m), 1, n) = Chunk(from, n)
BY DEF Chunk

LEMMA ChunkRest ==
  ASSUME NEW from \in Nat, NEW m \in Nat, NEW n \in 0..m
  PROVE  SubSeq(Chunk(from, m), n + 1, Len(Chunk(from, m))) = Chunk(from + n, m - n)
BY DEF Chunk

\* What lies between tail and head is the unconsumed part of the stream.
ContentFacts == /\ Content = Chunk(rd, Used)
                /\ Used \in Nat /\ rd \in Nat /\ wr = rd + Used
                /\ Len(Content) = Used

LEMMA ContentLemma == IInv => ContentFacts
<1> SUFFICES ASSUME IInv PROVE ContentFacts
  OBVIOUS
<1>1. Used \in Nat /\ rd \in Nat /\ wr \in Nat /\ wr = rd + Used /\ wcnt \in Nat
  BY QueueAssumption DEF IInv, TypeOK, Indices, Used
<1>2. ASSUME NEW i \in 1..Used PROVE buf[Slot(tail, i - 1)] = rd + i - 1
  <2>1. i - 1 \in 0..(Used + wcnt - 1)
    BY <1>1
  <2> QED
    BY <1>1, <2>1 DEF IInv, Stored
<1>3. Content = Chunk(rd, Used)
  BY <1>2 DEF Content, Chunk, Used
<1>4. Len(Chunk(rd, Used)) = Used
  BY <1>1, ChunkLemma
<1> QED
  BY <1>1, <1>3, <1>4 DEF ContentFacts

LEMMA ContentNext == IInv' => ContentFacts'
BY ContentLemma, PTL

\* What a completed copy holds is the front of the unconsumed stream.
LEMMA CopyLemma ==
  ASSUME IInv, Len(dst) = rsize
  PROVE  /\ rsize \in 0..Used
         /\ dst = SubSeq(Content, 1, rsize)
<1>1. rsize \in 0..Used
  BY QueueAssumption DEF IInv, TypeOK, Indices
<1>2. dst \in Seq(Nat) /\ rd \in Nat
  BY DEF IInv, TypeOK
<1>3. \A i \in 1..rsize : dst[i] = rd + i - 1
  BY DEF IInv, CopiesInOrder
<1>4. dst = Chunk(rd, rsize)
  BY <1>2, <1>3 DEF Chunk
<1> QED
  BY <1>1, <1>2, <1>4, ContentLemma, ChunkFirst DEF ContentFacts

\* Every step of the buffer is a step of the stream or changes nothing of it.
LEMMA StreamStep == IInv /\ IInv' /\ [Next]_vars => [Stream!Next]_<<Content, wr, got>>
<1> SUFFICES ASSUME IInv, IInv', [Next]_vars
             PROVE  [Stream!Next]_<<Content, wr, got>>
  OBVIOUS
<1> USE QueueAssumption DEF writer, reader
<1>0. /\ Content = Chunk(rd, Used) /\ Len(Content) = Used
      /\ Used \in Nat /\ rd \in Nat /\ wr = rd + Used
      /\ Content' = Chunk(rd', Used')
  BY ContentLemma, ContentNext DEF ContentFacts
<1>1. ASSUME wr' = wr, rd' = rd, got' = got PROVE UNCHANGED <<Content, wr, got>>
  BY <1>0, <1>1 DEF Used
<1>2. ASSUME NEW n \in Sizes, WriteBegin(n) \/ ReadBegin(n) PROVE UNCHANGED <<Content, wr, got>>
  BY <1>1, <1>2 DEF WriteBegin, ReadBegin
<1>3. ASSUME WriteByte \/ ReadByte PROVE UNCHANGED <<Content, wr, got>>
  BY <1>1, <1>3 DEF WriteByte, ReadByte
<1>4. ASSUME WriteEnd PROVE Stream!Next
  <2>1. wsize \in Sizes /\ wsize \in Nat /\ wsize < MSGBUF_SIZE - Used
    BY <1>4 DEF WriteEnd, IInv, TypeOK, Indices
  <2>2. Used' = Used + wsize /\ rd' = rd
    BY <1>0, <1>4, <2>1 DEF WriteEnd, Used
  <2>3. Content' = Content \o Chunk(wr, wsize)
    BY <1>0, <2>1, <2>2, ChunkAppend, ZenonT(60)
  <2>4. Stream!Put(wsize)
    BY <1>0, <1>4, <2>1, <2>3 DEF WriteEnd, Stream!Put, Stream!Count, Chunk
  <2> QED
    BY <2>1, <2>4 DEF Stream!Next
<1>5. ASSUME NEW n \in 0..Used, rd' = rd + n, wr' = wr
      PROVE  Content' = SubSeq(Content, n + 1, Len(Content))
  <2>1. Used' = Used - n
    BY <1>0, <1>5 DEF Used
  <2> QED
    BY <1>0, <1>5, <2>1, ChunkRest
<1>6. ASSUME ReadEnd PROVE Stream!Next
  <2>1. rsize \in Sizes /\ rsize \in 0..Used /\ dst = SubSeq(Content, 1, rsize)
    BY <1>6, CopyLemma DEF ReadEnd, IInv, TypeOK
  <2>2. Content' = SubSeq(Content, rsize + 1, Len(Content))
    BY <1>5, <1>6, <2>1 DEF ReadEnd
  <2>3. Stream!Get(rsize)
    BY <1>0, <1>6, <2>1, <2>2 DEF ReadEnd, Stream!Get
  <2> QED
    BY <2>1, <2>3 DEF Stream!Next
<1>7. ASSUME SnoopEnd PROVE Stream!Next
  <2>1. rsize \in Sizes /\ rsize \in 0..Used /\ dst = SubSeq(Content, 1, rsize)
    BY <1>7, CopyLemma DEF SnoopEnd, IInv, TypeOK
  <2>2. Content' = Content
    BY <1>0, <1>7 DEF SnoopEnd, Used
  <2>3. Stream!Peek(rsize)
    BY <1>0, <1>7, <2>1, <2>2 DEF SnoopEnd, Stream!Peek
  <2> QED
    BY <2>1, <2>3 DEF Stream!Next
<1>8. ASSUME NEW n \in Sizes, SkipBytes(n) PROVE Stream!Next
  <2>1. n \in 0..Used
    BY <1>8, OccupancyLemma DEF SkipBytes, IInv
  <2>2. Content' = SubSeq(Content, n + 1, Len(Content))
    BY <1>5, <1>8, <2>1 DEF SkipBytes
  <2>3. Stream!Skip(n)
    BY <1>0, <1>8, <2>1, <2>2 DEF SkipBytes, Stream!Skip
  <2> QED
    BY <2>3 DEF Stream!Next
<1>9. CASE UNCHANGED vars
  BY <1>1, <1>9 DEF vars
<1> QED
  BY <1>2, <1>3, <1>4, <1>6, <1>7, <1>8, <1>9 DEF Next

\* The circular buffer implements the bounded stream, for every buffer size,
\* every set of message lengths and every interleaving of the byte copies.
THEOREM QueueImplementsStream == Spec => ImplementsStream
<1>1. Init => Stream!Init
  BY DEF Init, Stream!Init, Content
<1> QED
  BY <1>1, IInvInit, IInvStep, StreamStep, PTL
     DEF Spec, ImplementsStream, Stream!Spec

----------------------------------------------------------------------------
(* Mutual exclusion of the queue lock, for any set of lock numbers inside  *)
(* the range the scan loop visits and running the driver's and the i860    *)
(* kernel's version of the test after it; and of the two users of the ToND *)
(* lock on the host processor, whichever version of the test they run.     *)

\* for ( j = 0; j < MAX_LOCK_NUM; ++j ) looks at every user's Lock_b.
AllScanned == MAX_LOCK_NUM \notin Procs

\* Nobody runs the libND copy.
NoDps == DpsProcs = {}

----------------------------------------------------------------------------
\* Between its store to Lock_b and the matching clear on the way to the fast
\* path, or past the fast path with Lock_b still set.
Contends(p) == pc[p] \in {"sety", "testx", "clearb"}
Fast(p) == Holds(p) /\ b[p]
Slow(p) == Holds(p) /\ ~b[p]

\* q has left p behind in its scan.
Passed(q, p) == pc[q] = "scan" /\ scan[q] > p

BSet == \A p \in Procs :
            pc[p] \in {"setx", "testy", "backoff", "sety", "testx", "clearb"} => b[p]

\* A contender that overtook the scan of q saw Lock_y undefined after q's
\* store to it, so Lock_y is no longer q's.
Overtaken == \A p, q \in Procs :
    p # q /\ (Contends(p) \/ Fast(p)) /\ Passed(q, p) => y # q

\* A process that came through the scan owns Lock_y, and no rival is between
\* its test of Lock_y and its test of Lock_x.
SlowOwns == \A p \in Procs : Slow(p) =>
    /\ y = p
    /\ \A q \in Procs : q # p => ~Contends(q) /\ ~Holds(q)

\* A process that came through the fast path has Lock_y set by somebody, and
\* every rival still on its way to the test of Lock_x will fail it.
FastOwns == \A p \in Procs : Fast(p) =>
    /\ y # LOCK_UNDEF
    /\ \A q \in Procs : q # p => /\ pc[q] \in {"sety", "testx"} => x # q
                                 /\ ~Holds(q)

\* Lock_y cannot have been cleared behind a process that is about to win.
Winner == \A p \in Procs : pc[p] = "testx" /\ x = p => y # LOCK_UNDEF

LockIInv == LockTypeOK /\ BSet /\ Overtaken /\ SlowOwns /\ FastOwns /\ Winner
----------------------------------------------------------------------------
LEMMA UndefIsNobody == \A p \in Procs : p # LOCK_UNDEF
BY LockAssumption DEF LOCK_UNDEF

\* Every variable keeps its type, whichever variant of the code runs.
LEMMA LockTypeStep == LockTypeOK /\ [LockNext]_lockVars => LockTypeOK'
<1> USE LockAssumption DEF LockTypeOK, Labels, Goto
<1> SUFFICES ASSUME LockTypeOK, [LockNext]_lockVars PROVE LockTypeOK'
  OBVIOUS
<1>1. CASE UNCHANGED lockVars
  BY <1>1 DEF lockVars
<1>2. ASSUME NEW p \in Procs, Call(p) \/ Run(p) PROVE LockTypeOK'
  <2>1. CASE Call(p)
    BY <2>1 DEF Call
  <2>2. CASE SetB(p)
    BY <2>2 DEF SetB
  <2>3. CASE SetX(p)
    BY <2>3 DEF SetX
  <2>4. CASE TestY(p)
    BY <2>4 DEF TestY
  <2>5. CASE Backoff(p)
    BY <2>5 DEF Backoff
  <2>6. CASE WaitY(p)
    BY <2>6 DEF WaitY
  <2>7. CASE SetY(p)
    BY <2>7 DEF SetY
  <2>8. CASE TestX(p)
    BY <2>8 DEF TestX
  <2>9. CASE ClearB(p)
    BY <2>9 DEF ClearB
  <2>10. CASE Scan(p)
    BY <2>10 DEF Scan
  <2>11. CASE Decide(p)
    BY <2>11 DEF Decide
  <2>12. CASE Leave(p)
    BY <2>12 DEF Leave
  <2>13. CASE UnlockY(p)
    BY <2>13 DEF UnlockY
  <2>14. CASE UnlockB(p)
    BY <2>14 DEF UnlockB
  <2> QED
    BY <1>2, <2>1, <2>2, <2>3, <2>4, <2>5, <2>6, <2>7, <2>8, <2>9, <2>10, <2>11, <2>12, <2>13, <2>14 DEF Run
<1> QED
  BY <1>1, <1>2 DEF LockNext

\* Every variable keeps its type in every behaviour of the lock.
THEOREM LockTypeCorrect == LockSpec => []LockTypeOK
<1>1. LockInit => LockTypeOK
  BY LockAssumption DEF LockInit, LockTypeOK, Labels
<1> QED
  BY <1>1, LockTypeStep, PTL DEF LockSpec

----------------------------------------------------------------------------
LEMMA LockIInvInit == LockInit => LockIInv
BY LockAssumption
   DEF LockInit, LockIInv, LockTypeOK, Labels, BSet, Overtaken, SlowOwns, FastOwns, Winner,
       Contends, Fast, Slow, Holds, Passed

\* No step of any process breaks the inductive invariant.
LEMMA LockIInvStep ==
  ASSUME AllScanned, NoDps, LockIInv, [LockNext]_lockVars
  PROVE  LockIInv'
<1> USE LockAssumption, UndefIsNobody
    DEF LockIInv, BSet, Overtaken, SlowOwns, FastOwns, Winner,
        Contends, Fast, Slow, Holds, Passed
<1>0. LockTypeOK'
  BY LockTypeStep
<1>1. CASE UNCHANGED lockVars
  BY <1>0, <1>1 DEF lockVars
<1>2. ASSUME NEW p \in Procs, Call(p) \/ Run(p) PROVE LockIInv'
  <2> USE <1>0 DEF LockTypeOK, Labels, Goto
  <2>1. CASE Call(p)
    BY <2>1 DEF Call
  <2>2. CASE SetB(p)
    BY <2>2 DEF SetB
  <2>3. CASE SetX(p)
    BY <2>3 DEF SetX
  <2>4. CASE TestY(p)
    BY <2>4, SMTT(30) DEF TestY
  <2>5. CASE Backoff(p)
    BY <2>5 DEF Backoff
  <2>6. CASE WaitY(p)
    BY <2>6 DEF WaitY
  <2>7. CASE SetY(p)
    BY <2>7 DEF SetY
  <2>8. CASE TestX(p)
    BY <2>8, SMTT(30) DEF TestX
  <2>9. CASE ClearB(p)
    BY <2>9 DEF ClearB
  <2>10. CASE Scan(p)
    BY <2>10 DEF Scan
  <2>11. CASE Decide(p)
    BY <2>11, SMTT(30) DEF Decide, LostRace, AllScanned, NoDps
  <2>12. CASE Leave(p)
    BY <2>12 DEF Leave
  <2>13. CASE UnlockY(p)
    BY <2>13 DEF UnlockY
  <2>14. CASE UnlockB(p)
    BY <2>14 DEF UnlockB
  <2> QED
    BY <1>2, <2>1, <2>2, <2>3, <2>4, <2>5, <2>6, <2>7, <2>8, <2>9, <2>10, <2>11, <2>12, <2>13, <2>14 DEF Run
<1> QED
  BY <1>1, <1>2 DEF LockNext

\* The lock excludes: every lock number the scan visits, running the kernel
\* code, is alone between the return of the lock function and the release.
THEOREM MutexCorrect ==
  ASSUME AllScanned, NoDps
  PROVE  LockSpec => []MutualExclusion
<1>1. LockIInv => MutualExclusion
  BY DEF LockIInv, SlowOwns, FastOwns, MutualExclusion, Slow, Fast
<1>2. LockIInv /\ [LockNext]_lockVars => LockIInv'
  BY LockIInvStep
<1> QED
  BY <1>1, <1>2, LockIInvInit, PTL DEF LockSpec

\* ND_LamportLockSet never calls a held lock free.
THEOREM VisibleCorrect ==
  ASSUME AllScanned, NoDps
  PROVE  LockSpec => []HeldIsVisible
<1>1. LockIInv => HeldIsVisible
  BY UndefIsNobody DEF LockIInv, SlowOwns, FastOwns, HeldIsVisible, Slow, Fast
<1>2. LockIInv /\ [LockNext]_lockVars => LockIInv'
  BY LockIInvStep
<1> QED
  BY <1>1, <1>2, LockIInvInit, PTL DEF LockSpec

----------------------------------------------------------------------------
(* The two users of the ToND lock on the host.  The argument is another one: *)
(* nothing depends on the scan, because the kernel thread goes from its      *)
(* store to Lock_x to the release without giving up the processor.           *)

\* The kernel thread never loses a race: it finds Lock_x as it left it.
KernelUncontested ==
    /\ pc[KERN] \notin {"clearb", "scan", "retry"}
    /\ pc[KERN] \in {"testy", "sety", "testx"} => x = KERN
    /\ pc[KERN] = "sety" => y = LOCK_UNDEF
    /\ pc[KERN] \in {"testx", "cs", "unlocky"} => y = KERN

\* From the task's store to Lock_y to its release of it the kernel thread
\* finds Lock_y taken and turns back at its test.
TaskOwnsY ==
    pc[DPS] \in {"testx", "clearb", "scan", "cs", "unlocky"} =>
        /\ y = DPS
        /\ pc[KERN] \notin {"sety", "testx", "cs", "unlocky"}

HostIInv == LockTypeOK /\ KernelUncontested /\ TaskOwnsY

LEMMA HostIInvInit == HostUsers /\ LockInit => HostIInv
BY LockAssumption
   DEF HostUsers, DPS, KERN, LockInit, HostIInv, LockTypeOK, Labels, KernelUncontested, TaskOwnsY

\* No step of the two users on one processor breaks the invariant.
LEMMA HostIInvStep ==
  ASSUME HostUsers, HostIInv, [HostNext]_lockVars
  PROVE  HostIInv'
<1> USE LockAssumption
    DEF HostIInv, KernelUncontested, TaskOwnsY, KernelPaused, DPS, KERN, LOCK_UNDEF
<1>1. DPS \in Procs /\ KERN \in Procs
  BY DEF HostUsers
<1>2. LockTypeOK'
  BY <1>1, LockTypeStep DEF HostNext, LockNext
<1>3. CASE UNCHANGED lockVars
  BY <1>2, <1>3 DEF lockVars
<1>4. ASSUME NEW p \in {DPS, KERN}, Call(p) \/ Run(p), p = DPS => KernelPaused
      PROVE  HostIInv'
  <2> USE <1>1, <1>2, <1>4 DEF LockTypeOK, Labels, Goto
  <2>1. CASE Call(p)
    BY <2>1 DEF Call
  <2>2. CASE SetB(p)
    BY <2>2 DEF SetB
  <2>3. CASE SetX(p)
    BY <2>3 DEF SetX
  <2>4. CASE TestY(p)
    BY <2>4 DEF TestY
  <2>5. CASE Backoff(p)
    BY <2>5 DEF Backoff
  <2>6. CASE WaitY(p)
    BY <2>6 DEF WaitY
  <2>7. CASE SetY(p)
    BY <2>7 DEF SetY
  <2>8. CASE TestX(p)
    BY <2>8 DEF TestX
  <2>9. CASE ClearB(p)
    BY <2>9 DEF ClearB
  <2>10. CASE Scan(p)
    BY <2>10 DEF Scan
  <2>11. CASE Decide(p)
    BY <2>11 DEF Decide
  <2>12. CASE Leave(p)
    BY <2>12 DEF Leave
  <2>13. CASE UnlockY(p)
    BY <2>13 DEF UnlockY
  <2>14. CASE UnlockB(p)
    BY <2>14 DEF UnlockB
  <2> QED
    BY <1>4, <2>1, <2>2, <2>3, <2>4, <2>5, <2>6, <2>7, <2>8, <2>9, <2>10, <2>11, <2>12, <2>13, <2>14 DEF Run
<1> QED
  BY <1>3, <1>4 DEF HostNext

\* The DPS task, although it runs libND's test, and the server thread never
\* both hold the ToND lock: the host has one processor, and the kernel thread
\* leaves it only inside shortpause or with the lock function not yet called.
THEOREM HostMutexCorrect ==
  ASSUME HostUsers
  PROVE  HostSpec => []MutualExclusion
<1>1. HostIInv => MutualExclusion
  BY DEF HostIInv, HostUsers, TaskOwnsY, MutualExclusion, Holds
<1>2. HostIInv /\ [HostNext]_lockVars => HostIInv'
  BY HostIInvStep
<1>3. LockInit => HostIInv
  BY HostIInvInit
<1> QED
  BY <1>1, <1>2, <1>3, PTL DEF HostSpec

----------------------------------------------------------------------------
(* The two service threads of the driver, for queues of any size and any   *)
(* number of messages.  The interrupt may come between any two steps, and  *)
(* each thread may clear the flag that was set for the other.              *)

Counts == /\ nin \in 0..NIn
          /\ toND \in 0..ToCap-1
          /\ fromND \in 0..FromCap-1

Places == /\ Flags \subseteq {IN_EMPTY, IN_LOW}
          /\ spc \in {"receive", "test", "flag", "blocked", "woken", "clear", "copy"}
          /\ rpc \in {"top", "blocked", "woken", "look", "busy"}
          /\ bpc \in {"idle", "msgs", "kept", "empty", "pingKept", "pingEmpty", "pingSent"}

Signals == /\ INTCPU \in BOOLEAN /\ INTR_PENDING \in BOOLEAN
           /\ softS \in BOOLEAN /\ softR \in BOOLEAN
           /\ bstate \in [Senders -> {"out", "asleep", "ready"}]

\* The room the server thread has found is still there when it writes: the
\* board only takes from the queue.
RoomKept == spc \in {"clear", "copy"} => toND + 1 < ToCap

DriverIInv == Counts /\ Places /\ Signals /\ RoomKept /\ SleeperIsWoken

LEMMA DriverIInvInit ==
  ASSUME DriverInit
  PROVE  DriverIInv
<1>1. Counts
  BY HostDriverAssumption DEF DriverInit, Counts
<1>2. Places
  BY DEF DriverInit, Places, IN_EMPTY, IN_LOW
<1>3. Signals
  BY DEF DriverInit, Signals
<1>4. RoomKept /\ SleeperIsWoken
  BY DEF DriverInit, RoomKept, SleeperIsWoken
<1> QED
  BY <1>1, <1>2, <1>3, <1>4 DEF DriverIInv

\* Neither queue is ever written to when it has no room.
LEMMA CountsStep ==
  ASSUME DriverIInv, [DriverNext]_driverVars
  PROVE  Counts' /\ RoomKept'
<1> USE HostDriverAssumption DEF DriverIInv, Counts, RoomKept,
            server, driver, board
<1>1. CASE UNCHANGED driverVars
  BY <1>1 DEF driverVars
<1>2. CASE Server
  BY <1>2 DEF Server, ServerReceive, ServerTest, ServerFlag,
     ServerUnpause, ServerClear, ServerCopy
<1>3. CASE Reply
  BY <1>3 DEF Reply, ReplyTop, ReplyUnpause, ReplyEmpty,
     ReplyTake, ReplyDone
<1>4. CASE Interrupts
  BY <1>4 DEF Interrupts, ND_intr, WakeupServer,
     WakeupReply, ServerPaused, ReplyPaused
<1>5. CASE Messages
  BY <1>5 DEF Messages, MessagesWake, MessagesTake,
     MessagesLow, MessagesDrained, MessagesEmpty
<1>6. CASE Send
  BY <1>6 DEF Send, msg_send
<1>7. CASE ping_driver \/ trap \/ hardclock
  BY <1>7 DEF ping_driver, trap, hardclock, Woken
<1> QED
  BY <1>1, <1>2, <1>3, <1>4, <1>5, <1>6, <1>7 DEF DriverNext

\* Both threads and the board stay in their programs.
LEMMA PlacesStep ==
  ASSUME DriverIInv, [DriverNext]_driverVars
  PROVE  Places'
<1> USE HostDriverAssumption DEF DriverIInv, Places,
            server, driver, board
<1>1. CASE UNCHANGED driverVars
  BY <1>1 DEF driverVars
<1>2. CASE Server
  BY <1>2 DEF Server, ServerReceive, ServerTest, ServerFlag,
     ServerUnpause, ServerClear, ServerCopy
<1>3. CASE Reply
  BY <1>3 DEF Reply, ReplyTop, ReplyUnpause, ReplyEmpty,
     ReplyTake, ReplyDone
<1>4. CASE Interrupts
  BY <1>4 DEF Interrupts, ND_intr, WakeupServer,
     WakeupReply, ServerPaused, ReplyPaused
<1>5. CASE Messages
  BY <1>5 DEF Messages, MessagesWake, MessagesTake,
     MessagesLow, MessagesDrained, MessagesEmpty
<1>6. CASE Send
  BY <1>6 DEF Send, msg_send
<1>7. CASE ping_driver \/ trap \/ hardclock
  BY <1>7 DEF ping_driver, trap, hardclock, Woken
<1> QED
  BY <1>1, <1>2, <1>3, <1>4, <1>5, <1>6, <1>7 DEF DriverNext

\* Flags and wakeups are set or not.
LEMMA SignalsStep ==
  ASSUME DriverIInv, [DriverNext]_driverVars
  PROVE  Signals'
<1> USE HostDriverAssumption DEF DriverIInv, Signals,
            server, driver, board
<1>1. CASE UNCHANGED driverVars
  BY <1>1 DEF driverVars
<1>2. CASE Server
  BY <1>2 DEF Server, ServerReceive, ServerTest, ServerFlag,
     ServerUnpause, ServerClear, ServerCopy
<1>3. CASE Reply
  BY <1>3 DEF Reply, ReplyTop, ReplyUnpause, ReplyEmpty,
     ReplyTake, ReplyDone
<1>4. CASE Interrupts
  BY <1>4 DEF Interrupts, ND_intr, WakeupServer,
     WakeupReply, ServerPaused, ReplyPaused
<1>5. CASE Messages
  BY <1>5 DEF Messages, MessagesWake, MessagesTake,
     MessagesLow, MessagesDrained, MessagesEmpty
<1>6. CASE Send
  BY <1>6 DEF Send, msg_send
<1>7. CASE ping_driver \/ trap \/ hardclock
  BY <1>7 DEF ping_driver, trap, hardclock, Woken
<1> QED
  BY <1>1, <1>2, <1>3, <1>4, <1>5, <1>6, <1>7 DEF DriverNext

\* Whoever goes to sleep has just consumed the flag; ND_intr schedules a wakeup
\* for whoever sleeps.
LEMMA SleeperStep ==
  ASSUME DriverIInv, [DriverNext]_driverVars
  PROVE  SleeperIsWoken'
<1> USE HostDriverAssumption DEF DriverIInv, SleeperIsWoken, Signals,
            server, driver, board
<1>1. CASE UNCHANGED driverVars
  BY <1>1 DEF driverVars
<1>2. CASE Server
  BY <1>2 DEF Server, ServerReceive, ServerTest, ServerFlag,
     ServerUnpause, ServerClear, ServerCopy
<1>3. CASE Reply
  BY <1>3 DEF Reply, ReplyTop, ReplyUnpause, ReplyEmpty,
     ReplyTake, ReplyDone
<1>4. CASE Interrupts
  BY <1>4 DEF Interrupts, ND_intr, WakeupServer,
     WakeupReply, ServerPaused, ReplyPaused
<1>5. CASE Messages
  BY <1>5 DEF Messages, MessagesWake, MessagesTake,
     MessagesLow, MessagesDrained, MessagesEmpty
<1>6. CASE Send
  BY <1>6 DEF Send, msg_send
<1>7. CASE ping_driver \/ trap \/ hardclock
  BY <1>7 DEF ping_driver, trap, hardclock, Woken
<1> QED
  BY <1>1, <1>2, <1>3, <1>4, <1>5, <1>6, <1>7 DEF DriverNext

\* The driver's waits are sound: queues within their sizes, and no thread
\* asleep with an interrupt pending that is not about to wake it.
THEOREM DriverCorrect == DriverSpec => []DriverSound
<1>1. DriverIInv => DriverSound
  BY DEF DriverIInv, Counts, Places, Signals, DriverSound, DriverTypeOK
<1>2. DriverIInv /\ [DriverNext]_driverVars => DriverIInv'
  BY CountsStep, PlacesStep, SignalsStep, SleeperStep DEF DriverIInv
<1>3. DriverInit => DriverIInv
  BY DriverIInvInit
<1> QED
  BY <1>1, <1>2, <1>3, PTL DEF DriverSpec
=============================================================================
