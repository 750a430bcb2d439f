-------------------------- MODULE ToNDQueueProofs --------------------------
(***************************************************************************)
(* The host-to-board queue with its two producers, for any messages and    *)
(* any buffer: an overrun needs both producers to have found room at once; *)
(* and when lengths are aligned, what Messages() reads is framed, and each *)
(* message is delivered at most once, in the order of the way it took.     *)
(***************************************************************************)
EXTENDS ToNDQueue, SequenceTheorems, TLAPS

\* The driver's rounding adds nothing (ToNDFraming.cfg shows what it adds
\* otherwise).
SizesAligned == \A m \in Msgs : Rounded(m) = Size[m]

----------------------------------------------------------------------------
\* What a producer found stays there until it copies, unless the other found
\* room as well.
RoomKept ==
  ~raced => /\ Len(q) < MSGBUF_SIZE
            /\ dps # None => Len(q) + Size[dps] < MSGBUF_SIZE
            /\ room => Len(q) + Rounded(srv) < MSGBUF_SIZE
            /\ ~(room /\ dps # None)

Byte == [msg : Msgs, at : Nat \ {0}]
Typed == TypeOK /\ q \in Seq(Byte) /\ (room => srv # None)

----------------------------------------------------------------------------
\* Of the message whose header has been taken, so many bytes lead the queue.
Rest == IF hdr = None THEN 0 ELSE Body(hdr)

\* Where the message that byte i belongs to begins.
Base(i) == i - q[i].at

\* Behind those there are whole messages, one after the other.
RestLeads == /\ Rest <= Len(q)
             /\ \A j \in 1..Rest : q[j] = [msg |-> hdr, at |-> HDR + j]
Whole(i) == /\ q[i].at <= Size[q[i].msg]
            /\ Rest <= Base(i) /\ Base(i) + Size[q[i].msg] <= Len(q)
            /\ \A k \in Base(i)+1..Base(i)+Size[q[i].msg] :
                 q[k] = [msg |-> q[i].msg, at |-> k - Base(i)]
WholeMessages == \A i \in Rest+1..Len(q) : Whole(i)
Abut == /\ Rest < Len(q) => q[Rest + 1].at = 1
        /\ \A i \in Rest+1..Len(q)-1 : q[i].at = Size[q[i].msg] => q[i+1].at = 1

Framed == ~junk /\ RestLeads /\ WholeMessages /\ Abut

----------------------------------------------------------------------------
\* Where messages are, in the order in which they pass.
Stage == << {delivered[i] : i \in 1..Len(delivered)},
            {hdr} \ {None},
            {q[i].msg : i \in Rest+1..Len(q)},
            {dps, srv} \ {None},
            {mach[i] : i \in 1..Len(mach)},
            unsent >>

\* m goes the same way as n, or n may still go that way.
SameWay(m, n) == \/ {m, n} \subseteq MachMsgs
                 \/ {m, n} \subseteq detoured
                 \/ {m, n} \subseteq DpsMsgs \ detoured
                 \/ {m, n} \subseteq DpsMsgs /\ n \in unsent

Ahead(m, n) == m # n /\ (SameWay(m, n) => m < n)

\* A message that is further on its way than another was sent before it.
StagesInOrder == \A k, l \in 1..6 : k < l => \A m \in Stage[k], n \in Stage[l] : Ahead(m, n)

\* So do those that are at the same stage.
DeliveredInOrder == \A i, j \in 1..Len(delivered) : i < j => Ahead(delivered[i], delivered[j])
MachInOrder == \A i, j \in 1..Len(mach) : i < j => Ahead(mach[i], mach[j])
QueueInOrder == \A i, j \in Rest+1..Len(q) :
  i < j => Base(i) = Base(j) \/ Ahead(q[i].msg, q[j].msg)
TakenApart == dps # None => dps # srv

\* Who takes which way.
Ways == /\ detoured \cap unsent = {} /\ dps \notin detoured
        /\ \A i \in 1..Len(mach) : mach[i] \in MachMsgs \cup detoured
        /\ srv \in MachMsgs \cup detoured \cup {None}

Order == /\ StagesInOrder /\ DeliveredInOrder /\ MachInOrder /\ QueueInOrder
         /\ TakenApart /\ Ways

IInv == Typed /\ Framed /\ Order
----------------------------------------------------------------------------
LEMMA Constants ==
  /\ MSGBUF_SIZE \in Nat \ {0} /\ HDR \in Nat \ {0} /\ INT_SIZE \in Nat \ {0}
  /\ Msgs \subseteq Nat \ {0} /\ None \notin Msgs
  /\ DpsMsgs \subseteq Msgs /\ MachMsgs \subseteq Msgs
  /\ \A m \in Msgs : Size[m] \in Nat \ {0} /\ HDR <= Size[m]
  /\ \A m \in Msgs : Rounded(m) \in Nat /\ Body(m) \in Nat
<1>1. /\ MSGBUF_SIZE \in Nat \ {0} /\ HDR \in Nat \ {0} /\ INT_SIZE \in Nat \ {0}
      /\ Msgs \subseteq Nat \ {0} /\ None \notin Msgs
      /\ DpsMsgs \subseteq Msgs /\ MachMsgs \subseteq Msgs
  BY ToNDAssumption DEF None, Msgs
<1>2. \A m \in Msgs : Size[m] \in Nat \ {0} /\ HDR <= Size[m]
  BY <1>1, ToNDAssumption
<1>3. ASSUME NEW m \in Msgs PROVE Rounded(m) \in Nat /\ Body(m) \in Nat
  <2>1. (Size[m] + INT_SIZE - 1) \div INT_SIZE \in Nat
    BY <1>1, <1>2
  <2> QED BY <1>1, <1>2, <2>1 DEF Rounded, Body
<1> QED BY <1>1, <1>2, <1>3

\* What a copy of n bytes of message m adds to the queue.
LEMMA BytesSeq ==
  ASSUME NEW m \in Msgs, NEW n \in Nat
  PROVE  /\ Bytes(m, n) \in Seq(Byte) /\ Len(Bytes(m, n)) = n
         /\ \A j \in 1..n : Bytes(m, n)[j] = [msg |-> m, at |-> j]
<1>1. Bytes(m, n) \in [1..n -> Byte]
  BY DEF Bytes, Byte
<1>2. Bytes(m, n) \in Seq(Byte)
  BY <1>1, SeqDef
<1>3. DOMAIN Bytes(m, n) = 1..n
  BY <1>1
<1>4. Len(Bytes(m, n)) \in Nat /\ 1..Len(Bytes(m, n)) = 1..n
  BY <1>2, <1>3, LenProperties
<1>5. \A j \in 1..n : Bytes(m, n)[j] = [msg |-> m, at |-> j]
  BY DEF Bytes
<1> QED BY <1>2, <1>4, <1>5

LEMMA CopiedLength ==
  ASSUME NEW s \in Seq(Byte), NEW m \in Msgs, NEW n \in Nat
  PROVE  s \o Bytes(m, n) \in Seq(Byte) /\ Len(s \o Bytes(m, n)) = Len(s) + n
BY BytesSeq, ConcatProperties

LEMMA Copied ==
  ASSUME NEW s \in Seq(Byte), NEW m \in Msgs, NEW n \in Nat
  PROVE  /\ \A i \in 1..Len(s) : (s \o Bytes(m, n))[i] = s[i]
         /\ \A i \in Len(s)+1..Len(s)+n :
              (s \o Bytes(m, n))[i] = [msg |-> m, at |-> i - Len(s)]
<1> DEFINE b == Bytes(m, n)
           t == s \o b
<1>1. Len(s) \in Nat /\ Len(b) = n /\ \A j \in 1..n : b[j] = [msg |-> m, at |-> j]
  BY BytesSeq
<1>2. \A i \in 1..Len(s)+Len(b) : t[i] = IF i <= Len(s) THEN s[i] ELSE b[i - Len(s)]
  BY BytesSeq, ConcatProperties
<1> HIDE DEF b, t
<1>3. \A i \in 1..Len(s) : t[i] = s[i]
  BY <1>1, <1>2
<1>4. ASSUME NEW i \in Len(s)+1..Len(s)+n PROVE t[i] = [msg |-> m, at |-> i - Len(s)]
  <2>1. i \in 1..Len(s)+Len(b) /\ ~(i <= Len(s)) /\ i - Len(s) \in 1..n
    BY <1>1
  <2> QED BY <1>1, <1>2, <2>1
<1> QED
  BY <1>3, <1>4 DEF t, b

\* What is left when the first n bytes have been taken.
LEMMA Taken ==
  ASSUME NEW s \in Seq(Byte), NEW n \in 0..Len(s)
  PROVE  /\ SubSeq(s, n + 1, Len(s)) \in Seq(Byte)
         /\ Len(SubSeq(s, n + 1, Len(s))) = Len(s) - n
         /\ \A i \in 1..Len(s)-n : SubSeq(s, n + 1, Len(s))[i] = s[i + n]
<1>1. Len(s) \in Nat
  OBVIOUS
<1>2. \A i \in n+1..Len(s) : s[i] \in Byte
  BY <1>1
<1>3. n + 1 \in Int /\ Len(s) \in Int
  BY <1>1
<1> DEFINE t == SubSeq(s, n + 1, Len(s))
<1>4. /\ t \in Seq(Byte)
      /\ Len(t) = IF n + 1 <= Len(s) THEN Len(s) - (n + 1) + 1 ELSE 0
      /\ \A i \in 1..Len(s)-(n+1)+1 : t[i] = s[n + 1 + i - 1]
  BY <1>2, <1>3, SubSeqProperties
<1> HIDE DEF t
<1>5. /\ Len(t) = Len(s) - n
      /\ \A i \in 1..Len(s)-n : t[i] = s[i + n]
  BY <1>1, <1>4
<1> QED
  BY <1>4, <1>5 DEF t
----------------------------------------------------------------------------
\* Besides the queue.
FlagsTyped == room \in BOOLEAN /\ junk \in BOOLEAN /\ raced \in BOOLEAN
WaitsTyped == /\ wait \in {"test", "flag", "asleep"}
              /\ asked \in BOOLEAN /\ pending \in BOOLEAN
              /\ looping \in BOOLEAN /\ late \in BOOLEAN
OthersTyped ==
  /\ unsent \subseteq Msgs /\ mach \in Seq(Msgs) /\ delivered \in Seq(Msgs)
  /\ dps \in DpsMsgs \cup {None} /\ srv \in Msgs \cup {None} /\ hdr \in Msgs \cup {None}
  /\ detoured \subseteq DpsMsgs /\ dropped \subseteq Complex
  /\ room => srv # None

LEMMA BytesTyped ==
  ASSUME NEW s \in Seq(Byte)
  PROVE  /\ Len(s) \in Nat /\ DOMAIN s = 1..Len(s)
         /\ \A i \in 1..Len(s) : s[i].msg \in Msgs /\ s[i].at \in Nat \ {0}
<1>1. Len(s) \in Nat /\ DOMAIN s = 1..Len(s)
  BY LenProperties
<1>2. ASSUME NEW i \in 1..Len(s) PROVE s[i].msg \in Msgs /\ s[i].at \in Nat \ {0}
  <2>1. s[i] \in Byte
    BY ElementOfSeq
  <2> QED BY <2>1 DEF Byte
<1> QED BY <1>1, <1>2

LEMMA TypedParts ==
  /\ Typed <=> FlagsTyped /\ WaitsTyped /\ OthersTyped /\ q \in Seq(Byte)
  /\ Typed' <=> FlagsTyped' /\ WaitsTyped' /\ OthersTyped' /\ q' \in Seq(Byte)
<1>1. Typed <=> FlagsTyped /\ WaitsTyped /\ OthersTyped /\ q \in Seq(Byte)
  <2>1. {asked, pending, looping, late} \subseteq BOOLEAN
          <=> asked \in BOOLEAN /\ pending \in BOOLEAN /\ looping \in BOOLEAN /\ late \in BOOLEAN
    BY Zenon
  <2> QED BY <2>1, BytesTyped, Zenon DEF Typed, TypeOK, FlagsTyped, WaitsTyped, OthersTyped
<1>2. Typed' <=> FlagsTyped' /\ WaitsTyped' /\ OthersTyped' /\ q' \in Seq(Byte)
  <2>1. {asked, pending, looping, late}' \subseteq BOOLEAN
          <=> asked' \in BOOLEAN /\ pending' \in BOOLEAN /\ looping' \in BOOLEAN /\ late' \in BOOLEAN
    BY Zenon
  <2> QED BY <2>1, BytesTyped, Zenon DEF Typed, TypeOK, FlagsTyped, WaitsTyped, OthersTyped
<1> QED BY <1>1, <1>2

LEMMA InitTyped == Init => Typed
<1>1. Init => OthersTyped
  BY Constants DEF Init, OthersTyped
<1>2. Init => q \in Seq(Byte)
  BY DEF Init
<1>3. Init => FlagsTyped /\ WaitsTyped
  BY Zenon DEF Init, FlagsTyped, WaitsTyped
<1> QED
  BY <1>1, <1>2, <1>3, TypedParts

\* The steps of the waiting that move no message.
WaitStep == ServerFull \/ ServerFlag \/ ReplyClears \/ MessagesIdle \/ OtherInterrupt

LEMMA WaitStepMovesNothing ==
  WaitStep \/ UNCHANGED vars => UNCHANGED <<unsent, mach, q, dps, srv, room, hdr, junk, delivered, hist>>
BY DEF WaitStep, ServerFull, ServerFlag, ReplyClears, MessagesIdle, OtherInterrupt, vars

LEMMA Steps ==
  [Next]_vars <=> \/ MachSend \/ NDmsg_send \/ NDmsg_copy \/ ServerReceive \/ ServerDrop
                  \/ ServerRoom \/ ServerCopy \/ MessagesHeader \/ MessagesBody
                  \/ WaitStep \/ UNCHANGED vars
BY Zenon DEF Next, Driver, Server, Board, WaitStep

LEMMA FlagsStep == FlagsTyped /\ [Next]_vars => FlagsTyped'
<1>1. WaitStep \/ UNCHANGED vars => UNCHANGED <<room, junk, raced>>
  BY WaitStepMovesNothing DEF hist
<1> QED
  BY <1>1, Steps, Zenon DEF FlagsTyped, hist, MachSend, NDmsg_send, NDmsg_copy, ServerReceive,
     ServerDrop, ServerRoom, ServerCopy, MessagesHeader, MessagesBody

LEMMA WaitsStep == WaitsTyped /\ [Next]_vars => WaitsTyped'
<1> SUFFICES ASSUME WaitsTyped, [Next]_vars PROVE WaitsTyped'
  OBVIOUS
<1>1. CASE MachSend \/ NDmsg_send \/ NDmsg_copy \/ ServerReceive \/ ServerDrop
           \/ ServerCopy \/ MessagesBody \/ UNCHANGED vars
  <2>1. UNCHANGED wakes
    BY <1>1, Zenon DEF MachSend, NDmsg_send, NDmsg_copy, ServerReceive, ServerDrop,
       ServerCopy, MessagesBody, vars
  <2> QED BY <2>1 DEF wakes, WaitsTyped
<1>2. CASE ServerRoom \/ MessagesHeader
  BY <1>2, Zenon DEF WaitsTyped, ServerRoom, MessagesHeader
<1>3. CASE ServerFull
  BY <1>3, Zenon DEF WaitsTyped, ServerFull
<1>4. CASE ServerFlag
  BY <1>4, Zenon DEF WaitsTyped, ServerFlag
<1>5. CASE ReplyClears
  BY <1>5, Zenon DEF WaitsTyped, ReplyClears
<1>6. CASE MessagesIdle \/ OtherInterrupt
  <2>1. ND_intr \/ UNCHANGED <<wait, pending>>
    BY <1>6, Zenon DEF MessagesIdle, OtherInterrupt
  <2>2. wait' \in {"test", "flag", "asleep"} /\ pending' \in BOOLEAN
    BY <2>1, Zenon DEF WaitsTyped, ND_intr
  <2>3. UNCHANGED <<asked, late>> /\ (looping' = FALSE \/ UNCHANGED looping)
    BY <1>6, Zenon DEF MessagesIdle, OtherInterrupt
  <2> QED BY <2>2, <2>3, Zenon DEF WaitsTyped
<1> QED
  BY <1>1, <1>2, <1>3, <1>4, <1>5, <1>6, Steps DEF WaitStep

\* Every variable keeps its type, and the queue holds bytes of messages.
LEMMA TypedStep == Typed /\ [Next]_vars => Typed'
<1> SUFFICES ASSUME FlagsTyped, OthersTyped, q \in Seq(Byte), [Next]_vars
             PROVE  OthersTyped' /\ q' \in Seq(Byte)
  BY TypedParts, FlagsStep, WaitsStep
<1> USE Constants DEF OthersTyped, hist
<1>1. CASE WaitStep \/ UNCHANGED vars
  <2>1. UNCHANGED <<unsent, mach, q, dps, srv, room, hdr, delivered>> /\ UNCHANGED <<detoured, dropped>>
    BY <1>1, WaitStepMovesNothing
  <2> QED BY <2>1
<1>0. CASE ServerDrop
  <2>1. mach' \in Seq(Msgs)
    BY <1>0, HeadTailProperties DEF ServerDrop
  <2>2. dropped' \subseteq Complex
    BY <1>0 DEF ServerDrop
  <2>3. UNCHANGED <<unsent, q, dps, srv, room, hdr, junk, delivered, raced, detoured>>
    BY <1>0 DEF ServerDrop
  <2> QED BY <2>1, <2>2, <2>3
<1>2. CASE MachSend
  BY <1>2, SMTT(30) DEF MachSend
<1>3. CASE NDmsg_send
  <2> PICK m \in DpsMsgs : /\ unsent' = unsent \ {m}
                           /\ \/ /\ mach' = Append(mach, m) /\ UNCHANGED dps
                                 /\ detoured' = detoured \cup {m}
                              \/ dps' = m /\ UNCHANGED <<mach, detoured>>
    BY <1>3 DEF NDmsg_send
  <2>1. UNCHANGED <<q, srv, room, hdr, junk, delivered, dropped>>
    BY <1>3 DEF NDmsg_send
  <2>2. m \in Msgs /\ Append(mach, m) \in Seq(Msgs)
    BY AppendProperties
  <2>3. mach' \in Seq(Msgs) /\ dps' \in DpsMsgs \cup {None} /\ detoured' \subseteq DpsMsgs
    BY <2>2
  <2> QED BY <2>1, <2>3
<1>4. CASE NDmsg_copy
  BY <1>4, CopiedLength DEF NDmsg_copy
<1>5. CASE ServerReceive
  BY <1>5 DEF ServerReceive
<1>6. CASE ServerRoom
  BY <1>6 DEF ServerRoom
<1>7. CASE ServerCopy
  BY <1>7, CopiedLength DEF ServerCopy
<1>8. CASE MessagesHeader
  <2>1. HDR \in 0..Len(q) /\ 1 \in 1..Len(q)
    BY <1>8, BytesTyped DEF MessagesHeader
  <2>2. q' \in Seq(Byte)
    BY <1>8, <2>1, Taken DEF MessagesHeader
  <2>3. hdr' \in Msgs \cup {None}
    BY <1>8, <2>1, BytesTyped DEF MessagesHeader
  <2> QED BY <1>8, <2>2, <2>3 DEF MessagesHeader
<1>9. CASE MessagesBody
  <2>1. Body(hdr) \in 0..Len(q)
    BY <1>9, BytesTyped DEF MessagesBody
  <2>2. q' \in Seq(Byte)
    BY <1>9, <2>1, Taken DEF MessagesBody
  <2>3. hdr \in Msgs /\ delivered' \in Seq(Msgs)
    BY <1>9, AppendProperties DEF MessagesBody
  <2> QED BY <1>9, <2>2, <2>3 DEF MessagesBody
<1> QED
  BY <1>0, <1>1, <1>2, <1>3, <1>4, <1>5, <1>6, <1>7, <1>8, <1>9, Steps
----------------------------------------------------------------------------
\* A producer that found room alone still has it when it copies.
LEMMA RoomStep == Typed /\ RoomKept /\ [Next]_vars => RoomKept'
<1> SUFFICES ASSUME FlagsTyped, OthersTyped, q \in Seq(Byte), RoomKept, [Next]_vars,
                    ~raced'
             PROVE  /\ Len(q') < MSGBUF_SIZE
                    /\ dps' # None => Len(q') + Size[dps'] < MSGBUF_SIZE
                    /\ room' => Len(q') + Rounded(srv') < MSGBUF_SIZE
                    /\ ~(room' /\ dps' # None)
  BY TypedParts DEF RoomKept, Rounded
<1> USE Constants DEF OthersTyped, hist
<1>01. Len(q) \in Nat
  BY BytesTyped
<1>02. ~raced
  <2>1. WaitStep \/ UNCHANGED vars => UNCHANGED raced
    BY WaitStepMovesNothing DEF hist
  <2> QED BY <2>1, Steps, Zenon DEF hist, MachSend, NDmsg_send, NDmsg_copy, ServerReceive,
             ServerDrop, ServerRoom, ServerCopy, MessagesHeader, MessagesBody
<1>0. Len(q) \in Nat /\ ~raced
  BY <1>01, <1>02
<1> USE <1>0 DEF RoomKept
<1>1. CASE ServerDrop \/ WaitStep \/ UNCHANGED vars
  <2>1. UNCHANGED <<q, dps, srv, room>>
    BY <1>1, WaitStepMovesNothing DEF ServerDrop
  <2> QED BY <2>1
<1>2. CASE MachSend
  BY <1>2 DEF MachSend
<1>3. CASE NDmsg_send
  <2> PICK m \in DpsMsgs : \/ UNCHANGED dps
                           \/ /\ ~(Size[m] >= MSGBUF_SIZE - Len(q))
                              /\ dps' = m /\ ~room
    BY <1>3, Zenon DEF NDmsg_send, Full
  <2>1. UNCHANGED <<q, room, srv>>
    BY <1>3 DEF NDmsg_send
  <2> QED BY <2>1
<1>4. CASE NDmsg_copy
  <2>1. dps \in Msgs /\ Size[dps] \in Nat
    BY <1>4 DEF NDmsg_copy
  <2>2. Len(q \o Bytes(dps, Size[dps])) = Len(q) + Size[dps]
    BY <2>1, CopiedLength
  <2>3. Len(q') = Len(q) + Size[dps]
    BY <1>4, <2>2 DEF NDmsg_copy
  <2> QED BY <1>4, <2>1, <2>3 DEF NDmsg_copy
<1>5. CASE ServerReceive
  BY <1>5 DEF ServerReceive
<1>6. CASE ServerRoom
  <2>1. ~(Rounded(srv) >= MSGBUF_SIZE - Len(q)) /\ srv \in Msgs /\ dps = None
    BY <1>6, Zenon DEF ServerRoom, Full
  <2>2. UNCHANGED <<q, dps, srv>>
    BY <1>6 DEF ServerRoom
  <2> QED BY <2>1, <2>2
<1>7. CASE ServerCopy
  <2>1. srv \in Msgs /\ Rounded(srv) \in Nat
    BY <1>7 DEF ServerCopy
  <2>2. Len(q \o Bytes(srv, Rounded(srv))) = Len(q) + Rounded(srv)
    BY <2>1, CopiedLength
  <2>3. Len(q') = Len(q) + Rounded(srv)
    BY <1>7, <2>2 DEF ServerCopy
  <2> QED BY <1>7, <2>1, <2>3 DEF ServerCopy
<1>8. CASE MessagesHeader
  <2>1. HDR \in 0..Len(q)
    BY <1>8 DEF MessagesHeader
  <2>2. Len(q') = Len(q) - HDR
    BY <1>8, <2>1, Taken DEF MessagesHeader
  <2> QED BY <1>8, <2>2, SMTT(30) DEF MessagesHeader
<1>9. CASE MessagesBody
  <2>1. Body(hdr) \in 0..Len(q)
    BY <1>9 DEF MessagesBody
  <2>2. Len(q') = Len(q) - Body(hdr)
    BY <1>9, <2>1, Taken DEF MessagesBody
  <2>3. UNCHANGED <<dps, srv, room>> /\ (dps # None => Size[dps] \in Nat)
    BY <1>9 DEF MessagesBody
  <2>4. Len(q') \in Nat /\ Len(q') <= Len(q)
    BY <2>1, <2>2
  <2>5. room => srv \in Msgs /\ Rounded(srv) \in Nat
    OBVIOUS
  <2> QED BY <2>3, <2>4, <2>5, SMTT(30)
<1> QED
  BY <1>1, <1>2, <1>3, <1>4, <1>5, <1>6, <1>7, <1>8, <1>9, Steps

\* The ring is overrun only when both producers had found room before either
\* copied: whatever the messages, their lengths and the size of the ring.
THEOREM NoOverrunAloneCorrect == Spec => []NoOverrunAlone
<1>1. Init => Typed /\ RoomKept
  <2>1. Init => Len(q) = 0 /\ dps = None /\ ~room
    BY DEF Init
  <2> QED BY <2>1, InitTyped, Constants DEF RoomKept
<1>2. Typed /\ RoomKept /\ [Next]_vars => (Typed /\ RoomKept)'
  BY TypedStep, RoomStep
<1>3. Typed /\ RoomKept => NoOverrunAlone
  BY BytesTyped, Constants DEF Typed, RoomKept, NoOverrunAlone, Overrun
<1> QED
  BY <1>1, <1>2, <1>3, PTL DEF Spec
----------------------------------------------------------------------------
LEMMA RestTyped == Typed => Rest \in Nat /\ (hdr # None => hdr \in Msgs)
BY Constants, TypedParts DEF OthersTyped, Rest

LEMMA QueuedByte ==
  ASSUME Typed, NEW i \in 1..Len(q)
  PROVE  /\ q[i].at \in Nat \ {0} /\ q[i].msg \in Msgs
         /\ Size[q[i].msg] \in Nat \ {0} /\ HDR <= Size[q[i].msg] /\ Base(i) \in Int
<1>1. q[i].at \in Nat \ {0} /\ q[i].msg \in Msgs
  BY TypedParts, BytesTyped
<1>2. Size[q[i].msg] \in Nat \ {0} /\ HDR <= Size[q[i].msg]
  BY <1>1, Constants
<1> QED BY <1>1, <1>2 DEF Base

\* A producer adds a whole message behind whole messages.
LEMMA FramedCopy ==
  ASSUME Typed, Framed, NEW m \in Msgs, q' = q \o Bytes(m, Size[m]), UNCHANGED <<hdr, junk>>
  PROVE  Framed'
<1> DEFINE n == Len(q)
           z == Size[m]
<1>1. q \in Seq(Byte) /\ n \in Nat /\ z \in Nat \ {0}
  BY TypedParts, BytesTyped, Constants
<1>2. Len(q') = n + z
  BY <1>1, CopiedLength
<1>3. \A i \in 1..n : q'[i] = q[i]
  BY <1>1, Copied
<1>4. \A i \in n+1..n+z : q'[i] = [msg |-> m, at |-> i - n]
  BY <1>1, Copied
<1>5. Rest' = Rest /\ Rest \in Nat /\ Rest <= n
  BY RestTyped DEF Rest, Framed, RestLeads
<1>6. RestLeads'
  BY <1>1, <1>2, <1>3, <1>5 DEF Framed, RestLeads
<1> HIDE DEF n
<1>7. ASSUME NEW i \in Rest+1..Len(q') PROVE Whole(i)'
  <2>1. CASE i <= n
    <3>1. i \in 1..n /\ i \in Rest+1..n
      BY <1>1, <1>5, <2>1
    <3>2. Whole(i) /\ q'[i] = q[i] /\ Base(i)' = Base(i)
      BY <1>3, <3>1 DEF Framed, WholeMessages, Base, n
    <3>3. Base(i) \in Int /\ Size[q[i].msg] \in Nat
      BY <3>1, QueuedByte DEF n
    <3>4. \A k \in Base(i)+1..Base(i)+Size[q[i].msg] : k \in 1..n
      BY <1>1, <1>5, <3>2, <3>3 DEF Whole, n
    <3>5. \A k \in Base(i)+1..Base(i)+Size[q[i].msg] :
            q'[k] = [msg |-> q[i].msg, at |-> k - Base(i)]
      BY <1>3, <3>2, <3>4 DEF Whole
    <3>6. Base(i) + Size[q[i].msg] <= Len(q')
      BY <1>1, <1>2, <3>2, <3>3 DEF Whole, n
    <3> QED BY <1>5, <3>2, <3>5, <3>6 DEF Whole
  <2>2. CASE i > n
    <3>1. i \in n+1..n+z
      BY <1>1, <1>2, <1>5, <2>2
    <3>0. q'[i] = [msg |-> m, at |-> i - n]
      BY <1>4, <3>1
    <3>2. q'[i].msg = m /\ q'[i].at = i - n
      BY <3>0
    <3>3. Base(i)' = n
      BY <1>1, <3>1, <3>2 DEF Base
    <3> QED BY <1>1, <1>2, <1>4, <1>5, <3>1, <3>2, <3>3 DEF Whole
  <2> QED BY <1>1, <1>2, <1>5, <2>1, <2>2
<1>8. Abut'
  <2>1. ASSUME NEW k \in Int, k = n + 1 PROVE q'[k].at = 1
    <3>1. k \in n+1..n+z /\ k - n = 1
      BY <1>1, <2>1
    <3>2. q'[k] = [msg |-> m, at |-> k - n]
      BY <1>4, <3>1
    <3> QED BY <3>1, <3>2
  <2>2. q'[n + 1].at = 1
    <3>1. n + 1 \in Int
      BY <1>1
    <3> QED BY <2>1, <3>1
  <2>3. Rest' < Len(q') => q'[Rest' + 1].at = 1
    <3>1. Rest < n => q[Rest + 1].at = 1
      BY DEF Framed, Abut, n
    <3>2. ASSUME NEW k \in Int, k = Rest + 1, Rest < n PROVE q'[k] = q[k]
      <4>1. k \in 1..n
        BY <1>1, <1>5, <3>2
      <4> QED BY <1>3, <4>1
    <3>4. Rest + 1 \in Int
      BY <1>5
    <3>3. ~(Rest < n) => Rest = n
      BY <1>1, <1>5
    <3> QED BY <1>5, <2>2, <3>1, <3>2, <3>3, <3>4
  <2>4. ASSUME NEW i \in Rest+1..Len(q')-1, q'[i].at = Size[q'[i].msg] PROVE q'[i + 1].at = 1
    <3>1. CASE i < n
      BY <1>1, <1>3, <1>5, <2>4, <3>1 DEF Framed, Abut, n
    <3>2. CASE i = n
      BY <2>2, <3>2
    <3>3. CASE i > n
      <4>1. i \in n+1..n+z /\ i < n + z
        BY <1>1, <1>2, <1>5, <3>3
      <4>3. q'[i] = [msg |-> m, at |-> i - n]
        BY <1>4, <4>1
      <4>4. q'[i].msg = m /\ q'[i].at = i - n
        BY <4>3
      <4> QED BY <1>1, <2>4, <4>1, <4>4
    <3> QED BY <1>1, <1>2, <1>5, <3>1, <3>2, <3>3
  <2> QED BY <1>5, <2>3, <2>4 DEF Abut
<1> QED
  BY <1>5, <1>6, <1>7, <1>8 DEF Framed, WholeMessages

\* The messages of two bytes are the same stretch of the queue, or apart.
LEMMA BlocksApart ==
  ASSUME Typed, Framed, NEW i \in Rest+1..Len(q), NEW h \in Rest+1..Len(q), Base(i) < Base(h)
  PROVE  Base(i) + Size[q[i].msg] <= Base(h)
<1>1. Len(q) \in Nat /\ Rest \in Nat
  BY TypedParts, BytesTyped, RestTyped
<1>2. i \in 1..Len(q) /\ h \in 1..Len(q)
  BY <1>1
<1>3. /\ Size[q[i].msg] \in Nat \ {0} /\ Base(i) \in Int
      /\ Size[q[h].msg] \in Nat \ {0} /\ Base(h) \in Int
  BY <1>2, QueuedByte
<1>4. Whole(i) /\ Whole(h)
  BY DEF Framed, WholeMessages
<1> SUFFICES ASSUME Base(h) < Base(i) + Size[q[i].msg]
             PROVE  FALSE
  BY <1>3
<1> DEFINE k == Base(h) + 1
<1>5. k \in Base(i)+1..Base(i)+Size[q[i].msg]
  BY <1>3
<1>6. k \in Base(h)+1..Base(h)+Size[q[h].msg]
  BY <1>3
<1>7. q[k] = [msg |-> q[i].msg, at |-> k - Base(i)]
  BY <1>4, <1>5 DEF Whole
<1>8. q[k] = [msg |-> q[h].msg, at |-> k - Base(h)]
  BY <1>4, <1>6 DEF Whole
<1>9. k - Base(i) = k - Base(h)
  BY <1>7, <1>8
<1> QED
  BY <1>3, <1>9

\* What Messages() takes for a header is one, and leaves whole messages.
LEMMA FramedHeader ==
  ASSUME Typed, Framed, MessagesHeader
  PROVE  /\ Framed' /\ hdr' = q[1].msg /\ hdr' \in Msgs
         /\ \A i \in Rest'+1..Len(q') : /\ i + HDR \in Rest+1..Len(q) /\ q'[i] = q[i + HDR]
                                      /\ Base(i)' = Base(i + HDR) - HDR
                                      /\ Base(1) < Base(i + HDR)
         /\ 1 \in Rest+1..Len(q) /\ Len(q') = Len(q) - HDR
<1> DEFINE n == Len(q)
           m == q[1].msg
           z == Size[m]
<1>1. /\ q \in Seq(Byte) /\ n \in Nat /\ HDR \in Nat \ {0} /\ HDR <= n
      /\ hdr = None /\ ~junk /\ Rest = 0
  BY TypedParts, BytesTyped, Constants DEF MessagesHeader, Rest
<1>2. 1 \in Rest+1..n /\ 1 \in 1..n
  BY <1>1
<1>3. m \in Msgs /\ m # None /\ z \in Nat \ {0} /\ HDR <= z
  BY <1>2, QueuedByte, Constants
<1>4. Base(1) = 0
  BY <1>1, <1>2 DEF Framed, Abut, Base
<1>5. z <= n /\ \A k \in 1..z : q[k] = [msg |-> m, at |-> k]
  <2>1. Whole(1)
    BY <1>2 DEF Framed, WholeMessages
  <2>2. \A k \in 0+1..0+z : q[k] = [msg |-> m, at |-> k - 0]
    BY <1>4, <2>1 DEF Whole
  <2> QED BY <1>3, <1>4, <2>1, <2>2 DEF Whole
<1>6. SubSeq(q, 1, HDR) = Bytes(m, HDR)
  <2>1. \A k \in 1..HDR : q[k] \in Byte /\ q[k] = [msg |-> m, at |-> k]
    BY <1>1, <1>3, <1>5, ElementOfSeq
  <2>2. /\ SubSeq(q, 1, HDR) \in Seq(Byte) /\ Len(SubSeq(q, 1, HDR)) = HDR
        /\ \A k \in 1..HDR : SubSeq(q, 1, HDR)[k] = q[k]
    <3>1. /\ SubSeq(q, 1, HDR) \in Seq(Byte)
          /\ Len(SubSeq(q, 1, HDR)) = IF 1 <= HDR THEN HDR - 1 + 1 ELSE 0
          /\ \A k \in 1..HDR-1+1 : SubSeq(q, 1, HDR)[k] = q[1 + k - 1]
      BY <1>1, <2>1, SubSeqProperties
    <3> QED BY <1>1, <3>1
  <2>3. /\ Bytes(m, HDR) \in Seq(Byte) /\ Len(Bytes(m, HDR)) = HDR
        /\ \A k \in 1..HDR : Bytes(m, HDR)[k] = [msg |-> m, at |-> k]
    BY <1>1, <1>3, BytesSeq
  <2> QED BY <2>1, <2>2, <2>3, SeqEqual
<1>7. hdr' = m /\ junk' = junk /\ q' = SubSeq(q, HDR + 1, Len(q))
  BY <1>6 DEF MessagesHeader
<1>8. Len(q') = n - HDR /\ \A i \in 1..n-HDR : q'[i] = q[i + HDR]
  BY <1>1, <1>7, Taken
<1>9. Rest' = z - HDR
  BY <1>3, <1>7 DEF Rest, Body
<1> HIDE DEF n, m, z
<1>10. ASSUME NEW i \in Rest'+1..Len(q')
       PROVE  /\ i \in 1..n-HDR /\ i + HDR \in Rest+1..n
              /\ q'[i] = q[i + HDR] /\ Base(i)' = Base(i + HDR) - HDR
              /\ Base(1) < Base(i + HDR) /\ z <= Base(i + HDR)
  <2>1. i \in 1..n-HDR /\ i + HDR \in Rest+1..n /\ i + HDR \in 1..n /\ i + HDR > z
    BY <1>1, <1>3, <1>8, <1>9
  <2>2. q'[i] = q[i + HDR]
    BY <1>8, <2>1
  <2>3. Base(i)' = Base(i + HDR) - HDR
    <3>1. q[i + HDR].at \in Nat
      BY <2>1, QueuedByte DEF n
    <3> QED BY <1>1, <2>1, <2>2, <3>1 DEF Base
  <2>4. Base(1) < Base(i + HDR)
    <3>1. Whole(i + HDR) /\ Base(i + HDR) \in Int /\ Size[q[i + HDR].msg] \in Nat
      BY <2>1, QueuedByte DEF Framed, WholeMessages, n
    <3>2. CASE Base(i + HDR) = 0
      <4>1. 1 \in Base(i + HDR)+1..Base(i + HDR)+Size[q[i + HDR].msg]
        BY <2>1, <3>2, QueuedByte DEF n
      <4>2. q[1] = [msg |-> q[i + HDR].msg, at |-> 1 - Base(i + HDR)]
        BY <3>1, <4>1 DEF Whole
      <4>3. q[i + HDR].msg = m
        BY <4>2 DEF m
      <4> QED BY <1>1, <1>3, <2>1, <3>1, <3>2, <4>3, QueuedByte DEF Whole, Base, z, n
    <3> QED BY <1>1, <1>4, <3>1, <3>2 DEF Whole
  <2>5. z <= Base(i + HDR)
    <3>1. Base(1) + Size[q[1].msg] <= Base(i + HDR)
      BY <1>2, <2>1, <2>4, BlocksApart DEF n
    <3> QED BY <1>3, <1>4, <3>1 DEF z, m
  <2> QED BY <2>1, <2>2, <2>3, <2>4, <2>5
<1>11. RestLeads'
  <2>1. Rest' <= Len(q')
    BY <1>1, <1>3, <1>5, <1>8, <1>9 DEF n, z
  <2>2. ASSUME NEW j \in 1..Rest' PROVE q'[j] = [msg |-> hdr', at |-> HDR + j]
    <3>1. j \in 1..n-HDR /\ j + HDR \in 1..z /\ j + HDR = HDR + j
      BY <1>1, <1>3, <1>5, <1>9, <2>2 DEF n, z, m
    <3>2. q'[j] = q[j + HDR]
      BY <1>8, <3>1
    <3>3. q[j + HDR] = [msg |-> m, at |-> j + HDR]
      BY <1>5, <3>1 DEF z, m
    <3> QED BY <1>7, <3>1, <3>2, <3>3
  <2> QED BY <2>1, <2>2 DEF RestLeads
<1>12. ASSUME NEW i \in Rest'+1..Len(q') PROVE Whole(i)'
  <2> DEFINE h == i + HDR
  <2>1. /\ q'[i] = q[h] /\ Base(i)' = Base(h) - HDR /\ z <= Base(h)
        /\ h \in Rest+1..n /\ h \in 1..n
    BY <1>1, <1>10
  <2>2. Whole(h) /\ Base(h) \in Int /\ Size[q[h].msg] \in Nat
    BY <2>1, QueuedByte DEF Framed, WholeMessages, n
  <2> HIDE DEF h
  <2>3. Rest' <= Base(i)' /\ Base(i)' + Size[q[h].msg] <= Len(q')
    BY <1>1, <1>3, <1>8, <1>9, <2>1, <2>2 DEF Whole, n
  <2>4. ASSUME NEW k \in Base(i)'+1..Base(i)'+Size[q[h].msg]
        PROVE  q'[k] = [msg |-> q[h].msg, at |-> k - Base(i)']
    <3> DEFINE b == Base(h)
               c == Size[q[h].msg]
               d == Base(i)'
    <3>0. b \in Int /\ c \in Nat /\ d = b - HDR /\ z <= b /\ b + c <= n /\ k \in d+1..d+c
      BY <2>1, <2>2, <2>4 DEF Whole, n
    <3> HIDE DEF b, c, d
    <3>01. k \in 1..n-HDR /\ k + HDR \in b+1..b+c
      BY <1>1, <1>3, <3>0
    <3>1. k \in 1..n-HDR /\ k + HDR \in Base(h)+1..Base(h)+Size[q[h].msg]
      BY <3>01 DEF b, c
    <3>2. q'[k] = q[k + HDR]
      BY <1>8, <3>1
    <3>3. q[k + HDR] = [msg |-> q[h].msg, at |-> (k + HDR) - Base(h)]
      BY <2>2, <3>1 DEF Whole
    <3>4. (k + HDR) - Base(h) = k - Base(i)'
      BY <1>1, <2>1, <2>2
    <3> QED BY <3>2, <3>3, <3>4
  <2> QED BY <2>1, <2>2, <2>3, <2>4 DEF Whole
<1>13. Abut'
  <2>0. \A h \in Rest+1..n-1 : q[h].at = Size[q[h].msg] => q[h + 1].at = 1
    BY DEF Framed, Abut, n
  <2>1. Rest' < Len(q') => q'[Rest' + 1].at = 1
    <3> SUFFICES ASSUME Rest' < Len(q') PROVE q'[Rest' + 1].at = 1
      OBVIOUS
    <3>1. z \in Rest+1..n-1 /\ Rest' + 1 \in 1..n-HDR /\ (Rest' + 1) + HDR = z + 1
      BY <1>1, <1>3, <1>8, <1>9
    <3>2. z \in 1..z
      BY <1>3
    <3>3. q[z] = [msg |-> m, at |-> z]
      BY <1>5, <3>2 DEF z, m
    <3>4. q[z + 1].at = 1
      BY <2>0, <3>1, <3>3 DEF z
    <3>5. q'[Rest' + 1] = q[(Rest' + 1) + HDR]
      BY <1>8, <3>1
    <3> QED BY <3>1, <3>4, <3>5
  <2>2. ASSUME NEW i \in Rest'+1..Len(q')-1, q'[i].at = Size[q'[i].msg] PROVE q'[i + 1].at = 1
    <3>1. /\ i \in Rest'+1..Len(q') /\ i + HDR \in Rest+1..n-1
          /\ i + 1 \in 1..n-HDR /\ (i + 1) + HDR = (i + HDR) + 1
      BY <1>1, <1>3, <1>8, <1>9, <2>2
    <3>2. q'[i] = q[i + HDR] /\ q'[i + 1] = q[(i + 1) + HDR]
      BY <1>8, <1>10, <3>1
    <3> QED BY <2>0, <2>2, <3>1, <3>2
  <2> QED BY <2>1, <2>2 DEF Abut
<1> QED
  BY <1>1, <1>2, <1>3, <1>7, <1>8, <1>10, <1>11, <1>12, <1>13 DEF Framed, WholeMessages, m, n

\* Taking the rest of a message leaves whole messages, none of them begun.
LEMMA FramedBody ==
  ASSUME Typed, Framed, MessagesBody
  PROVE  /\ Framed' /\ Rest' = 0 /\ hdr \in Msgs /\ hdr' = None
         /\ \A i \in 1..Len(q') : /\ i + Rest \in Rest+1..Len(q) /\ q'[i] = q[i + Rest]
                                /\ Base(i)' = Base(i + Rest) - Rest
         /\ Len(q') = Len(q) - Rest
<1> DEFINE n == Len(q)
           r == Rest
<1>1. /\ q \in Seq(Byte) /\ n \in Nat /\ r \in 0..n /\ hdr \in Msgs /\ ~junk
      /\ r = Body(hdr) /\ hdr' = None /\ junk' = junk /\ Rest' = 0
  BY TypedParts, BytesTyped, RestTyped DEF MessagesBody, Rest, Framed
<1>2. q' = SubSeq(q, r + 1, Len(q))
  BY <1>1 DEF MessagesBody
<1>3. Len(q') = n - r /\ \A i \in 1..n-r : q'[i] = q[i + r]
  BY <1>1, <1>2, Taken
<1> HIDE DEF n, r
<1>4. ASSUME NEW i \in 1..Len(q')
      PROVE  i + r \in r+1..n /\ i + r \in 1..n /\ q'[i] = q[i + r] /\ Base(i)' = Base(i + r) - r
  <2>1. i \in 1..n-r /\ i + r \in r+1..n /\ i + r \in 1..n /\ r \in Nat
    BY <1>1, <1>3
  <2>2. q'[i] = q[i + r]
    BY <1>3, <2>1
  <2>3. q[i + r].at \in Nat
    BY <2>1, QueuedByte DEF n
  <2> QED BY <2>1, <2>2, <2>3 DEF Base
<1>5. ASSUME NEW i \in Rest'+1..Len(q') PROVE Whole(i)'
  <2> DEFINE h == i + r
  <2>1. /\ q'[i] = q[h] /\ Base(i)' = Base(h) - r
        /\ h \in r+1..n /\ h \in 1..n
    BY <1>1, <1>4
  <2>2. Whole(h) /\ Base(h) \in Int /\ Size[q[h].msg] \in Nat
    BY <2>1, QueuedByte DEF Framed, WholeMessages, n, r
  <2> HIDE DEF h
  <2> DEFINE b == Base(h)
             c == Size[q[h].msg]
             d == Base(i)'
  <2>3. b \in Int /\ c \in Nat /\ d = b - r /\ r <= b /\ b + c <= n
    BY <2>1, <2>2 DEF Whole, n, r
  <2>4. ASSUME NEW k \in d+1..d+c
        PROVE  q'[k] = [msg |-> q[h].msg, at |-> k - d]
    <3> HIDE DEF b, c, d
    <3>0. k \in Int /\ d + 1 <= k /\ k <= d + c /\ r \in Nat /\ n \in Nat /\ r <= n
      BY <1>1, <2>3, <2>4
    <3>1. k \in 1..n-r /\ k + r \in b+1..b+c /\ (k + r) - b = k - d
      BY <2>3, <3>0
    <3>2. q'[k] = q[k + r]
      BY <1>3, <3>1
    <3>3. q[k + r] = [msg |-> q[h].msg, at |-> (k + r) - b]
      BY <2>2, <3>1 DEF Whole, b, c
    <3> QED BY <3>1, <3>2, <3>3
  <2>5. 0 <= d /\ d + c <= Len(q')
    <3> HIDE DEF b, c, d
    <3> QED BY <1>1, <1>3, <2>3
  <2> QED BY <1>1, <2>1, <2>2, <2>4, <2>5 DEF Whole
<1>6. Abut'
  <2>0. /\ r < n => q[r + 1].at = 1
        /\ \A h \in r+1..n-1 : q[h].at = Size[q[h].msg] => q[h + 1].at = 1
    BY DEF Framed, Abut, n, r
  <2>1. Rest' < Len(q') => q'[Rest' + 1].at = 1
    <3> SUFFICES ASSUME Rest' < Len(q') PROVE q'[Rest' + 1].at = 1
      OBVIOUS
    <3>1. r < n /\ Rest' + 1 \in 1..n-r /\ (Rest' + 1) + r = r + 1
      BY <1>1, <1>3
    <3>2. q'[Rest' + 1] = q[(Rest' + 1) + r]
      BY <1>3, <3>1
    <3> QED BY <2>0, <3>1, <3>2
  <2>2. ASSUME NEW i \in Rest'+1..Len(q')-1, q'[i].at = Size[q'[i].msg] PROVE q'[i + 1].at = 1
    <3>1. /\ i \in 1..n-r /\ i + r \in r+1..n-1
          /\ i + 1 \in 1..n-r /\ (i + 1) + r = (i + r) + 1
      BY <1>1, <1>3, <2>2
    <3>2. q'[i] = q[i + r] /\ q'[i + 1] = q[(i + 1) + r]
      BY <1>3, <3>1
    <3> QED BY <2>0, <2>2, <3>1, <3>2
  <2> QED BY <2>1, <2>2 DEF Abut
<1>7. RestLeads'
  BY <1>1, <1>3 DEF RestLeads
<1> QED
  BY <1>1, <1>3, <1>4, <1>5, <1>6, <1>7 DEF Framed, WholeMessages, n, r

LEMMA FramedUnchanged == Framed /\ UNCHANGED <<q, hdr, junk>> => Framed'
BY DEF Framed, RestLeads, WholeMessages, Abut, Whole, Base, Rest

\* Messages() is never off by a byte.
LEMMA FramedStep == SizesAligned /\ Typed /\ Framed /\ [Next]_vars => Framed'
<1> SUFFICES ASSUME SizesAligned, Typed, Framed, [Next]_vars PROVE Framed'
  OBVIOUS
<1>1. CASE NDmsg_copy
  <2>1. dps \in Msgs
    BY <1>1, Constants, TypedParts DEF NDmsg_copy, OthersTyped
  <2> QED BY <1>1, <2>1, FramedCopy DEF NDmsg_copy
<1>2. CASE ServerCopy
  <2>1. srv \in Msgs
    BY <1>2, TypedParts DEF ServerCopy, OthersTyped
  <2>2. q' = q \o Bytes(srv, Size[srv]) /\ UNCHANGED <<hdr, junk>>
    BY <1>2, <2>1 DEF ServerCopy, SizesAligned
  <2> QED BY <2>1, <2>2, FramedCopy
<1>3. CASE MessagesHeader
  BY <1>3, FramedHeader
<1>4. CASE MessagesBody
  BY <1>4, FramedBody
<1>5. CASE MachSend \/ NDmsg_send \/ ServerReceive \/ ServerDrop \/ ServerRoom
           \/ WaitStep \/ UNCHANGED vars
  <2>1. UNCHANGED <<q, hdr, junk>>
    BY <1>5, WaitStepMovesNothing DEF MachSend, NDmsg_send, ServerReceive, ServerDrop, ServerRoom
  <2> QED BY <2>1, FramedUnchanged
<1> QED
  BY <1>1, <1>2, <1>3, <1>4, <1>5, Steps
----------------------------------------------------------------------------
LEMMA StageAt ==
  /\ Stage[1] = {delivered[i] : i \in 1..Len(delivered)} /\ Stage[2] = {hdr} \ {None}
  /\ Stage[3] = {q[i].msg : i \in Rest+1..Len(q)} /\ Stage[4] = {dps, srv} \ {None}
  /\ Stage[5] = {mach[i] : i \in 1..Len(mach)} /\ Stage[6] = unsent
  /\ Stage'[1] = {delivered'[i] : i \in 1..Len(delivered')} /\ Stage'[2] = {hdr'} \ {None}
  /\ Stage'[3] = {q'[i].msg : i \in Rest'+1..Len(q')} /\ Stage'[4] = {dps', srv'} \ {None}
  /\ Stage'[5] = {mach'[i] : i \in 1..Len(mach')} /\ Stage'[6] = unsent'
BY DEF Stage

\* No message is at two stages.
LEMMA StagesApart ==
  ASSUME StagesInOrder, NEW k \in 1..6, NEW l \in 1..6, k # l, NEW m \in Stage[k]
  PROVE  m \notin Stage[l]
BY DEF StagesInOrder, Ahead

\* A step leaves what is under way in order.
KeepsAhead == \A k \in 1..5 : \A x \in Stage[k] : \A y : Ahead(x, y) => Ahead(x, y)'

\* One message moves from stage b to an earlier one, past no message of its way.
LEMMA Moves ==
  ASSUME StagesInOrder, NEW a \in 1..6, NEW b \in 1..6, a < b, NEW m \in Stage[b],
         \A k \in 1..6 : Stage'[k] \subseteq Stage[k] \cup {m},
         \A k \in 1..6 : k # a => Stage'[k] \subseteq Stage[k],
         KeepsAhead,
         \A k \in 1..6 : a < k => \A y \in Stage'[k] : Ahead(m, y)'
  PROVE  StagesInOrder'
<1> SUFFICES ASSUME NEW k \in 1..6, NEW l \in 1..6, k < l, NEW x \in Stage'[k], NEW y \in Stage'[l]
             PROVE  Ahead(x, y)'
  BY DEF StagesInOrder
<1> HIDE DEF Stage
<1>1. CASE x \in Stage[k] /\ y \in Stage[l]
  BY <1>1 DEF StagesInOrder, KeepsAhead
<1>2. CASE x \notin Stage[k]
  BY <1>2
<1>3. CASE x \in Stage[k] /\ y \notin Stage[l]
  <2>1. l = a /\ y = m /\ k < b /\ k \in 1..5
    BY <1>3
  <2>2. Ahead(x, y)
    BY <1>3, <2>1 DEF StagesInOrder
  <2> QED BY <1>3, <2>1, <2>2 DEF KeepsAhead
<1> QED
  BY <1>1, <1>2, <1>3

LEMMA AheadKept == UNCHANGED <<unsent, detoured>> => KeepsAhead
BY DEF Ahead, SameWay, KeepsAhead

\* Sending s, either way, leaves what is under way in order.
LEMMA AheadSent ==
  ASSUME Typed, Order, NEW s \in unsent, unsent' = unsent \ {s},
         detoured' = detoured \/ (s \in DpsMsgs /\ detoured' = detoured \cup {s})
  PROVE  KeepsAhead
<1> SUFFICES ASSUME NEW k \in 1..5, NEW x \in Stage[k], NEW y, Ahead(x, y) PROVE Ahead(x, y)'
  BY DEF KeepsAhead
<1>1. x # s
  <2>1. s \in Stage[6]
    BY StageAt
  <2> QED BY <2>1, StagesApart DEF Order
<1>2. detoured \subseteq DpsMsgs
  BY TypedParts DEF OthersTyped
<1>3. SameWay(x, y)' => SameWay(x, y)
  BY <1>1, <1>2 DEF SameWay
<1> QED
  BY <1>3 DEF Ahead

\* What does not move stays in order within its stage.
LEMMA InPlace ==
  ASSUME Order, KeepsAhead
  PROVE  /\ UNCHANGED delivered => DeliveredInOrder'
         /\ UNCHANGED mach => MachInOrder'
         /\ UNCHANGED <<q, hdr>> => QueueInOrder'
<1>1. ASSUME UNCHANGED delivered PROVE DeliveredInOrder'
  <2> SUFFICES ASSUME NEW i \in 1..Len(delivered), NEW j \in 1..Len(delivered), i < j,
                      NEW x, x = delivered[i], NEW y, y = delivered[j]
               PROVE  Ahead(x, y)'
    BY <1>1 DEF DeliveredInOrder, Ahead, SameWay
  <2>1. x \in Stage[1] /\ Ahead(x, y)
    BY StageAt DEF Order, DeliveredInOrder
  <2> QED BY <2>1 DEF KeepsAhead
<1>2. ASSUME UNCHANGED mach PROVE MachInOrder'
  <2> SUFFICES ASSUME NEW i \in 1..Len(mach), NEW j \in 1..Len(mach), i < j,
                      NEW x, x = mach[i], NEW y, y = mach[j]
               PROVE  Ahead(x, y)'
    BY <1>2 DEF MachInOrder, Ahead, SameWay
  <2>1. x \in Stage[5] /\ Ahead(x, y)
    BY StageAt DEF Order, MachInOrder
  <2> QED BY <2>1 DEF KeepsAhead
<1>3. ASSUME UNCHANGED <<q, hdr>> PROVE QueueInOrder'
  <2> SUFFICES ASSUME NEW i \in Rest+1..Len(q), NEW j \in Rest+1..Len(q), i < j, Base(i) # Base(j),
                      NEW x, x = q[i].msg, NEW y, y = q[j].msg
               PROVE  Ahead(x, y)'
    BY <1>3 DEF QueueInOrder, Ahead, SameWay, Rest, Base
  <2>1. x \in Stage[3] /\ Ahead(x, y)
    BY StageAt DEF Order, QueueInOrder
  <2> QED BY <2>1 DEF KeepsAhead
<1> QED BY <1>1, <1>2, <1>3

LEMMA MachAppended ==
  ASSUME Typed, Order, KeepsAhead, NEW s \in unsent, mach' = Append(mach, s)
  PROVE  MachInOrder' /\ Stage'[5] = Stage[5] \cup {s}
<1>0. s \in Msgs /\ mach \in Seq(Msgs)
  BY TypedParts DEF OthersTyped
<1>1. /\ Len(mach) \in Nat /\ Len(mach') = Len(mach) + 1
      /\ \A i \in 1..Len(mach) : mach'[i] = mach[i]
      /\ mach'[Len(mach) + 1] = s
  BY <1>0, AppendProperties
<1>2. MachInOrder'
  <2> SUFFICES ASSUME NEW i \in 1..Len(mach'), NEW j \in 1..Len(mach'), i < j,
                      NEW x, x = mach'[i], NEW y, y = mach'[j]
               PROVE  Ahead(x, y)'
    BY DEF MachInOrder, Ahead, SameWay
  <2>1. i \in 1..Len(mach) /\ x = mach[i] /\ x \in Stage[5]
    BY <1>1, StageAt
  <2>2. Ahead(x, y)
    <3>1. CASE j \in 1..Len(mach)
      BY <1>1, <2>1, <3>1 DEF Order, MachInOrder
    <3>2. CASE j = Len(mach) + 1
      <4>1. y = s /\ y \in Stage[6]
        BY <1>1, <3>2, StageAt
      <4> QED BY <2>1, <4>1 DEF Order, StagesInOrder
    <3> QED BY <1>1, <3>1, <3>2
  <2> QED BY <2>1, <2>2 DEF KeepsAhead
<1>3. Stage'[5] = Stage[5] \cup {s}
  <2>1. 1..Len(mach') = 1..Len(mach) \cup {Len(mach) + 1}
    BY <1>1
  <2> QED BY <1>1, <2>1, StageAt
<1> QED BY <1>2, <1>3

\* A task sends through Mach: MachSend, or NDmsg_send when the queue is full.
LEMMA OrderMach ==
  ASSUME Typed, Order, NEW s \in unsent, unsent' = unsent \ {s}, mach' = Append(mach, s),
         \/ First(s, unsent \cap MachMsgs) /\ UNCHANGED detoured
         \/ First(s, unsent \cap DpsMsgs) /\ detoured' = detoured \cup {s},
         UNCHANGED <<q, dps, srv, room, hdr, junk, delivered>>
  PROVE  Order'
<1>0. s \in Msgs /\ unsent \subseteq Msgs /\ detoured \subseteq DpsMsgs /\ MachMsgs \cap DpsMsgs = {}
      /\ MachMsgs \subseteq Nat /\ DpsMsgs \subseteq Nat /\ s \in MachMsgs \cup DpsMsgs
  BY TypedParts, Constants, ToNDAssumption DEF OthersTyped, First
<1>1. KeepsAhead
  BY AheadSent DEF First
<1>2. MachInOrder' /\ Stage'[5] = Stage[5] \cup {s}
  BY <1>1, MachAppended
<1>3. DeliveredInOrder' /\ QueueInOrder'
  BY <1>1, InPlace
<1>4. TakenApart' /\ Ways'
  <2>1. /\ Len(mach') = Len(mach) + 1 /\ Len(mach) \in Nat
        /\ \A i \in 1..Len(mach) : mach'[i] = mach[i]
        /\ mach'[Len(mach) + 1] = s
    BY <1>0, AppendProperties, TypedParts DEF OthersTyped
  <2>2. \A i \in 1..Len(mach') : mach'[i] \in MachMsgs \cup detoured'
    <3>1. \A i \in 1..Len(mach) : mach'[i] \in MachMsgs \cup detoured'
      BY <2>1 DEF Order, Ways
    <3>2. s \in MachMsgs \cup detoured'
      BY DEF First
    <3> QED BY <2>1, <3>1, <3>2
  <2>3. dps # s
    <3>1. dps # None => dps \in Stage[4]
      BY StageAt
    <3>2. s \in Stage[6] /\ s # None
      BY <1>0, StageAt, Constants
    <3> QED BY <3>1, <3>2, StagesApart DEF Order
  <2> QED BY <2>2, <2>3 DEF Order, TakenApart, Ways
<1>5. StagesInOrder'
  <2>1. s \in Stage[6]
    BY StageAt
  <2>2. Stage'[1] = Stage[1] /\ Stage'[2] = Stage[2] /\ Stage'[3] = Stage[3] /\ Stage'[4] = Stage[4]
        /\ Stage'[6] \subseteq Stage[6]
    BY StageAt DEF Rest
  <2>3. \A k \in 1..6 : k = 1 \/ k = 2 \/ k = 3 \/ k = 4 \/ k = 5 \/ k = 6
    OBVIOUS
  <2>4. ASSUME NEW y \in Stage'[6] PROVE Ahead(s, y)'
    <3>1. y \in unsent /\ y # s /\ unsent' = unsent \ {s}
      BY <2>4, StageAt
    <3>2. CASE First(s, unsent \cap MachMsgs) /\ UNCHANGED detoured
      BY <1>0, <3>1, <3>2 DEF First, Ahead, SameWay
    <3>3. CASE First(s, unsent \cap DpsMsgs) /\ detoured' = detoured \cup {s}
      BY <1>0, <3>1, <3>3 DEF First, Ahead, SameWay
    <3> QED BY <3>2, <3>3
  <2>5. \A k \in 1..6 : 5 < k => \A y \in Stage'[k] : Ahead(s, y)'
    BY <2>3, <2>4
  <2>6. \A k \in 1..6 : Stage'[k] \subseteq Stage[k] \cup {s} /\ (k # 5 => Stage'[k] \subseteq Stage[k])
    BY <1>2, <2>2, <2>3
  <2>7. 5 \in 1..6 /\ 6 \in 1..6 /\ 5 < 6
    OBVIOUS
  <2> HIDE DEF Stage
  <2> QED BY <1>1, <2>1, <2>5, <2>6, <2>7, Moves DEF Order
<1> QED
  BY <1>2, <1>3, <1>4, <1>5 DEF Order

\* NDmsg_send has found room: past what waits in Mach.
LEMMA OrderDirect ==
  ASSUME Typed, Order, NEW s \in DpsMsgs, First(s, unsent \cap DpsMsgs), unsent' = unsent \ {s},
         dps = None, dps' = s,
         UNCHANGED <<mach, q, srv, room, hdr, junk, delivered, detoured>>
  PROVE  Order'
<1>0. /\ s \in Msgs /\ s \in unsent /\ unsent \subseteq Msgs /\ detoured \subseteq DpsMsgs
      /\ s # None /\ s \notin detoured /\ s \notin MachMsgs /\ DpsMsgs \subseteq Nat
      /\ DpsMsgs \cap MachMsgs = {}
  BY TypedParts, Constants, ToNDAssumption DEF OthersTyped, First, Order, Ways
<1>1. KeepsAhead
  BY <1>0, AheadSent
<1>2. DeliveredInOrder' /\ MachInOrder' /\ QueueInOrder'
  BY <1>1, InPlace
<1>3. s \in Stage[6] /\ \A k \in 1..5 : s \notin Stage[k]
  BY <1>0, StageAt, StagesApart DEF Order
<1>4. TakenApart' /\ Ways'
  <2>1. srv # None => srv \in Stage[4]
    BY StageAt
  <2> QED BY <1>0, <1>3, <2>1 DEF Order, TakenApart, Ways
<1>5. StagesInOrder'
  <2>1. /\ Stage'[1] = Stage[1] /\ Stage'[2] = Stage[2] /\ Stage'[3] = Stage[3]
        /\ Stage'[4] \subseteq Stage[4] \cup {s} /\ Stage'[5] = Stage[5] /\ Stage'[6] = unsent \ {s}
        /\ Stage'[6] \subseteq Stage[6]
    BY StageAt DEF Rest
  <2>2. \A k \in 1..6 : k = 1 \/ k = 2 \/ k = 3 \/ k = 4 \/ k = 5 \/ k = 6
    OBVIOUS
  <2>3. ASSUME NEW y \in Stage'[6] PROVE Ahead(s, y)'
    <3>1. y \in unsent /\ y # s
      BY <2>1, <2>3
    <3>2. SameWay(s, y)' => y \in DpsMsgs
      BY <1>0 DEF SameWay
    <3>3. y \in DpsMsgs => s < y
      BY <1>0, <3>1 DEF First
    <3> QED BY <3>1, <3>2, <3>3 DEF Ahead
  <2>4. ASSUME NEW y \in Stage'[5] PROVE Ahead(s, y)'
    <3>1. y \in Stage[5] /\ y \in MachMsgs \cup detoured /\ y # s /\ y \notin unsent
      BY <1>3, <2>1, StageAt, StagesApart DEF Order, Ways
    <3>2. ~SameWay(s, y)'
      BY <1>0, <3>1 DEF SameWay
    <3> QED BY <3>1, <3>2 DEF Ahead
  <2>5. \A k \in 1..6 : 4 < k => \A y \in Stage'[k] : Ahead(s, y)'
    BY <2>2, <2>3, <2>4
  <2>6. \A k \in 1..6 : Stage'[k] \subseteq Stage[k] \cup {s} /\ (k # 4 => Stage'[k] \subseteq Stage[k])
    BY <2>1, <2>2
  <2>7. 4 \in 1..6 /\ 6 \in 1..6 /\ 4 < 6
    OBVIOUS
  <2> HIDE DEF Stage
  <2> QED BY <1>1, <1>3, <2>5, <2>6, <2>7, Moves DEF Order
<1> QED
  BY <1>2, <1>4, <1>5 DEF Order

\* A message that a producer holds goes on the queue.
LEMMA OrderCopy ==
  ASSUME Typed, Framed, Order, NEW m \in Msgs, m \in {dps, srv}, q' = q \o Bytes(m, Size[m]),
         \/ m = dps /\ dps' = None /\ UNCHANGED srv
         \/ m = srv /\ srv' = None /\ UNCHANGED dps,
         UNCHANGED <<unsent, mach, hdr, junk, delivered, detoured>>
  PROVE  Order'
<1> DEFINE n == Len(q)
           z == Size[m]
<1>0. /\ m # None /\ q \in Seq(Byte) /\ n \in Nat /\ z \in Nat \ {0}
      /\ Rest' = Rest /\ Rest \in Nat /\ Rest <= n
  BY TypedParts, Constants, BytesTyped, RestTyped DEF Rest, Framed, RestLeads
<1>1. KeepsAhead
  BY AheadKept
<1>2. DeliveredInOrder' /\ MachInOrder'
  BY <1>1, InPlace
<1>3. TakenApart' /\ Ways'
  <2>1. None \notin detoured
    BY TypedParts, Constants DEF OthersTyped
  <2> QED BY <2>1 DEF Order, TakenApart, Ways
<1>4. m \in Stage[4]
  BY <1>0, StageAt
<1>51. Len(q') = n + z
  BY <1>0, CopiedLength
<1>52. \A i \in 1..n : q'[i] = q[i]
  BY <1>0, Copied
<1>6. \A i \in n+1..n+z : q'[i] = [msg |-> m, at |-> i - n]
  BY <1>0, Copied
<1> HIDE DEF n, z
<1>5. Len(q') = n + z /\ \A i \in 1..n : q'[i] = q[i]
  BY <1>51, <1>52
<1>7. ASSUME NEW i \in n+1..n+z PROVE q'[i].msg = m /\ Base(i)' = n
  <2>1. q'[i] = [msg |-> m, at |-> i - n]
    BY <1>6
  <2>2. q'[i].msg = m /\ q'[i].at = i - n
    BY <2>1
  <2> QED BY <1>0, <2>2 DEF Base
<1>8. QueueInOrder'
  <2> SUFFICES ASSUME NEW i \in Rest'+1..Len(q'), NEW j \in Rest'+1..Len(q'), i < j,
                      Base(i)' # Base(j)'
               PROVE  Ahead(q[i].msg, q[j].msg)'
    BY DEF QueueInOrder
  <2>1. i \in 1..n /\ i \in Rest+1..n /\ (j \in Rest+1..n \/ j \in n+1..n+z)
    BY <1>0, <1>5, <1>7
  <2>2. q'[i] = q[i] /\ Base(i)' = Base(i) /\ q[i].msg \in Stage[3]
    BY <1>5, <2>1, StageAt DEF Base, n
  <2>3. Ahead(q[i].msg, q'[j].msg)
    <3>1. CASE j \in Rest+1..n
      <4>1. q'[j] = q[j] /\ Base(j)' = Base(j)
        BY <1>0, <1>5, <3>1 DEF Base
      <4>2. Ahead(q[i].msg, q[j].msg)
        BY <2>1, <2>2, <3>1, <4>1 DEF Order, QueueInOrder, n
      <4> QED BY <4>1, <4>2
    <3>2. CASE j \in n+1..n+z
      <4>1. q'[j].msg = m
        BY <1>7, <3>2
      <4>2. \A x \in Stage[3], y \in Stage[4] : Ahead(x, y)
        BY DEF Order, StagesInOrder
      <4> QED BY <1>4, <2>2, <4>1, <4>2
    <3> QED BY <2>1, <3>1, <3>2
  <2>4. \A x, y : x = q[i].msg /\ y = q'[j].msg => Ahead(x, y)'
    <3>1. \A x \in Stage[3] : \A y : Ahead(x, y) => Ahead(x, y)'
      BY <1>1 DEF KeepsAhead
    <3> QED BY <2>2, <2>3, <3>1
  <2> QED BY <2>2, <2>4 DEF Ahead, SameWay
<1>9. StagesInOrder'
  <2>1. /\ Stage'[1] = Stage[1] /\ Stage'[2] = Stage[2]
        /\ Stage'[4] \subseteq Stage[4] /\ Stage'[5] = Stage[5] /\ Stage'[6] = Stage[6]
    BY <1>0, StageAt
  <2>2. Stage'[3] \subseteq Stage[3] \cup {m}
    <3>1. ASSUME NEW i \in Rest'+1..Len(q') PROVE q'[i].msg \in Stage[3] \cup {m}
      <4>1. (i \in 1..n /\ i \in Rest+1..n) \/ i \in n+1..n+z
        BY <1>0, <1>5
      <4> QED BY <1>5, <1>7, <4>1, StageAt DEF n
    <3>2. Stage'[3] = {q'[i].msg : i \in Rest'+1..Len(q')}
      BY StageAt
    <3> QED BY <3>1, <3>2
  <2>3. \A k \in 1..6 : k = 1 \/ k = 2 \/ k = 3 \/ k = 4 \/ k = 5 \/ k = 6
    OBVIOUS
  <2>4. ASSUME NEW y \in Stage'[4] PROVE Ahead(m, y)'
    <3>1. y \in {dps, srv} /\ y # None /\ y # m
      BY <2>1, StageAt DEF Order, TakenApart
    <3>2. DpsMsgs \cap MachMsgs = {} /\ (dps # None => dps \in DpsMsgs \ unsent) /\ srv \notin unsent
      <4>1. DpsMsgs \cap MachMsgs = {} /\ (dps # None => dps \in DpsMsgs) /\ None \notin Msgs /\ unsent \subseteq Msgs
        BY ToNDAssumption, TypedParts, Constants DEF OthersTyped
      <4>2. \A x \in {dps, srv} \ {None} : x \notin unsent
        <5>1. \A x \in {dps, srv} \ {None} : x \in Stage[4]
          BY StageAt
        <5> QED BY <5>1, StageAt, StagesApart DEF Order
      <4> QED BY <4>1, <4>2
    <3>3. dps \notin detoured /\ srv \in MachMsgs \cup detoured \cup {None}
      BY DEF Order, Ways
    <3> QED BY <1>0, <3>1, <3>2, <3>3 DEF Ahead, SameWay
  <2>5. ASSUME NEW k \in {5, 6}, NEW y \in Stage'[k] PROVE Ahead(m, y)'
    <3>1. Ahead(m, y)
      BY <1>4, <2>1 DEF Order, StagesInOrder
    <3> QED BY <1>1, <1>4, <3>1 DEF KeepsAhead
  <2>6. \A k \in 1..6 : 3 < k => \A y \in Stage'[k] : Ahead(m, y)'
    BY <2>3, <2>4, <2>5
  <2>7. \A k \in 1..6 : Stage'[k] \subseteq Stage[k] \cup {m} /\ (k # 3 => Stage'[k] \subseteq Stage[k])
    BY <2>1, <2>2, <2>3
  <2>8. 3 \in 1..6 /\ 4 \in 1..6 /\ 3 < 4
    OBVIOUS
  <2> HIDE DEF Stage
  <2> QED BY <1>1, <1>4, <2>6, <2>7, <2>8, Moves DEF Order
<1> QED
  BY <1>2, <1>3, <1>8, <1>9 DEF Order

LEMMA StageNumbers == \A k \in 1..6 : k = 1 \/ k = 2 \/ k = 3 \/ k = 4 \/ k = 5 \/ k = 6
OBVIOUS

\* The first message that waits leaves it: the others stay in order.
LEMMA MachTaken ==
  ASSUME Typed, Order, mach # <<>>, mach' = Tail(mach), UNCHANGED <<unsent, detoured>>
  PROVE  /\ mach[1] \in Stage[5] /\ 1 \in 1..Len(mach)
         /\ \A i \in 1..Len(mach') : /\ mach'[i] = mach[i + 1] /\ i + 1 \in 1..Len(mach)
                                    /\ 1 < i + 1 /\ mach'[i] \in Stage[5]
         /\ MachInOrder' /\ Stage'[5] \subseteq Stage[5]
<1>0. mach \in Seq(Msgs)
  BY TypedParts DEF OthersTyped
<1>1. KeepsAhead
  BY AheadKept
<1>3. /\ Len(mach) \in Nat \ {0} /\ Len(mach') = Len(mach) - 1
      /\ \A i \in 1..Len(mach)-1 : mach'[i] = mach[i + 1]
  BY <1>0, HeadTailProperties
<1>4. \A i \in 1..Len(mach') : /\ mach'[i] = mach[i + 1] /\ i + 1 \in 1..Len(mach) /\ 1 < i + 1
                               /\ mach'[i] \in Stage[5]
  BY <1>3, StageAt
<1>5. mach[1] \in Stage[5] /\ 1 \in 1..Len(mach)
  BY <1>3, StageAt
<1>6. MachInOrder'
  <2> SUFFICES ASSUME NEW i \in 1..Len(mach'), NEW j \in 1..Len(mach'), i < j
               PROVE  Ahead(mach[i], mach[j])'
    BY DEF MachInOrder
  <2>1. i + 1 \in 1..Len(mach) /\ j + 1 \in 1..Len(mach) /\ i + 1 < j + 1
    BY <1>3
  <2>2. Ahead(mach'[i], mach'[j])
    BY <1>4, <2>1 DEF Order, MachInOrder
  <2> QED BY <2>2 DEF Ahead, SameWay
<1>7. Stage'[5] \subseteq Stage[5]
  BY <1>4, StageAt
<1> QED BY <1>4, <1>5, <1>6, <1>7

\* The server thread drops the first message that waits.
LEMMA OrderDrop ==
  ASSUME Typed, Order, ServerDrop
  PROVE  Order'
<1>0. /\ mach # <<>> /\ mach' = Tail(mach)
      /\ UNCHANGED <<unsent, q, dps, srv, room, hdr, junk, delivered, detoured>>
  BY DEF ServerDrop
<1>1. KeepsAhead
  BY <1>0, AheadKept
<1>2. DeliveredInOrder' /\ QueueInOrder' /\ MachInOrder' /\ Stage'[5] \subseteq Stage[5]
  BY <1>0, <1>1, InPlace, MachTaken
<1>3. \A i \in 1..Len(mach') : mach'[i] \in MachMsgs \cup detoured
  BY <1>0, MachTaken DEF Order, Ways
<1>4. TakenApart' /\ Ways'
  BY <1>0, <1>3 DEF Order, TakenApart, Ways
<1>5. StagesInOrder'
  <2>1. /\ Stage'[1] = Stage[1] /\ Stage'[2] = Stage[2] /\ Stage'[3] = Stage[3]
        /\ Stage'[4] = Stage[4] /\ Stage'[6] = Stage[6]
    BY <1>0, StageAt DEF Rest
  <2>2. \A k \in 1..6 : Stage'[k] \subseteq Stage[k]
    BY <1>2, <2>1, StageNumbers
  <2> HIDE DEF Stage
  <2>3. ASSUME NEW k \in 1..6, NEW l \in 1..6, k < l, NEW x \in Stage'[k], NEW y \in Stage'[l]
        PROVE  Ahead(x, y)'
    <3>1. Ahead(x, y) /\ x \in Stage[k] /\ k \in 1..5
      BY <2>2, <2>3 DEF Order, StagesInOrder
    <3> QED BY <1>1, <3>1 DEF KeepsAhead
  <2> QED BY <2>3 DEF StagesInOrder
<1> QED
  BY <1>2, <1>4, <1>5 DEF Order

\* The server thread takes the first message that waits.
LEMMA OrderReceive ==
  ASSUME Typed, Order, ServerReceive
  PROVE  Order'
<1> PICK m : m = mach[1]
  OBVIOUS
<1>0. /\ mach \in Seq(Msgs) /\ mach # <<>> /\ srv = None /\ srv' = m /\ mach' = Tail(mach)
      /\ UNCHANGED <<unsent, q, dps, room, hdr, junk, delivered, hist>>
  BY TypedParts DEF OthersTyped, ServerReceive
<1>1. KeepsAhead
  BY <1>0, AheadKept DEF hist
<1>2. DeliveredInOrder' /\ QueueInOrder'
  BY <1>0, <1>1, InPlace
<1>4. \A i \in 1..Len(mach') : /\ mach'[i] = mach[i + 1] /\ i + 1 \in 1..Len(mach) /\ 1 < i + 1
                               /\ mach'[i] \in Stage[5]
  BY <1>0, MachTaken DEF hist
<1>5. m \in Stage[5] /\ 1 \in 1..Len(mach)
  BY <1>0, MachTaken DEF hist
<1>6. MachInOrder'
  BY <1>0, MachTaken DEF hist
<1>7. TakenApart' /\ Ways'
  <2>1. dps # None => dps # m
    <3>1. dps # None => dps \in Stage[4]
      BY StageAt
    <3> QED BY <1>5, <3>1, StagesApart DEF Order
  <2>2. \A i \in 1..Len(mach') : mach'[i] \in MachMsgs \cup detoured
    BY <1>4 DEF Order, Ways
  <2>3. m \in MachMsgs \cup detoured
    BY <1>5 DEF Order, Ways
  <2> QED BY <1>0, <2>1, <2>2, <2>3 DEF Order, TakenApart, Ways, hist
<1>8. StagesInOrder'
  <2>1. /\ Stage'[1] = Stage[1] /\ Stage'[2] = Stage[2] /\ Stage'[3] = Stage[3]
        /\ Stage'[4] \subseteq Stage[4] \cup {m} /\ Stage'[6] = Stage[6]
    BY <1>0, StageAt DEF Rest
  <2>2. Stage'[5] \subseteq Stage[5]
    BY <1>4, StageAt
  <2>3. ASSUME NEW y \in Stage'[5] PROVE Ahead(m, y)
    <3>1. PICK i \in 1..Len(mach') : y = mach'[i]
      BY StageAt
    <3> QED BY <1>4, <1>5, <3>1 DEF Order, MachInOrder
  <2>4. \A x \in Stage[5] : \A y : Ahead(x, y) => Ahead(x, y)'
    BY <1>1 DEF KeepsAhead
  <2>5. \A x \in Stage[5], y \in Stage[6] : Ahead(x, y)
    BY DEF Order, StagesInOrder
  <2>6. \A k \in 1..6 : 4 < k => \A y \in Stage'[k] : Ahead(m, y)'
    BY <1>5, <2>1, <2>3, <2>4, <2>5, StageNumbers
  <2>7. \A k \in 1..6 : Stage'[k] \subseteq Stage[k] \cup {m} /\ (k # 4 => Stage'[k] \subseteq Stage[k])
    BY <2>1, <2>2, StageNumbers
  <2>8. 4 \in 1..6 /\ 5 \in 1..6 /\ 4 < 5
    OBVIOUS
  <2> HIDE DEF Stage
  <2> QED BY <1>1, <1>5, <2>6, <2>7, <2>8, Moves DEF Order
<1> QED
  BY <1>2, <1>6, <1>7, <1>8 DEF Order

\* Messages() takes the header of the message that leads the queue.
LEMMA OrderHeader ==
  ASSUME Typed, Framed, Order, MessagesHeader
  PROVE  Order'
<1> PICK m : m = q[1].msg
  OBVIOUS
<1> DEFINE n == Len(q)
<1>0. /\ hdr = None /\ hdr' = m /\ m # None /\ n \in Nat /\ HDR \in Nat \ {0} /\ Rest' \in Nat
      /\ 1 \in Rest+1..n /\ UNCHANGED <<unsent, mach, dps, srv, room, delivered, hist>>
  <2>1. hdr' \in Msgs /\ hdr' = m /\ 1 \in Rest+1..n
    BY FramedHeader
  <2> QED BY <2>1, TypedParts, BytesTyped, Constants DEF MessagesHeader, Rest
<1>1. KeepsAhead
  BY <1>0, AheadKept DEF hist
<1>2. DeliveredInOrder' /\ MachInOrder'
  BY <1>0, <1>1, InPlace
<1>3. TakenApart' /\ Ways'
  BY <1>0 DEF Order, TakenApart, Ways, hist
<1> HIDE DEF n
<1>4. ASSUME NEW i \in Rest'+1..Len(q')
      PROVE  /\ i + HDR \in Rest+1..n /\ q'[i] = q[i + HDR] /\ Base(i)' = Base(i + HDR) - HDR
             /\ Base(1) < Base(i + HDR) /\ q'[i].msg \in Stage[3] /\ Base(i + HDR) \in Int /\ 1 < i + HDR
             /\ Base(1) \in Int
  <2>1. /\ i + HDR \in Rest+1..n /\ q'[i] = q[i + HDR] /\ Base(i)' = Base(i + HDR) - HDR
        /\ Base(1) < Base(i + HDR)
    BY FramedHeader DEF n
  <2>2. i + HDR \in 1..n /\ 1 \in 1..n /\ 1 < i + HDR
    <3>1. Len(q') = Len(q) - HDR
      BY FramedHeader
    <3>2. Rest' \in Nat /\ Len(q') \in Int
      BY <1>0, <3>1 DEF n
    <3>3. \A a \in Nat, b \in Int : i \in a+1..b => i >= 1
      OBVIOUS
    <3>4. i >= 1
      BY <3>2, <3>3
    <3>5. Rest \in Nat
      BY RestTyped
    <3> QED BY <1>0, <2>1, <3>4, <3>5
  <2>3. Base(i + HDR) \in Int /\ Base(1) \in Int
    BY <2>2, QueuedByte DEF n
  <2>4. q'[i].msg \in Stage[3]
    BY <2>1, StageAt DEF n
  <2> QED BY <2>1, <2>2, <2>3, <2>4
<1>5. m \in Stage[3]
  BY <1>0, StageAt DEF n
<1>6. QueueInOrder'
  <2> SUFFICES ASSUME NEW i \in Rest'+1..Len(q'), NEW j \in Rest'+1..Len(q'), i < j,
                      Base(i)' # Base(j)'
               PROVE  Ahead(q[i].msg, q[j].msg)'
    BY DEF QueueInOrder
  <2>1. /\ i + HDR \in Rest+1..n /\ q'[i] = q[i + HDR] /\ Base(i)' = Base(i + HDR) - HDR
        /\ j + HDR \in Rest+1..n /\ q'[j] = q[j + HDR] /\ Base(j)' = Base(j + HDR) - HDR
    BY <1>4
  <2>2. i + HDR < j + HDR /\ Base(i + HDR) # Base(j + HDR)
    BY <1>0, <1>4, <2>1
  <2>3. Ahead(q[i + HDR].msg, q[j + HDR].msg)
    BY <2>1, <2>2 DEF Order, QueueInOrder, n
  <2>4. Ahead(q'[i].msg, q'[j].msg)
    BY <2>1, <2>3
  <2> QED BY <1>0, <2>4 DEF Ahead, SameWay, hist
<1>7. StagesInOrder'
  <2>1. /\ Stage'[1] = Stage[1] /\ Stage'[2] = {m} /\ Stage'[4] = Stage[4]
        /\ Stage'[5] = Stage[5] /\ Stage'[6] = Stage[6]
    BY <1>0, StageAt
  <2>2. Stage'[3] \subseteq Stage[3]
    BY <1>4, StageAt
  <2>3. ASSUME NEW y \in Stage'[3] PROVE Ahead(m, y)
    <3>1. PICK i \in Rest'+1..Len(q') : y = q'[i].msg
      BY StageAt
    <3>2. /\ i + HDR \in Rest+1..n /\ y = q[i + HDR].msg /\ 1 < i + HDR /\ Base(1) # Base(i + HDR)
      BY <1>4, <3>1
    <3> QED BY <1>0, <3>2 DEF Order, QueueInOrder, n
  <2>4. \A x \in Stage[3] : \A y : Ahead(x, y) => Ahead(x, y)'
    BY <1>1 DEF KeepsAhead
  <2>5. \A k \in 4..6 : \A x \in Stage[3], y \in Stage[k] : Ahead(x, y)
    BY DEF Order, StagesInOrder
  <2>6. \A k \in 1..6 : 2 < k => \A y \in Stage'[k] : Ahead(m, y)'
    BY <1>5, <2>1, <2>3, <2>4, <2>5, StageNumbers
  <2>7. \A k \in 1..6 : Stage'[k] \subseteq Stage[k] \cup {m} /\ (k # 2 => Stage'[k] \subseteq Stage[k])
    BY <2>1, <2>2, StageNumbers
  <2>8. 2 \in 1..6 /\ 3 \in 1..6 /\ 2 < 3
    OBVIOUS
  <2> HIDE DEF Stage
  <2> QED BY <1>1, <1>5, <2>6, <2>7, <2>8, Moves DEF Order
<1> QED
  BY <1>2, <1>3, <1>6, <1>7 DEF Order

\* Messages() takes the rest of a message and hands it on.
LEMMA OrderBody ==
  ASSUME Typed, Framed, Order, MessagesBody
  PROVE  Order'
<1> PICK m : m = hdr
  OBVIOUS
<1> DEFINE n == Len(q)
<1>0. /\ m \in Msgs /\ m # None /\ hdr' = None /\ n \in Nat /\ Rest \in Nat /\ Rest' = 0
      /\ delivered \in Seq(Msgs) /\ delivered' = Append(delivered, m)
      /\ UNCHANGED <<unsent, mach, dps, srv, room, junk, hist>>
  BY TypedParts, BytesTyped, RestTyped, FramedBody DEF MessagesBody, OthersTyped
<1>1. KeepsAhead
  BY <1>0, AheadKept DEF hist
<1>2. MachInOrder'
  BY <1>0, <1>1, InPlace
<1>3. TakenApart' /\ Ways'
  BY <1>0 DEF Order, TakenApart, Ways, hist
<1> HIDE DEF n
<1>4. ASSUME NEW i \in Rest'+1..Len(q')
      PROVE  /\ i + Rest \in Rest+1..n /\ q'[i] = q[i + Rest] /\ Base(i)' = Base(i + Rest) - Rest
             /\ q'[i].msg \in Stage[3] /\ Base(i + Rest) \in Int
  <2>1. i + Rest \in Rest+1..n /\ q'[i] = q[i + Rest] /\ Base(i)' = Base(i + Rest) - Rest
    BY <1>0, FramedBody DEF n
  <2>2. i + Rest \in 1..n
    BY <1>0, <2>1
  <2>3. Base(i + Rest) \in Int
    BY <2>2, QueuedByte DEF n
  <2>4. q'[i].msg \in Stage[3]
    BY <2>1, StageAt DEF n
  <2> QED BY <2>1, <2>3, <2>4
<1>5. m \in Stage[2]
  BY <1>0, StageAt
<1>6. QueueInOrder'
  <2> SUFFICES ASSUME NEW i \in Rest'+1..Len(q'), NEW j \in Rest'+1..Len(q'), i < j,
                      Base(i)' # Base(j)'
               PROVE  Ahead(q[i].msg, q[j].msg)'
    BY DEF QueueInOrder
  <2>1. /\ i + Rest \in Rest+1..n /\ q'[i] = q[i + Rest] /\ Base(i)' = Base(i + Rest) - Rest
        /\ j + Rest \in Rest+1..n /\ q'[j] = q[j + Rest] /\ Base(j)' = Base(j + Rest) - Rest
    BY <1>4
  <2>2. i + Rest < j + Rest /\ Base(i + Rest) # Base(j + Rest)
    BY <1>0, <1>4, <2>1
  <2>3. Ahead(q[i + Rest].msg, q[j + Rest].msg)
    BY <2>1, <2>2 DEF Order, QueueInOrder, n
  <2>4. Ahead(q'[i].msg, q'[j].msg)
    BY <2>1, <2>3
  <2> QED BY <1>0, <2>4 DEF Ahead, SameWay, hist
<1>7. /\ Len(delivered) \in Nat /\ Len(delivered') = Len(delivered) + 1
      /\ \A i \in 1..Len(delivered) : delivered'[i] = delivered[i]
      /\ delivered'[Len(delivered) + 1] = m
  BY <1>0, AppendProperties
<1>8. DeliveredInOrder'
  <2> SUFFICES ASSUME NEW i \in 1..Len(delivered'), NEW j \in 1..Len(delivered'), i < j
               PROVE  Ahead(delivered[i], delivered[j])'
    BY DEF DeliveredInOrder
  <2>1. i \in 1..Len(delivered) /\ delivered'[i] = delivered[i] /\ delivered[i] \in Stage[1]
    BY <1>7, StageAt
  <2>2. Ahead(delivered'[i], delivered'[j])
    <3>1. CASE j \in 1..Len(delivered)
      BY <1>7, <2>1, <3>1 DEF Order, DeliveredInOrder
    <3>2. CASE j = Len(delivered) + 1
      <4>1. \A x \in Stage[1], y \in Stage[2] : Ahead(x, y)
        BY DEF Order, StagesInOrder
      <4> QED BY <1>5, <1>7, <2>1, <3>2, <4>1
    <3> QED BY <1>7, <3>1, <3>2
  <2> QED BY <1>0, <2>2 DEF Ahead, SameWay, hist
<1>9. StagesInOrder'
  <2>1. /\ Stage'[2] = {} /\ Stage'[4] = Stage[4] /\ Stage'[5] = Stage[5] /\ Stage'[6] = Stage[6]
    BY <1>0, StageAt
  <2>2. Stage'[3] \subseteq Stage[3]
    BY <1>4, StageAt
  <2>3. Stage'[1] \subseteq Stage[1] \cup {m}
    <3>1. ASSUME NEW i \in 1..Len(delivered') PROVE delivered'[i] \in Stage[1] \cup {m}
      BY <1>7, StageAt
    <3>2. Stage'[1] = {delivered'[i] : i \in 1..Len(delivered')}
      BY StageAt
    <3> QED BY <3>1, <3>2
  <2>4. \A x \in Stage[2] : \A y : Ahead(x, y) => Ahead(x, y)'
    BY <1>1 DEF KeepsAhead
  <2>5. \A k \in 3..6 : \A x \in Stage[2], y \in Stage[k] : Ahead(x, y)
    BY DEF Order, StagesInOrder
  <2>6. \A k \in 1..6 : 1 < k => \A y \in Stage'[k] : Ahead(m, y)'
    BY <1>5, <2>1, <2>2, <2>4, <2>5, StageNumbers
  <2>7. \A k \in 1..6 : Stage'[k] \subseteq Stage[k] \cup {m} /\ (k # 1 => Stage'[k] \subseteq Stage[k])
    BY <2>1, <2>2, <2>3, StageNumbers
  <2>8. 1 \in 1..6 /\ 2 \in 1..6 /\ 1 < 2
    OBVIOUS
  <2> HIDE DEF Stage
  <2> QED BY <1>1, <1>5, <2>6, <2>7, <2>8, Moves DEF Order
<1> QED
  BY <1>2, <1>3, <1>6, <1>8, <1>9 DEF Order

LEMMA OrderStep == SizesAligned /\ Typed /\ Framed /\ Order /\ [Next]_vars => Order'
<1> SUFFICES ASSUME SizesAligned, Typed, Framed, Order, [Next]_vars PROVE Order'
  OBVIOUS
<1>1. CASE MachSend
  <2> PICK m \in MachMsgs : First(m, unsent \cap MachMsgs) /\ unsent' = unsent \ {m} /\ mach' = Append(mach, m)
    BY <1>1 DEF MachSend
  <2>1. m \in unsent /\ UNCHANGED <<q, dps, srv, room, hdr, junk, delivered, detoured>>
    BY <1>1 DEF MachSend, First, hist
  <2> QED BY <2>1, OrderMach
<1>2. CASE NDmsg_send
  <2> PICK m \in DpsMsgs :
        /\ First(m, unsent \cap DpsMsgs) /\ dps = None /\ unsent' = unsent \ {m}
        /\ \/ mach' = Append(mach, m) /\ detoured' = detoured \cup {m} /\ UNCHANGED dps
           \/ dps' = m /\ UNCHANGED <<mach, detoured>>
    BY <1>2 DEF NDmsg_send
  <2>1. m \in unsent /\ UNCHANGED <<q, srv, room, hdr, junk, delivered>>
    BY <1>2 DEF NDmsg_send, First
  <2>2. CASE mach' = Append(mach, m) /\ detoured' = detoured \cup {m} /\ UNCHANGED dps
    BY <2>1, <2>2, OrderMach
  <2>3. CASE dps' = m /\ UNCHANGED <<mach, detoured>>
    BY <2>1, <2>3, OrderDirect
  <2> QED BY <2>2, <2>3
<1>3. CASE NDmsg_copy
  <2>1. /\ dps \in Msgs /\ q' = q \o Bytes(dps, Size[dps]) /\ dps' = None
        /\ UNCHANGED <<unsent, mach, srv, hdr, junk, delivered, detoured>>
    BY <1>3, Constants, TypedParts DEF NDmsg_copy, OthersTyped, hist
  <2> QED BY <2>1, OrderCopy
<1>4. CASE ServerReceive
  BY <1>4, OrderReceive
<1>5. CASE ServerCopy
  <2>1. srv \in Msgs
    BY <1>5, TypedParts DEF ServerCopy, OthersTyped
  <2>2. /\ q' = q \o Bytes(srv, Size[srv]) /\ srv' = None
        /\ UNCHANGED <<unsent, mach, dps, hdr, junk, delivered, detoured>>
    BY <1>5, <2>1 DEF ServerCopy, SizesAligned, hist
  <2> QED BY <2>1, <2>2, OrderCopy
<1>6. CASE MessagesHeader
  BY <1>6, OrderHeader
<1>7. CASE MessagesBody
  BY <1>7, OrderBody
<1>9. CASE ServerDrop
  BY <1>9, OrderDrop
<1>8. CASE ServerRoom \/ WaitStep \/ UNCHANGED vars
  <2>1. UNCHANGED <<unsent, mach, q, dps, srv, hdr, delivered, detoured>>
    BY <1>8, WaitStepMovesNothing DEF ServerRoom, hist
  <2>2. KeepsAhead
    BY <2>1, AheadKept
  <2>3. DeliveredInOrder' /\ MachInOrder' /\ QueueInOrder' /\ TakenApart' /\ Ways'
    BY <2>1, <2>2, InPlace DEF Order, TakenApart, Ways
  <2>4. StagesInOrder'
    BY <2>1 DEF Order, StagesInOrder, Stage, Rest, Ahead, SameWay
  <2> QED BY <2>3, <2>4 DEF Order
<1> QED
  BY <1>1, <1>2, <1>3, <1>4, <1>5, <1>6, <1>7, <1>8, <1>9, Steps

LEMMA IInvInit == Init => IInv
<1> SUFFICES ASSUME Init PROVE Framed /\ Order
  BY InitTyped DEF IInv
<1>1. /\ Len(q) = 0 /\ Len(mach) = 0 /\ Len(delivered) = 0 /\ Rest = 0
      /\ hdr = None /\ dps = None /\ srv = None /\ unsent = Msgs /\ detoured = {} /\ ~junk
  BY DEF Init, Rest
<1>2. Framed
  BY <1>1 DEF Framed, RestLeads, WholeMessages, Abut
<1>3. \A k \in 1..5 : Stage[k] = {}
  BY <1>1, StageAt, StageNumbers
<1>4. StagesInOrder
  BY <1>3 DEF StagesInOrder
<1>5. DeliveredInOrder /\ MachInOrder /\ QueueInOrder /\ TakenApart /\ Ways
  BY <1>1 DEF DeliveredInOrder, MachInOrder, QueueInOrder, TakenApart, Ways
<1> QED
  BY <1>2, <1>4, <1>5 DEF Order

\* When lengths are aligned, Messages() finds a header where it looks for one,
\* hands on no message twice, and those of one way in the order they were sent:
\* for any messages, up to an overrun.
THEOREM QueueSoundCorrect == SizesAligned => (Spec => []QueueSound)
<1> SUFFICES ASSUME SizesAligned PROVE Spec => []QueueSound
  OBVIOUS
<1>1. Init => IInv
  BY IInvInit
<1>2. IInv /\ [Next]_vars => IInv'
  BY TypedStep, FramedStep, OrderStep DEF IInv
<1>3. IInv => QueueSound
  <2> SUFFICES ASSUME IInv PROVE QueueSound
    OBVIOUS
  <2>1. TypeOK /\ HeadersAreHeaders
    BY DEF IInv, Typed, Framed, HeadersAreHeaders
  <2>2. delivered \in Seq(Msgs) /\ DOMAIN delivered = 1..Len(delivered) /\ Len(delivered) \in Nat
    BY TypedParts, LenProperties DEF IInv, OthersTyped
  <2>3. \A i, j \in DOMAIN delivered : i < j => Ahead(delivered[i], delivered[j])
    BY <2>2 DEF IInv, Order, DeliveredInOrder
  <2>4. DeliveredOnce
    BY <2>2, <2>3 DEF DeliveredOnce, Ahead
  <2>5. SequentialEachWay
    BY <2>3 DEF SequentialEachWay, InOrder, Ahead, SameWay
  <2> QED BY <2>1, <2>4, <2>5 DEF QueueSound
<1> QED
  BY <1>1, <1>2, <1>3, PTL DEF Spec
=============================================================================
