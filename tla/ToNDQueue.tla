----------------------------- MODULE ToNDQueue -----------------------------
(***************************************************************************)
(* The host-to-board queue with both of its producers: the driver's server *)
(* thread, which forwards what it receives from Mach, and NDmsg_send of    *)
(* libND, which the Display PostScript task calls to bypass Mach, and      *)
(* which falls back on Mach when the queue is full.  Both test for room    *)
(* before they take the queue lock.  The lock itself is LamportLock, so    *)
(* writing one message is a step here.  At the other end Messages() takes  *)
(* a header off the queue and then as many bytes as the header says, and   *)
(* when no message is left it interrupts the host, if it was asked to.     *)
(* The reply thread's part in the waiting is in HostDriver; here it clears *)
(* the flag at any time, and other interrupts come at any time or never.   *)
(***************************************************************************)
EXTENDS Integers, Sequences, FiniteSets

CONSTANTS MSGBUF_SIZE,    \* bytes in the buffer
          HDR,            \* sizeof (msg_header_t)
          INT_SIZE,       \* the alignment the driver rounds sizes to
          DpsMsgs,        \* messages of the DPS task, numbered in sending order
          MachMsgs,       \* messages of other tasks, numbered in sending order
          Complex,        \* messages with msg_simple # TRUE: valid_msg may refuse them
          Size            \* msg_size of each message

Msgs == DpsMsgs \cup MachMsgs

\* Messages are numbers other than None, headers are not empty, and msg_send
\* refuses what does not fit into the buffer.
ASSUME ToNDAssumption == /\ {MSGBUF_SIZE, HDR, INT_SIZE} \subseteq Nat \ {0}
                         /\ Msgs \subseteq Nat \ {0}
                         /\ Complex \subseteq Msgs
                         /\ DpsMsgs \cap MachMsgs = {}
                         /\ Size \in [Msgs -> HDR..MSGBUF_SIZE-1]

VARIABLES unsent,         \* messages not yet sent by their task
          mach,           \* messages waiting at the server thread's port set
          q,              \* the bytes between Tail and Head
          dps,            \* message NDmsg_send has found room for, or None
          srv,            \* message the server thread holds, or None
          room,           \* the server thread has found room for it
          wait,           \* else it tests for room, found none, or sleeps
          asked,          \* it asked for an interrupt in MSG_QUEUES(sp)->Flags
          pending,        \* ND_INTR_PENDING in sp->flags
          looping,        \* Messages() is in its loop over the queue
          hdr,            \* message whose body Messages() waits for, or None
          junk,           \* Messages() took bytes that are not a header
          delivered,      \* messages handed on by Messages(), in order
          raced,          \* history: both producers had found room at once
          detoured,       \* history: messages NDmsg_send left to Mach
          dropped,        \* history: messages valid_msg refused
          late            \* history: the thread asked when the board had finished

wakes == <<wait, asked, pending, looping, late>>
hist == <<raced, detoured, dropped>>
vars == <<unsent, mach, q, dps, srv, room, hdr, junk, delivered, wakes, hist>>

None == 0

\* The bytes of message m that a copy of n bytes puts on the queue.  Those
\* beyond its size are whatever the sender's buffer held there.
Bytes(m, n) == [i \in 1..n |-> [msg |-> m, at |-> i]]

TypeOK == /\ unsent \subseteq Msgs
          /\ mach \in Seq(Msgs)
          /\ \A i \in DOMAIN q : q[i].msg \in Msgs
          /\ dps \in DpsMsgs \cup {None}
          /\ srv \in Msgs \cup {None}
          /\ room \in BOOLEAN
          /\ hdr \in Msgs \cup {None}
          /\ junk \in BOOLEAN
          /\ delivered \in Seq(Msgs)
          /\ raced \in BOOLEAN /\ detoured \subseteq DpsMsgs
          /\ dropped \subseteq Complex
          /\ wait \in {"test", "flag", "asleep"}
          /\ {asked, pending, looping, late} \subseteq BOOLEAN

Init == /\ unsent = Msgs
        /\ mach = <<>> /\ q = <<>> /\ delivered = <<>>
        /\ dps = None /\ srv = None /\ hdr = None
        /\ room = FALSE /\ junk = FALSE
        /\ raced = FALSE /\ detoured = {} /\ dropped = {}
        /\ wait = "test" /\ asked = TRUE /\ pending = FALSE
        /\ looping = FALSE /\ late = FALSE

\* A task sends its messages in their order.
First(m, S) == m \in S /\ \A n \in S : m <= n

\* Mistake: the header is not counted as queue space.
FullBody(n) == n - HDR >= MSGBUF_SIZE - Len(q)

\* size >= MSGBUF_SIZE - BYTES_ON_QUEUE(q): the message has to wait.
Full(n) == n >= MSGBUF_SIZE - Len(q)

----------------------------------------------------------------------------
\* Some other task sends to the board through Mach.
MachSend == \E m \in MachMsgs :
    /\ First(m, unsent \cap MachMsgs)
    /\ unsent' = unsent \ {m}
    /\ mach' = Append(mach, m)
    /\ UNCHANGED <<q, dps, srv, room, hdr, junk, delivered, wakes, hist>>

\* NDmsg_send up to the test for room: either on to the lock, or msg_send.
NDmsg_send == \E m \in DpsMsgs :
    /\ First(m, unsent \cap DpsMsgs)
    /\ dps = None
    /\ unsent' = unsent \ {m}
    /\ \/ /\ Full(Size[m])
          /\ mach' = Append(mach, m)
          /\ detoured' = detoured \cup {m}
          /\ UNCHANGED <<dps, raced>>
       \/ /\ ~Full(Size[m])
          /\ dps' = m
          /\ raced' = (raced \/ room)
          /\ UNCHANGED <<mach, detoured>>
    /\ UNCHANGED <<q, srv, room, hdr, junk, delivered, wakes, dropped>>

\* NDmsg_send from the lock on: exactly msg_size bytes go on the queue.
NDmsg_copy == /\ dps # None
              /\ q' = q \o Bytes(dps, Size[dps])
              /\ dps' = None
              /\ UNCHANGED <<unsent, mach, srv, room, hdr, junk, delivered, wakes, hist>>

\* (msg->msg_size + 3) & ~3
Rounded(m) == ((Size[m] + INT_SIZE - 1) \div INT_SIZE) * INT_SIZE

\* Mistake: the newest waiting message is taken first.
ServerReceiveLast == /\ srv = None /\ mach # <<>>
                     /\ srv' = mach[Len(mach)]
                     /\ mach' = SubSeq(mach, 1, Len(mach) - 1)
                     /\ UNCHANGED <<unsent, q, dps, room, hdr, junk, delivered, wakes, hist>>

\* ND_msg_server_loop: receive a message,
ServerReceive == /\ srv = None /\ mach # <<>>
                 /\ srv' = Head(mach)
                 /\ mach' = Tail(mach)
                 /\ UNCHANGED <<unsent, q, dps, room, hdr, junk, delivered, wakes, hist>>

\* drop it if it is not a valid one,
ServerDrop == /\ srv = None /\ mach # <<>>
              /\ Head(mach) \in Complex
              /\ mach' = Tail(mach)
              /\ dropped' = dropped \cup {Head(mach)}
              /\ UNCHANGED <<unsent, q, dps, srv, room, hdr, junk, delivered, wakes, raced, detoured>>

\* test for room: there is, and the board need not tell; or there is not.
ServerRoom == /\ srv # None /\ ~room /\ wait = "test"
              /\ ~Full(Rounded(srv))
              /\ room' = TRUE
              /\ asked' = FALSE
              /\ raced' = (raced \/ dps # None)
              /\ UNCHANGED <<unsent, mach, q, dps, srv, hdr, junk, delivered,
                             wait, pending, looping, late, detoured, dropped>>

ServerFull == /\ srv # None /\ ~room /\ wait = "test"
              /\ Full(Rounded(srv))
              /\ wait' = "flag"
              /\ UNCHANGED <<unsent, mach, q, dps, srv, room, hdr, junk, delivered,
                             asked, pending, looping, late, hist>>

\* At spl_ND: ask for an interrupt; wait for one unless one is pending.
ServerFlag == /\ wait = "flag"
              /\ asked' = TRUE
              /\ wait' = IF pending THEN "test" ELSE "asleep"
              /\ pending' = FALSE
              /\ late' = (~looping /\ Len(q) < HDR)
              /\ UNCHANGED <<unsent, mach, q, dps, srv, room, hdr, junk, delivered, looping, hist>>

\* The reply thread clears the flag, too, when this one is off the processor.
ReplyClears == /\ srv = None
               /\ pending' = FALSE
               /\ UNCHANGED <<unsent, mach, q, dps, srv, room, hdr, junk, delivered,
                              wait, asked, looping, late, hist>>

\* Mistake: the message is released before it is copied.
ServerCopyFreed == /\ room
                   /\ q' = q \o Bytes(None, HDR)
                   /\ srv' = None
                   /\ room' = FALSE
                   /\ UNCHANGED <<unsent, mach, dps, hdr, junk, delivered, wakes, hist>>

\* Mistake: the server thread keeps the message and sends it again.
ServerCopyAgain == /\ room
                   /\ q' = q \o Bytes(srv, Rounded(srv))
                   /\ room' = FALSE
                   /\ UNCHANGED <<unsent, mach, srv, dps, hdr, junk, delivered, wakes, hist>>

\* and copy it under the lock, its size rounded up.
ServerCopy == /\ room
              /\ q' = q \o Bytes(srv, Rounded(srv))
              /\ srv' = None
              /\ room' = FALSE
              /\ UNCHANGED <<unsent, mach, dps, hdr, junk, delivered, wakes, hist>>

----------------------------------------------------------------------------
\* Bytes the board has not read are written over.  What it reads then is
\* beyond the model: it takes no more steps.
Overrun == Len(q) >= MSGBUF_SIZE

\* Messages(): a header's worth of bytes, of which every field is believed.
\* What is not a header ends the model's knowledge of what happens next.
MessagesHeader ==
    /\ hdr = None /\ ~junk /\ ~Overrun
    /\ Len(q) >= HDR
    /\ LET m == q[1].msg IN
         IF SubSeq(q, 1, HDR) = Bytes(m, HDR)
         THEN hdr' = m /\ UNCHANGED junk
         ELSE junk' = TRUE /\ UNCHANGED hdr
    /\ q' = SubSeq(q, HDR + 1, Len(q))
    /\ looping' = TRUE
    /\ UNCHANGED <<unsent, mach, dps, srv, room, delivered, wait, asked, pending, late, hist>>

\* Mistake: the whole msg_size is taken after the header.
BodyWithHeader(m) == Size[m]

\* size = hdr.msg_size - sizeof hdr
Body(m) == Size[m] - HDR

\* The rest of the message, once all of it is on the queue.
MessagesBody == /\ hdr # None /\ ~Overrun
                /\ Len(q) >= Body(hdr)
                /\ q' = SubSeq(q, Body(hdr) + 1, Len(q))
                /\ delivered' = Append(delivered, hdr)
                /\ hdr' = None
                /\ UNCHANGED <<unsent, mach, dps, srv, room, junk, wakes, hist>>

\* ND_intr: wakes the server thread, or leaves the interrupt pending.
ND_intr == /\ wait' = IF wait = "asleep" THEN "test" ELSE wait
           /\ pending' = (wait # "asleep")

\* Mistake: the driver is not told when the queue has been emptied.
MessagesIdleNot == /\ looping /\ hdr = None /\ ~junk /\ ~Overrun
                   /\ Len(q) < HDR
                   /\ looping' = FALSE
                   /\ UNCHANGED <<unsent, mach, q, dps, srv, room, hdr, junk, delivered,
                                  wait, asked, pending, late, hist>>

\* No message is left: let the driver know, if it asked, and wait for more.
MessagesIdle == /\ looping /\ hdr = None /\ ~junk /\ ~Overrun
                /\ Len(q) < HDR
                /\ looping' = FALSE
                /\ IF asked THEN ND_intr ELSE UNCHANGED <<wait, pending>>
                /\ UNCHANGED <<unsent, mach, q, dps, srv, room, hdr, junk, delivered,
                               asked, late, hist>>

\* The board interrupts for messages of its own, or for a queue half empty.
OtherInterrupt == /\ ND_intr
                  /\ UNCHANGED <<unsent, mach, q, dps, srv, room, hdr, junk, delivered,
                                 asked, looping, late, hist>>

Server == ServerReceive \/ ServerDrop \/ ServerRoom \/ ServerFull \/ ServerFlag \/ ServerCopy
Driver == Server \/ ReplyClears
Board == MessagesHeader \/ MessagesBody \/ MessagesIdle
Next == MachSend \/ NDmsg_send \/ NDmsg_copy \/ Driver \/ Board \/ OtherInterrupt

\* The server thread when it is not asleep, a task inside NDmsg_send and the
\* board keep running; no other interrupt has to come.
Spec == /\ Init /\ [][Next]_vars
        /\ WF_vars(Server) /\ WF_vars(NDmsg_copy) /\ WF_vars(Board)

----------------------------------------------------------------------------
\* No producer writes over bytes the board has not read: the room a producer
\* saw is still there when it copies.
NoOverrun == ~Overrun

\* It is not there only if the other producer had found room, too, before it
\* copied: one producer alone, or the two one after the other, are safe.
NoOverrunAlone == Overrun => raced

\* Messages() always finds a message header where it looks for one.
HeadersAreHeaders == ~junk

\* Everything is delivered once.
DeliveredOnce == \A i, j \in DOMAIN delivered : delivered[i] = delivered[j] => i = j

InOrder(S) == \A i, j \in DOMAIN delivered :
    i < j /\ {delivered[i], delivered[j]} \subseteq S => delivered[i] < delivered[j]

\* What goes the same way stays in order: through Mach, or directly.
SequentialEachWay == InOrder(MachMsgs) /\ InOrder(detoured) /\ InOrder(DpsMsgs \ detoured)

\* Up to an overrun Messages() is never off by a byte, and hands on every message
\* once, in the order of the way it took: whatever the two producers' waits for
\* room and for the lock did between its two reads.
QueueSound == TypeOK /\ HeadersAreHeaders /\ DeliveredOnce /\ SequentialEachWay

\* The DPS task's messages arrive in order, although some go round by Mach.
DpsSequential == InOrder(DpsMsgs)

\* The server thread asked to be told about room when the board had already
\* emptied the queue, and waits: nothing of the board's own accord wakes it.
Stranded == wait = "asleep" /\ late

\* Every message sent gets to Messages(), with no producer waiting for ever,
\* unless valid_msg refuses it, the queue is overrun, or the server thread stays
\* stranded from some time on.
EverythingDelivered ==
    \A m \in Msgs : (m \notin unsent) ~>
        \/ \E i \in DOMAIN delivered : delivered[i] = m
        \/ m \in dropped
        \/ Overrun
        \/ []Stranded

\* The server thread is not stranded for ever.
NotStranded == ~<>[]Stranded
=============================================================================
