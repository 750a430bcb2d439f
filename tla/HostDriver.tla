----------------------------- MODULE HostDriver -----------------------------
(***************************************************************************)
(* How the two service threads of the host driver and the board wait for   *)
(* each other.  The server thread waits for room on the ToND queue, the    *)
(* reply thread for messages on the FromND queue; both are woken by the    *)
(* board's one interrupt, and both consume its one flag ND_INTR_PENDING.   *)
(* Kernel threads are not preempted on the one host processor; what runs   *)
(* at spl_ND is one step, because ND_intr cannot come in between.  The     *)
(* board is another processor and moves between any two steps.  Queues are *)
(* counted in messages of one size.  The processes of the board go on      *)
(* sending without end.                                                    *)
(***************************************************************************)
EXTENDS Integers

CONSTANTS ToCap,          \* a message has to wait when toND + 1 >= ToCap
          FromCap,        \* likewise for the FromND queue
          NIn,            \* bound: messages sent to the board through Mach
          Senders         \* processes of the board that send

ASSUME HostDriverAssumption == /\ ToCap \in Nat /\ ToCap > 1
                               /\ FromCap \in Nat /\ FromCap > 1
                               /\ NIn \in Nat

VARIABLES nin,            \* messages the server thread has not received yet
          toND, fromND,   \* the two queues
          Flags,          \* MSG_QUEUES(sp)->Flags, the bits for the ToND queue
          INTCPU,         \* the board's host interrupt register
          INTR_PENDING,   \* ND_INTR_PENDING in sp->flags
          softS, softR,   \* thread_wakeups scheduled as soft interrupts
          spc, rpc,       \* server thread, reply thread
          bpc,            \* what runs on the board's processor
          bstate          \* each sender: "out" of msg_send, "asleep" in it, "ready"

server == <<nin, spc>>
driver == <<INTR_PENDING, softS, softR>>
board == <<bpc, bstate>>
driverVars == <<server, rpc, driver, board, toND, fromND, Flags, INTCPU>>

IN_EMPTY == "MSGFLAG_MSG_IN_EMPTY"
IN_LOW == "MSGFLAG_MSG_IN_LOW"

DriverTypeOK == /\ nin \in 0..NIn
                /\ toND \in 0..ToCap-1
                /\ fromND \in 0..FromCap-1
                /\ Flags \subseteq {IN_EMPTY, IN_LOW}
                /\ {INTCPU, INTR_PENDING, softS, softR} \subseteq BOOLEAN
                /\ spc \in {"receive", "test", "flag", "blocked", "woken", "clear", "copy"}
                /\ rpc \in {"top", "blocked", "woken", "look", "busy"}
                /\ bpc \in {"idle", "msgs", "kept", "empty", "pingKept", "pingEmpty", "pingSent"}
                /\ bstate \in [Senders -> {"out", "asleep", "ready"}]

\* After ND_init_message_system and ND_start_services.
DriverInit == /\ nin = NIn /\ toND = 0 /\ fromND = 0
              /\ Flags = {IN_EMPTY}
              /\ INTCPU = FALSE /\ INTR_PENDING = FALSE
              /\ softS = FALSE /\ softR = FALSE
              /\ spc = "receive" /\ rpc = "top"
              /\ bpc = "idle" /\ bstate = [p \in Senders |-> "out"]

\* ND_SERVER_THREAD_PAUSED and ND_REPLY_THREAD_PAUSED are set while the
\* thread is in these places.
ServerPaused == spc \in {"blocked", "woken"}
ReplyPaused == rpc \in {"blocked", "woken"}

\* The processor is free for another thread.
ServerOff == spc \in {"receive", "blocked", "woken"}
ReplyOff == rpc \in {"blocked", "woken", "busy"}

----------------------------------------------------------------------------
(* ND_msg_server_loop.                                                     *)

ServerReceive == /\ spc = "receive" /\ nin > 0 /\ ReplyOff
                 /\ nin' = nin - 1
                 /\ spc' = "test"
                 /\ UNCHANGED <<rpc, driver, board, toND, fromND, Flags, INTCPU>>

\* Mistake: the queue is allowed to become full.
ServerTestFull == /\ spc = "test"
                  /\ spc' = IF toND >= ToCap THEN "flag" ELSE "clear"
                  /\ UNCHANGED <<nin, rpc, driver, board, toND, fromND, Flags, INTCPU>>

\* size >= MSGBUF_SIZE - BYTES_ON_QUEUE(q), with interrupts enabled.
ServerTest == /\ spc = "test"
              /\ spc' = IF toND + 1 >= ToCap THEN "flag" ELSE "clear"
              /\ UNCHANGED <<nin, rpc, driver, board, toND, fromND, Flags, INTCPU>>

\* Mistake: the board is not asked for an interrupt.
ServerFlagNot == /\ spc = "flag"
                 /\ INTR_PENDING' = FALSE
                 /\ spc' = IF INTR_PENDING THEN "test" ELSE "blocked"
                 /\ UNCHANGED <<nin, Flags, rpc, softS, softR, board, toND, fromND, INTCPU>>

\* At spl_ND: ask for an interrupt; wait for one unless one is pending, which
\* is then forgotten and the queue tested again.
ServerFlag == /\ spc = "flag"
              /\ Flags' = Flags \cup {IN_EMPTY, IN_LOW}
              /\ INTR_PENDING' = FALSE
              /\ spc' = IF INTR_PENDING THEN "test" ELSE "blocked"
              /\ UNCHANGED <<nin, rpc, softS, softR, board, toND, fromND, INTCPU>>

\* Running again: also the reply thread's interrupts are forgotten.
ServerUnpause == /\ spc = "woken" /\ ReplyOff
                 /\ INTR_PENDING' = FALSE
                 /\ spc' = "test"
                 /\ UNCHANGED <<nin, rpc, softS, softR, board, toND, fromND, Flags, INTCPU>>

ServerClear == /\ spc = "clear"
               /\ Flags' = Flags \ {IN_EMPTY, IN_LOW}
               /\ spc' = "copy"
               /\ UNCHANGED <<nin, rpc, driver, board, toND, fromND, INTCPU>>

\* ND_LamportLock, ND_writequeue, ND_LamportUnlock.
ServerCopy == /\ spc = "copy"
              /\ toND' = toND + 1
              /\ spc' = "receive"
              /\ UNCHANGED <<nin, rpc, driver, board, fromND, Flags, INTCPU>>

Server == \/ ServerReceive \/ ServerTest \/ ServerFlag \/ ServerUnpause
          \/ ServerClear \/ ServerCopy

----------------------------------------------------------------------------
(* ND_reply_server_loop.                                                   *)

\* At spl_ND: wait for an interrupt unless one is pending.
ReplyTop == /\ rpc = "top"
            /\ INTR_PENDING' = FALSE
            /\ rpc' = IF INTR_PENDING THEN "look" ELSE "blocked"
            /\ UNCHANGED <<server, softS, softR, board, toND, fromND, Flags, INTCPU>>

ReplyUnpause == /\ rpc = "woken" /\ ServerOff
                /\ INTR_PENDING' = FALSE
                /\ rpc' = "look"
                /\ UNCHANGED <<server, softS, softR, board, toND, fromND, Flags, INTCPU>>

ReplyEmpty == /\ rpc = "look" /\ fromND = 0
              /\ rpc' = "top"
              /\ UNCHANGED <<server, driver, board, toND, fromND, Flags, INTCPU>>

\* Take the next message.  msg_send and the kernel services may sleep.
ReplyTake == /\ rpc = "look" /\ fromND > 0
             /\ fromND' = fromND - 1
             /\ rpc' = "busy"
             /\ UNCHANGED <<server, driver, board, toND, Flags, INTCPU>>

\* After a service request the loop goes on to the next message, but after a
\* forwarded message it ends.
ReplyDone == /\ rpc = "busy" /\ ServerOff
             /\ rpc' \in {"look", "top"}
             /\ UNCHANGED <<server, driver, board, toND, fromND, Flags, INTCPU>>

Reply == ReplyTop \/ ReplyUnpause \/ ReplyEmpty \/ ReplyTake \/ ReplyDone

----------------------------------------------------------------------------
(* ND_intr, at hardware interrupt level, and the wakeups it schedules.     *)

\* Mistake: only one paused thread is woken.
ND_intrOne == /\ INTCPU
              /\ INTCPU' = FALSE
              /\ INTR_PENDING' = TRUE
              /\ softR' = (softR \/ ReplyPaused)
              /\ softS' = (softS \/ (ServerPaused /\ ~ReplyPaused))
              /\ UNCHANGED <<server, rpc, board, toND, fromND, Flags>>

ND_intr == /\ INTCPU
           /\ INTCPU' = FALSE
           /\ INTR_PENDING' = TRUE
           /\ softR' = (softR \/ ReplyPaused)
           /\ softS' = (softS \/ ServerPaused)
           /\ UNCHANGED <<server, rpc, board, toND, fromND, Flags>>

WakeupServer == /\ softS
                /\ softS' = FALSE
                /\ spc' = IF spc = "blocked" THEN "woken" ELSE spc
                /\ UNCHANGED <<nin, rpc, INTR_PENDING, softR, board, toND, fromND, Flags, INTCPU>>

WakeupReply == /\ softR
               /\ softR' = FALSE
               /\ rpc' = IF rpc = "blocked" THEN "woken" ELSE rpc
               /\ UNCHANGED <<server, INTR_PENDING, softS, board, toND, fromND, Flags, INTCPU>>

Interrupts == ND_intr \/ WakeupServer \/ WakeupReply

----------------------------------------------------------------------------
(* The board.                                                              *)

\* Messages() wakes, as every interrupt of the board looks at the queue.
MessagesWake == /\ bpc = "idle" /\ toND > 0
                /\ bpc' = "msgs"
                /\ UNCHANGED <<bstate, server, rpc, driver, toND, fromND, Flags, INTCPU>>

\* A message is taken: delivered or discarded, or kept as unclaimed.
MessagesTake == /\ bpc = "msgs" /\ toND > 0
                /\ toND' = toND - 1
                /\ bpc' \in {"msgs", "kept"}
                /\ UNCHANGED <<bstate, server, rpc, driver, fromND, Flags, INTCPU>>

\* Only after a message has been kept is the low water mark looked at.
MessagesLow == /\ bpc = "kept"
               /\ bpc' = IF IN_LOW \in Flags /\ toND < ToCap \div 2 THEN "pingKept" ELSE "msgs"
               /\ UNCHANGED <<bstate, server, rpc, driver, toND, fromND, Flags, INTCPU>>

MessagesDrained == /\ bpc = "msgs" /\ toND = 0
                   /\ bpc' = "empty"
                   /\ UNCHANGED <<bstate, server, rpc, driver, toND, fromND, Flags, INTCPU>>

\* Let the driver know that we have room now, if it asked.
MessagesEmpty == /\ bpc = "empty"
                 /\ bpc' = IF IN_EMPTY \in Flags THEN "pingEmpty" ELSE "idle"
                 /\ UNCHANGED <<bstate, server, rpc, driver, toND, fromND, Flags, INTCPU>>

\* msg_send by process p: on the queue and a ping, or sleep for room.  Whoever
\* was woken tests again; others may have sent by then.
msg_send(p) == /\ bpc = "idle" /\ bstate[p] # "asleep"
               /\ \/ /\ fromND + 1 < FromCap
                     /\ fromND' = fromND + 1
                     /\ bstate' = [bstate EXCEPT ![p] = "out"]
                     /\ bpc' = "pingSent"
                  \/ /\ fromND + 1 >= FromCap
                     /\ bstate' = [bstate EXCEPT ![p] = "asleep"]
                     /\ UNCHANGED <<fromND, bpc>>
               /\ UNCHANGED <<server, rpc, driver, toND, Flags, INTCPU>>

\* ping_driver: spin until the last interrupt is cleared, then post one.
ping_driver == /\ bpc \in {"pingKept", "pingEmpty", "pingSent"}
               /\ ~INTCPU
               /\ INTCPU' = TRUE
               /\ bpc' = IF bpc = "pingKept" THEN "msgs" ELSE "idle"
               /\ UNCHANGED <<bstate, server, rpc, driver, toND, fromND, Flags>>

\* Wakeup(&FromND)
Woken == [p \in Senders |-> IF bstate[p] = "asleep" THEN "ready" ELSE bstate[p]]
Asleep == {p \in Senders : bstate[p] = "asleep"}

\* Mistake: the senders are woken only by a ping of the board's own.
trapNot == /\ Asleep # {} /\ fromND = 0 /\ INTCPU
           /\ bstate' = Woken
           /\ UNCHANGED <<bpc, server, rpc, driver, toND, fromND, Flags, INTCPU>>

\* Any trap, at the latest the next vertical blank: an empty FromND queue
\* wakes the senders.
trap == /\ Asleep # {} /\ fromND = 0
        /\ bstate' = Woken
        /\ UNCHANGED <<bpc, server, rpc, driver, toND, fromND, Flags, INTCPU>>

\* Mistake: the ping once a second is for a full queue only.
hardclockFull == /\ Asleep # {} /\ fromND > 0 /\ ~INTCPU
                 /\ INTCPU' = TRUE
                 /\ UNCHANGED <<server, rpc, driver, board, toND, fromND, Flags>>

\* Once a second: ping the driver while there is data for it.
hardclock == /\ fromND > 0 /\ ~INTCPU
             /\ INTCPU' = TRUE
             /\ UNCHANGED <<server, rpc, driver, board, toND, fromND, Flags>>

Messages == MessagesWake \/ MessagesTake \/ MessagesLow \/ MessagesDrained \/ MessagesEmpty

Send == \E p \in Senders : msg_send(p)

DriverNext == Server \/ Reply \/ Interrupts \/ Messages \/ Send \/ ping_driver \/ trap \/ hardclock

\* Threads and board run, interrupts are taken, the retrace clock ticks.  A
\* thread that is ready gets the processor whenever the other one waits, a
\* spinning ping gets through between two ticks a second apart, and a process of
\* the board that was woken has its turn: that is SF.  No process has to send.
DriverSpec == /\ DriverInit /\ [][DriverNext]_driverVars
              /\ SF_driverVars(Server) /\ SF_driverVars(Reply) /\ SF_driverVars(ping_driver)
              /\ WF_driverVars(ND_intr) /\ WF_driverVars(WakeupServer) /\ WF_driverVars(WakeupReply)
              /\ \A p \in Senders : SF_driverVars(bstate[p] = "ready" /\ msg_send(p))
              /\ WF_driverVars(Messages) /\ WF_driverVars(trap) /\ WF_driverVars(hardclock)

----------------------------------------------------------------------------
\* A thread that sleeps while an interrupt is pending is about to be woken:
\* the test of ND_INTR_PENDING and the wait are not torn apart by ND_intr.
SleeperIsWoken == /\ rpc = "blocked" /\ INTR_PENDING => softR
                  /\ spc = "blocked" /\ INTR_PENDING => softS

\* The same, and every variable of the wait protocol keeps its type.
DriverSound == DriverTypeOK /\ SleeperIsWoken

\* Whatever the board sends is taken off the FromND queue, although the two
\* threads take each other's interrupts and one wakeup forwards one message: the
\* reply thread goes on taking messages, or the queue is empty in the end.
FromNDServed == []<>(fromND = 0) \/ []<><<ReplyTake>>_driverVars

\* Another process sends while p is in msg_send, waiting for room.
PassedOver(p) == /\ bstate[p] # "out" /\ bstate'[p] # "out"
                /\ fromND' > fromND

\* A board process that found the FromND queue full gets its message sent, unless
\* others overtake it for ever: the queue is never empty at a trap then.
SenderResumes == \A p \in Senders :
    []<><<PassedOver(p)>>_driverVars \/ (bstate[p] # "out" ~> bstate[p] = "out")

\* The server thread, waiting while the board has messages left to take, is
\* woken, as the board meets the flags when it has emptied the queue; unless the
\* processes of the board send for ever, before whom Messages() does not run.
WaitingServerWoken ==
    []<><<Send>>_driverVars \/ ((spc = "blocked" /\ toND > 0) ~> (spc # "blocked"))

----------------------------------------------------------------------------
(* Counterexamples on demand.                                              *)

\* No sender is overtaken for ever.
NeverStarved == \A p \in Senders : bstate[p] # "out" ~> bstate[p] = "out"

\* The server thread never waits for ever.
ServerResumes == (spc = "blocked") ~> (spc # "blocked")
=============================================================================
