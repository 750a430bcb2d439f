------------------------------ MODULE Console ------------------------------
(***************************************************************************)
(* The console mailbox between the board and the driver: one word          *)
(* ND_CONIO_MSG_ID that says what the interrupt is about, and a buffer.    *)
(* One process at a time runs on the board, and spins until the word is    *)
(* ND_CONIO_IDLE again; but the retrace interrupt comes in anywhere, and   *)
(* hardclock uses the same word to ping the driver.  When a debugger has   *)
(* just been connected, it even runs kdb, which makes console calls of its *)
(* own in the middle of the one it interrupts.  A character is the number  *)
(* of the call that wrote it, or asked for it.                             *)
(***************************************************************************)
EXTENDS Integers, Sequences

CONSTANTS NCalls,         \* bound: console calls and pings
          DebugEnabled,   \* _DebugEnabled_: whether hardclock may run kdb
          HardclockPings, \* whether hardclock finds FromND not empty
          DebugMayDie,    \* whether the task behind debug_port may go away
          ServerPauses    \* whether the server thread waits for room meanwhile

ASSUME ConsoleAssumption == /\ NCalls \in Nat
                            /\ {DebugEnabled, HardclockPings, DebugMayDie, ServerPauses} \subseteq BOOLEAN

VARIABLES id, INTCPU,     \* ND_CONIO_MSG_ID, the host interrupt register
          outbuf, inbuf,  \* first character in ND_CONIO_OUT_BUF, _IN_BUF
          made,           \* console calls and pings begun
          call,           \* number of the last call that has stored its character
          op, bpc,        \* kind of the current call, and where it is
          level, saved,   \* who calls; the call that kdb has interrupted
          DebugInitialized, \* kdb has met the debugger
          mail,           \* FromND holds messages
          INTR_PENDING,   \* as in HostDriver
          rpc, type, char,\* reply thread: where it is, what it latched
          debug,          \* debug_port # PORT_NULL
          inbox,          \* messages the debugger has not yet taken
          reported,       \* history: characters sent to a debugger, in order
          gap,            \* history: debug_port was null since call was stored
          disturbed,      \* history: others used the word or the interrupt, or died
          nested,         \* history: kdb has run between a call's first store and its return
          returned        \* history: the calls that returned, and their result

board == <<made, call, op, bpc>>
kdb == <<level, saved, DebugInitialized>>
host == <<INTR_PENDING, rpc, type, char>>
debugger == <<debug, inbox>>
mailbox == <<id, outbuf, inbuf>>
hist == <<reported, gap, disturbed, nested, returned>>
vars == <<mailbox, INTCPU, board, kdb, mail, host, debugger, hist>>

Requests == {"OUT", "IN_CHAR", "EXIT"}
Calls == {"put", "get", "exit", "ping"}
Places == {"out", "drain", "fill", "post", "raise", "wait", "halted"}
Message == [type : Requests, char : Nat]

TypeOK == /\ id \in Requests \cup {"IDLE", "MESSAGE_AVAIL", "IN_STAND_BY"}
          /\ {INTCPU, mail, INTR_PENDING, debug, DebugInitialized, gap, disturbed, nested} \subseteq BOOLEAN
          /\ made \in 0..NCalls /\ {outbuf, inbuf, call, char} \subseteq Nat
          /\ op \in Calls /\ bpc \in Places
          /\ level \in {"process", "kdb"} /\ saved \in [op : Calls, bpc : Places]
          /\ rpc \in {"pause", "look", "send", "queue"}
          /\ type \in Requests
          /\ inbox \in Seq(Message) /\ reported \in Seq(Nat)
          /\ \A r \in returned : r.call \in Nat /\ r.result \in Nat

Init == /\ id = "IDLE" /\ INTCPU = FALSE
        /\ outbuf = 0 /\ inbuf = 0
        /\ made = 0 /\ call = 0 /\ op = "ping" /\ bpc = "out"
        /\ level = "process" /\ saved = [op |-> "ping", bpc |-> "out"]
        /\ DebugInitialized = FALSE
        /\ mail = FALSE
        /\ INTR_PENDING = FALSE
        /\ rpc = "pause" /\ type = "OUT" /\ char = 0
        /\ debug \in BOOLEAN
        /\ inbox = <<>> /\ reported = <<>>
        /\ gap = FALSE /\ disturbed = FALSE /\ nested = FALSE /\ returned = {}

----------------------------------------------------------------------------
(* The board.                                                              *)

\* A process calls cn_putc, cn_getc or _exit, or pings after msg_send; or kdb
\* prints a character or reads one.
Call(o) == /\ bpc = "out" /\ made < NCalls
           /\ level = "kdb" => o \in {"put", "get"}
           /\ made' = made + 1
           /\ op' = o
           /\ bpc' = "drain"
           /\ mail' = (mail \/ o = "ping")
           /\ disturbed' = FALSE
           /\ UNCHANGED <<mailbox, INTCPU, call, kdb, host, debugger, reported, gap, nested, returned>>

\* Wait until the host has cleared the last interrupt.
Drain == /\ bpc = "drain" /\ ~INTCPU
         /\ bpc' = IF op = "ping" THEN "post" ELSE "fill"
         /\ UNCHANGED <<mailbox, INTCPU, made, call, op, kdb, mail, host, debugger, hist>>

\* buf[0] = c.
Fill == /\ bpc = "fill"
        /\ call' = call + 1
        /\ outbuf' = call'
        /\ gap' = ~debug
        /\ disturbed' = FALSE
        /\ bpc' = "post"
        /\ UNCHANGED <<id, inbuf, INTCPU, made, op, kdb, mail, host, debugger, reported, nested, returned>>

\* The word says what is asked.
Post == /\ bpc = "post"
        /\ id' = CASE op = "put" -> "OUT" [] op = "get" -> "IN_CHAR"
                   [] op = "exit" -> "EXIT" [] op = "ping" -> "MESSAGE_AVAIL"
        /\ bpc' = "raise"
        /\ UNCHANGED <<outbuf, inbuf, INTCPU, made, call, op, kdb, mail, host, debugger, hist>>

\* ND_INTCPU.  A ping is then done, and _exit never returns.
Raise == /\ bpc = "raise"
         /\ INTCPU' = TRUE
         /\ bpc' = CASE op = "ping" -> "out" [] op = "exit" -> "halted" [] OTHER -> "wait"
         /\ UNCHANGED <<mailbox, made, call, op, kdb, mail, host, debugger, hist>>

\* Mistake: a call ends when the host has taken the interrupt.
ReturnAtClear == /\ bpc = "wait" /\ ~INTCPU
                 /\ returned' = returned \cup {[call |-> call, op |-> op, result |-> inbuf,
                                         excused |-> gap \/ nested]}
                 /\ bpc' = "out"
                 /\ UNCHANGED <<mailbox, INTCPU, made, call, op, kdb, mail, host, debugger, reported, gap,
                                disturbed, nested>>

\* while( *id != ND_CONIO_IDLE ) ;
Return == /\ bpc = "wait" /\ id = "IDLE"
          /\ returned' = returned \cup {[call |-> call, op |-> op, result |-> inbuf,
                                         excused |-> gap \/ nested]}
          /\ bpc' = "out"
          /\ UNCHANGED <<mailbox, INTCPU, made, call, op, kdb, mail, host, debugger, reported, gap,
                         disturbed, nested>>

\* A call has stored something, and has not returned.
Midway == op # "ping" /\ bpc \in {"post", "raise", "wait", "halted"}

\* Once a second, at a retrace interrupt between any two instructions of the
\* process: the ping for FromND, and kdb for a debugger that is new.
PingDriver == IF HardclockPings /\ mail /\ ~INTCPU
              THEN /\ id' = "MESSAGE_AVAIL"
                   /\ INTCPU' = TRUE
                   /\ disturbed' = TRUE
              ELSE UNCHANGED <<id, INTCPU, disturbed>>

EnterKdb == /\ level' = "kdb"
            /\ saved' = [op |-> op, bpc |-> bpc]
            /\ bpc' = "out"
            /\ nested' = (nested \/ Midway)
            /\ DebugInitialized' = TRUE

hardclock ==
    /\ level = "process"
    /\ PingDriver
    /\ IF DebugEnabled /\ debug /\ ~DebugInitialized
       THEN EnterKdb
       ELSE /\ DebugInitialized' = (DebugInitialized /\ (DebugEnabled => debug))
            /\ UNCHANGED <<level, saved, bpc, nested>>
    /\ UNCHANGED <<outbuf, inbuf, made, call, op, mail, host, debugger, reported, gap, returned>>

\* The user leaves kdb, and the interrupted call goes on.
KdbReturns == /\ level = "kdb" /\ bpc = "out"
              /\ level' = "process"
              /\ op' = saved.op /\ bpc' = saved.bpc
              /\ saved' = [op |-> "ping", bpc |-> "out"]
              /\ disturbed' = TRUE
              /\ UNCHANGED <<mailbox, INTCPU, made, call, DebugInitialized, mail, host, debugger,
                             reported, gap, nested, returned>>

----------------------------------------------------------------------------
(* The driver.                                                             *)

ND_intr == /\ INTCPU
           /\ INTCPU' = FALSE
           /\ INTR_PENDING' = TRUE
           /\ UNCHANGED <<mailbox, board, kdb, mail, rpc, type, char, debugger, hist>>

\* The reply thread is woken, or did not have to wait.
ReplyWakes == /\ rpc = "pause" /\ INTR_PENDING
              /\ INTR_PENDING' = FALSE
              /\ rpc' = "look"
              /\ UNCHANGED <<mailbox, INTCPU, board, kdb, mail, type, char, debugger, hist>>

\* A request and nobody is interested: fake a send ack to the board.
ReplyFakes == /\ rpc = "look" /\ id \in Requests /\ ~debug
              /\ outbuf' = 0
              /\ id' = "IDLE"
              /\ rpc' = "queue"
              /\ UNCHANGED <<inbuf, INTCPU, board, kdb, mail, INTR_PENDING, type, char, debugger, hist>>

\* Mistake: any word but IDLE is a request.
ReplyLatchesAny == /\ rpc = "look" /\ id # "IDLE" /\ debug
                   /\ type' = id
                   /\ char' = outbuf
                   /\ rpc' = "send"
                   /\ UNCHANGED <<mailbox, INTCPU, board, kdb, mail, INTR_PENDING, debugger, hist>>

\* A request, for which a message is made up.
ReplyLatches == /\ rpc = "look" /\ id \in Requests /\ debug
                /\ type' = id
                /\ char' = outbuf
                /\ rpc' = "send"
                /\ UNCHANGED <<mailbox, INTCPU, board, kdb, mail, INTR_PENDING, debugger, hist>>

ReplyIgnores == /\ rpc = "look" /\ id \notin Requests
                /\ rpc' = "queue"
                /\ UNCHANGED <<mailbox, INTCPU, board, kdb, mail, INTR_PENDING, type, char, debugger, hist>>

\* msg_send to debug_port: it fails when the debugger has gone meanwhile.
SendToDebugger ==
    IF debug THEN /\ inbox' = Append(inbox, [type |-> type, char |-> char])
                  /\ reported' = Append(reported, char)
             ELSE UNCHANGED <<inbox, reported>>

\* Mistake: the acknowledgement of a request for input is IDLE, too.
ReplySendsIdle == /\ rpc = "send"
                  /\ SendToDebugger
                  /\ id' = "IDLE"
                  /\ rpc' = "queue"
                  /\ UNCHANGED <<outbuf, inbuf, INTCPU, board, kdb, mail, INTR_PENDING, type, char,
                                 debug, gap, disturbed, nested, returned>>

\* Mistake: no acknowledgement.
ReplySendsOnly == /\ rpc = "send"
                  /\ SendToDebugger
                  /\ rpc' = "queue"
                  /\ UNCHANGED <<mailbox, INTCPU, board, kdb, mail, INTR_PENDING, type, char,
                                 debug, gap, disturbed, nested, returned>>

\* The message is sent, and the board gets its ack whatever became of it.
ReplySends == /\ rpc = "send"
              /\ SendToDebugger
              /\ id' = IF type = "IN_CHAR" THEN "IN_STAND_BY" ELSE "IDLE"
              /\ rpc' = "queue"
              /\ UNCHANGED <<outbuf, inbuf, INTCPU, board, kdb, mail, INTR_PENDING, type, char,
                             debug, gap, disturbed, nested, returned>>

\* The FromND queue is served, in part or to the end, and the loop restarts.
ReplyQueue == /\ rpc = "queue"
              /\ mail' \in {FALSE, mail}
              /\ rpc' = "pause"
              /\ UNCHANGED <<mailbox, INTCPU, board, kdb, INTR_PENDING, type, char, debugger, hist>>

\* The server thread consumes the interrupt while the reply thread sleeps in
\* msg_send (HostDriver!ServerUnpause).
ServerTakesIntr == /\ ServerPauses
                   /\ rpc \in {"send", "queue"} /\ INTR_PENDING
                   /\ INTR_PENDING' = FALSE
                   /\ disturbed' = TRUE
                   /\ UNCHANGED <<mailbox, INTCPU, board, kdb, mail, rpc, type, char, debugger,
                                  reported, gap, nested, returned>>

----------------------------------------------------------------------------
(* The task behind debug_port.                                             *)

\* ND_Server prints a character or the news of the exit,
DebuggerShows == /\ inbox # <<>> /\ Head(inbox).type # "IN_CHAR"
                 /\ inbox' = Tail(inbox)
                 /\ UNCHANGED <<mailbox, INTCPU, board, kdb, mail, host, debug, hist>>

\* or reads one and calls ND_ConsoleInput.
ND_ConsoleInput == /\ inbox # <<>> /\ Head(inbox).type = "IN_CHAR"
                   /\ inbuf' = Head(inbox).char
                   /\ id' = "IDLE"
                   /\ inbox' = Tail(inbox)
                   /\ UNCHANGED <<outbuf, INTCPU, board, kdb, mail, host, debug, hist>>

ND_SetDebug == /\ ~debug
               /\ debug' = TRUE
               /\ UNCHANGED <<mailbox, INTCPU, board, kdb, mail, host, inbox, hist>>

\* ND_port_death clears debug_port and tells the board nothing.
ND_port_death == /\ debug /\ DebugMayDie
                 /\ debug' = FALSE
                 /\ inbox' = <<>>
                 /\ gap' = TRUE
                 /\ disturbed' = TRUE
                 /\ UNCHANGED <<mailbox, INTCPU, board, kdb, mail, host, reported, nested, returned>>

Reply == \/ ReplyWakes \/ ReplyFakes \/ ReplyLatches \/ ReplyIgnores
         \/ ReplySends \/ ReplyQueue
Board == Drain \/ Fill \/ Post \/ Raise \/ Return
Debugger == DebuggerShows \/ ND_ConsoleInput

Next == \/ \E o \in Calls : Call(o)
        \/ Board \/ hardclock \/ KdbReturns \/ ND_intr \/ Reply \/ ServerTakesIntr
        \/ Debugger \/ ND_SetDebug \/ ND_port_death

\* Both processors run, and the debugger answers.  The process on the board
\* polls all the time, the ping of hardclock comes once a second.
Spec == /\ Init /\ [][Next]_vars
        /\ SF_vars(Board) /\ WF_vars(ND_intr) /\ WF_vars(Reply) /\ WF_vars(Debugger)

----------------------------------------------------------------------------
\* What is sent to the debugger is in the order in which the board's calls have
\* stored it, and none is sent twice, however many interrupts come for it.
ReportedOnceInOrder == \A i, j \in DOMAIN reported : i < j => reported[i] < reported[j]

\* When cn_putc has returned, its character has been sent to the debugger
\* that was there all the time.
PutIsForwarded == \A r \in returned :
    r.op = "put" /\ ~r.excused => \E i \in DOMAIN reported : reported[i] = r.call

\* No character of a cn_putc that has returned is lost, none is shown twice, and
\* none overtakes another, although hardclock may write over the request and the
\* reply thread latches it long before it acknowledges it: as long as kdb has
\* not run in the middle of a call.  Between calls, and until a call has stored
\* its character, it does no harm.
PutsReported == /\ TypeOK
                /\ nested \/ ReportedOnceInOrder
                /\ PutIsForwarded

\* cn_getc returns what the debugger typed for this very call, but for the same.
GetsOwnAnswer == \A r \in returned : r.op = "get" /\ ~r.excused => r.result = r.call

\* The spin loops of the console end, those of kdb's calls, too, unless
\* hardclock used the word, the server thread took the interrupt, or the
\* debugger died during the call, or kdb has run in the middle of one.
UndisturbedReturns ==
    (bpc # "out") ~> (bpc \in {"out", "halted"} \/ disturbed \/ nested)

\* The spin loops of the console end.
CallReturns == (bpc # "out") ~> (bpc \in {"out", "halted"})
=============================================================================
