---------------------------- MODULE ConsoleProofs ----------------------------
(***************************************************************************)
(* The console mailbox, for any number of calls: no character of a         *)
(* cn_putc that has returned is lost, shown twice or overtaken, and        *)
(* cn_getc returns what was typed for it, wherever the retrace interrupt,  *)
(* the reply thread and the debugger come in between; and kdb, too, as     *)
(* long as it has not run in the middle of a call.                         *)
(***************************************************************************)
EXTENDS Console, SequenceTheorems, TLAPS

\* What a call asks of the driver.
Request(o) == CASE o = "put" -> "OUT" [] o = "get" -> "IN_CHAR"
                [] o = "exit" -> "EXIT" [] o = "ping" -> "MESSAGE_AVAIL"

\* The current call has stored its request, and has not returned.
Asked == op # "ping" /\ bpc \in {"raise", "wait", "halted"}

\* Entry k of the debugger's inbox asks for a character.
Asks(k) == inbox[k].type = "IN_CHAR"
NobodyAsks == \A k \in 1..Len(inbox) : ~Asks(k)

ReportedBefore(n) == \A i \in 1..Len(reported) : reported[i] < n
IsReported(n) == \E i \in 1..Len(reported) : reported[i] = n

Numbered == /\ \A i \in 1..Len(reported) : reported[i] <= call
            /\ bpc = "post" /\ op # "ping" => ReportedBefore(call) /\ outbuf = call

\* A request in the mailbox, and the one that is latched, are the current call's,
Stored == id \in Requests => Asked /\ id = Request(op) /\ outbuf = call
Latched == rpc = "send" => /\ Asked /\ type = Request(op) /\ char = call
                           /\ id \in {type, "MESSAGE_AVAIL"}

\* for which nothing has been sent to the debugger so far.
Unreported == id \in Requests \/ rpc = "send" => ReportedBefore(call) /\ NobodyAsks

\* The debugger is asked for one character at a time, for the current call.
StandBy == id = "IN_STAND_BY" => Asked /\ op = "get" /\ rpc # "send"
Asking == \A k \in 1..Len(inbox) : Asks(k) =>
            /\ Asked /\ op = "get" /\ inbox[k].char = call
            /\ id \in {"IN_STAND_BY", "MESSAGE_AVAIL"} /\ rpc # "send"
            /\ \A l \in 1..Len(inbox) : Asks(l) => l = k

\* What the board may conclude from ND_CONIO_IDLE.
Done == id = "IDLE" /\ bpc \in {"raise", "wait"} /\ ~gap =>
          (op = "put" => IsReported(call)) /\ (op = "get" => inbuf = call)
Unattended == ~debug /\ Midway => gap

\* The call that kdb has interrupted had stored nothing so far.
Suspended == level = "kdb" => saved.op = "ping" \/ saved.bpc \in {"out", "drain", "fill"}

Increasing == \A i, j \in 1..Len(reported) : i < j => reported[i] < reported[j]
Returned == \A r \in returned : ~r.excused => /\ r.op = "put" => IsReported(r.call)
                                              /\ r.op = "get" => r.result = r.call

Protocol == /\ Numbered /\ Stored /\ Latched /\ Unreported /\ StandBy /\ Asking
            /\ Done /\ Unattended /\ Suspended /\ Increasing
IInv == TypeOK /\ (nested \/ Protocol) /\ Returned
----------------------------------------------------------------------------
FlagsTyped == {INTCPU, mail, INTR_PENDING, debug, DebugInitialized, gap, disturbed, nested} \subseteq BOOLEAN
OthersTyped ==
  /\ id \in Requests \cup {"IDLE", "MESSAGE_AVAIL", "IN_STAND_BY"}
  /\ made \in 0..NCalls /\ outbuf \in Nat /\ inbuf \in Nat /\ call \in Nat /\ char \in Nat
  /\ op \in Calls /\ bpc \in Places
  /\ level \in {"process", "kdb"} /\ saved \in [op : Calls, bpc : Places]
  /\ rpc \in {"pause", "look", "send", "queue"}
  /\ type \in Requests
  /\ inbox \in Seq(Message) /\ reported \in Seq(Nat)
  /\ \A r \in returned : r.call \in Nat /\ r.result \in Nat

LEMMA TypedParts ==
  /\ TypeOK <=> FlagsTyped /\ OthersTyped
  /\ TypeOK' <=> FlagsTyped' /\ OthersTyped'
<1>1. TypeOK <=> FlagsTyped /\ OthersTyped
  BY Zenon DEF TypeOK, FlagsTyped, OthersTyped
<1>2. TypeOK' <=> FlagsTyped' /\ OthersTyped'
  BY Zenon DEF TypeOK, FlagsTyped, OthersTyped
<1> QED BY <1>1, <1>2

LEMMA FlagsStep == FlagsTyped /\ [Next]_vars => FlagsTyped'
BY Zenon DEF FlagsTyped, vars, board, kdb, host, debugger, mailbox, hist, Next, Board, Reply, Debugger,
             Call, Drain, Fill, Post, Raise, Return, hardclock, PingDriver, EnterKdb, KdbReturns, ND_intr, ReplyWakes, ReplyFakes, ReplyLatches,
             ReplyIgnores, ReplySends, SendToDebugger, ReplyQueue, ServerTakesIntr, DebuggerShows,
             ND_ConsoleInput, ND_SetDebug, ND_port_death

LEMMA Appended ==
  ASSUME NEW S, NEW s \in Seq(S), NEW x \in S
  PROVE  /\ Append(s, x) \in Seq(S) /\ Len(s) \in Nat /\ Len(Append(s, x)) = Len(s) + 1
         /\ \A i \in 1..Len(s) : Append(s, x)[i] = s[i]
         /\ Append(s, x)[Len(s) + 1] = x
BY AppendProperties, LenProperties

LEMMA TailAt ==
  ASSUME NEW S, NEW s \in Seq(S), s # <<>>
  PROVE  /\ Tail(s) \in Seq(S) /\ Head(s) = s[1] /\ Head(s) \in S /\ 1 \in 1..Len(s)
         /\ \A i \in 1..Len(Tail(s)) : Tail(s)[i] = s[i + 1] /\ i + 1 \in 1..Len(s) /\ i + 1 # 1 /\ i \in Nat
<1> DEFINE t == Tail(s)
<1>1. /\ t \in Seq(S) /\ Len(s) \in Nat \ {0} /\ Len(t) = Len(s) - 1 /\ Head(s) = s[1] /\ Head(s) \in S
      /\ \A j \in 1..Len(s)-1 : t[j] = s[j + 1]
  BY HeadTailProperties, LenProperties
<1> HIDE DEF t
<1>2. \A i \in 1..Len(t) : t[i] = s[i + 1] /\ i + 1 \in 1..Len(s) /\ i + 1 # 1 /\ i \in Nat
  BY <1>1
<1> QED
  BY <1>1, <1>2 DEF t

LEMMA SendTyped ==
  ASSUME OthersTyped, SendToDebugger
  PROVE  inbox' \in Seq(Message) /\ reported' \in Seq(Nat)
<1>1. char \in Nat /\ [type |-> type, char |-> char] \in Message
  BY DEF OthersTyped, Message
<1>2. inbox \in Seq(Message) /\ reported \in Seq(Nat)
  BY DEF OthersTyped
<1>3. /\ Append(inbox, [type |-> type, char |-> char]) \in Seq(Message)
      /\ Append(reported, char) \in Seq(Nat)
  BY <1>1, <1>2, Appended
<1> QED
  BY <1>2, <1>3 DEF SendToDebugger

\* Every variable keeps its type.
LEMMA TypeStep == IInv /\ [Next]_vars => TypeOK'
<1> SUFFICES ASSUME OthersTyped, [Next]_vars PROVE OthersTyped'
  BY TypedParts, FlagsStep DEF IInv
<1> USE ConsoleAssumption DEF OthersTyped, board, kdb, host, debugger, mailbox, hist, Requests, Calls, Places
<1>1. CASE UNCHANGED vars
  BY <1>1 DEF vars
<1>2. ASSUME NEW o \in Calls, Call(o) PROVE OthersTyped'
  BY <1>2 DEF Call
<1>3. CASE Drain \/ Fill \/ Post
  <2>1. CASE Drain
    BY <2>1 DEF Drain
  <2>2. CASE Fill
    BY <2>2 DEF Fill
  <2>3. CASE Post
    BY <2>3 DEF Post
  <2> QED BY <1>3, <2>1, <2>2, <2>3
<1>4. CASE Raise
  BY <1>4 DEF Raise
<1>5. CASE Return
  <2>1. \A r \in returned' : r.call \in Nat /\ r.result \in Nat
    <3> SUFFICES ASSUME NEW r \in returned' PROVE r.call \in Nat /\ r.result \in Nat
      OBVIOUS
    <3>1. CASE r \in returned
      BY <3>1
    <3>2. CASE r.call = call /\ r.result = inbuf
      BY <3>2
    <3> QED BY <1>5, <3>1, <3>2 DEF Return
  <2> QED BY <1>5, <2>1 DEF Return
<1>6. CASE hardclock
  BY <1>6 DEF hardclock, PingDriver, EnterKdb
<1>13. CASE KdbReturns
  BY <1>13 DEF KdbReturns
<1>14. CASE ND_intr
  BY <1>14 DEF ND_intr
<1>7. CASE ReplyWakes \/ ReplyFakes \/ ReplyLatches \/ ReplyIgnores \/ ReplyQueue \/ ServerTakesIntr
  <2>1. CASE ReplyWakes
    BY <2>1 DEF ReplyWakes
  <2>4. CASE ReplyIgnores
    BY <2>4 DEF ReplyIgnores
  <2>5. CASE ReplyQueue
    BY <2>5 DEF ReplyQueue
  <2>6. CASE ServerTakesIntr
    BY <2>6 DEF ServerTakesIntr
  <2>2. CASE ReplyFakes
    BY <2>2 DEF ReplyFakes
  <2>3. CASE ReplyLatches
    BY <2>3 DEF ReplyLatches
  <2> QED BY <1>7, <2>1, <2>2, <2>3, <2>4, <2>5, <2>6
<1>8. CASE ReplySends
  <2>1. inbox' \in Seq(Message) /\ reported' \in Seq(Nat)
    BY <1>8, SendTyped DEF ReplySends
  <2> QED BY <1>8, <2>1 DEF ReplySends
<1>9. CASE DebuggerShows
  <2>1. Tail(inbox) \in Seq(Message)
    BY <1>9, TailAt DEF DebuggerShows
  <2> QED BY <1>9, <2>1 DEF DebuggerShows
<1>10. CASE ND_ConsoleInput
  <2>1. Tail(inbox) \in Seq(Message) /\ Head(inbox) \in Message
    BY <1>10, TailAt DEF ND_ConsoleInput
  <2> QED BY <1>10, <2>1 DEF ND_ConsoleInput, Message
<1>11. CASE ND_SetDebug
  BY <1>11 DEF ND_SetDebug
<1>12. CASE ND_port_death
  BY <1>12, EmptySeq DEF ND_port_death
<1> QED
  BY <1>1, <1>2, <1>3, <1>4, <1>5, <1>6, <1>7, <1>8, <1>9, <1>10, <1>11, <1>12, <1>13, <1>14
  DEF Next, Board, Reply, Debugger
----------------------------------------------------------------------------
\* Until a call posts its request nobody has one of the board, or asks for input.
LEMMA Quiet ==
  ASSUME OthersTyped, Protocol, ~(op # "ping" /\ bpc \in {"raise", "wait", "halted"})
  PROVE  id \in {"IDLE", "MESSAGE_AVAIL"} /\ rpc # "send" /\ NobodyAsks
BY DEF OthersTyped, Protocol, Stored, Latched, StandBy, Asking, NobodyAsks, Asked

LEMMA RequestOf ==
  ASSUME NEW o \in Calls
  PROVE  /\ o = "put" <=> Request(o) = "OUT"
         /\ o = "get" <=> Request(o) = "IN_CHAR"
         /\ o = "exit" <=> Request(o) = "EXIT"
         /\ o = "ping" <=> Request(o) = "MESSAGE_AVAIL"
         /\ o # "ping" <=> Request(o) \in Requests
BY DEF Request, Requests, Calls

\* A step that leaves the call, the request and the reports alone.
LEMMA Unaffected ==
  ASSUME Protocol, UNCHANGED <<id, outbuf, inbuf, call, op, bpc, level, saved, type, char, debug, inbox, reported, gap>>,
         rpc' = rpc \/ (rpc # "send" /\ rpc' # "send")
  PROVE  Protocol'
BY DEF Protocol, Numbered, Stored, Latched, Unreported, StandBy, Asking, Done, Unattended, Suspended,
       Increasing, Asked, Asks, Midway, NobodyAsks, ReportedBefore, IsReported

\* Nobody has a request, and the board goes to a place where it has none.
LEMMA Elsewhere ==
  ASSUME OthersTyped, Protocol, ~(op # "ping" /\ bpc \in {"raise", "wait", "halted"}),
         ~(op' # "ping" /\ bpc' \in {"post", "raise", "wait", "halted"}),
         Suspended', id' \in {"IDLE", "MESSAGE_AVAIL"},
         UNCHANGED <<outbuf, inbuf, call, rpc, type, char, debug, inbox, reported>>
  PROVE  Protocol'
<1>1. rpc # "send" /\ NobodyAsks
  BY Quiet
<1>2. Numbered' /\ Unattended' /\ Increasing'
  BY DEF Protocol, Numbered, Unattended, Increasing, Midway
<1>3. Done'
  BY DEF Done
<1>4. Stored' /\ Latched' /\ Unreported' /\ StandBy'
  BY <1>1 DEF Stored, Latched, Unreported, StandBy, Requests
<1>5. Asking'
  BY <1>1 DEF Asking, NobodyAsks, Asks
<1> QED
  BY <1>2, <1>3, <1>4, <1>5 DEF Protocol

LEMMA CallStep ==
  ASSUME OthersTyped, Protocol, NEW o \in Calls, Call(o)
  PROVE  Protocol'
<1>1. /\ bpc = "out" /\ bpc' = "drain"
      /\ UNCHANGED <<id, outbuf, inbuf, call, level, saved, rpc, type, char, debug, inbox, reported>>
  BY DEF Call, mailbox, host, debugger, kdb
<1>2. id \in {"IDLE", "MESSAGE_AVAIL"} /\ Suspended'
  BY <1>1, Quiet DEF Protocol, Suspended
<1> QED
  BY <1>1, <1>2, Elsewhere

LEMMA DrainStep ==
  ASSUME OthersTyped, Protocol, Drain
  PROVE  Protocol'
<1>1. /\ bpc = "drain" /\ op' = op /\ bpc' = IF op = "ping" THEN "post" ELSE "fill"
      /\ UNCHANGED <<id, outbuf, inbuf, call, level, saved, rpc, type, char, debug, inbox, reported>>
  BY DEF Drain, mailbox, host, debugger, kdb, hist
<1>2. id \in {"IDLE", "MESSAGE_AVAIL"} /\ Suspended'
  BY <1>1, Quiet DEF Protocol, Suspended
<1> QED
  BY <1>1, <1>2, Elsewhere

LEMMA FillStep ==
  ASSUME OthersTyped, Protocol, Fill
  PROVE  Protocol'
<1>1. /\ bpc = "fill" /\ bpc' = "post" /\ call' = call + 1 /\ outbuf' = call' /\ call \in Nat
      /\ UNCHANGED <<id, inbuf, op, level, saved, rpc, type, char, debug, inbox, reported>>
      /\ id \in {"IDLE", "MESSAGE_AVAIL"} /\ rpc # "send" /\ NobodyAsks
  BY Quiet DEF Fill, OthersTyped, kdb, host, debugger
<1>2. gap' = ~debug
  BY DEF Fill
<1>3. ASSUME NEW i \in 1..Len(reported) PROVE reported[i] < call' /\ reported[i] <= call'
  <2>1. reported \in Seq(Nat) /\ reported[i] <= call
    BY DEF Protocol, Numbered, OthersTyped
  <2>2. reported[i] \in Nat
    BY <2>1, ElementOfSeq
  <2> QED BY <1>1, <2>1, <2>2
<1>4. Numbered'
  BY <1>1, <1>3 DEF Numbered, ReportedBefore
<1>5. Unattended' /\ Done'
  BY <1>1, <1>2 DEF Unattended, Done
<1>6. Stored' /\ Latched' /\ Unreported' /\ StandBy'
  BY <1>1 DEF Stored, Latched, Unreported, StandBy, Requests
<1>7. Asking'
  BY <1>1 DEF Asking, NobodyAsks, Asks
<1>8. Increasing' /\ Suspended'
  BY <1>1 DEF Protocol, Increasing, Suspended
<1> QED
  BY <1>4, <1>5, <1>6, <1>7, <1>8 DEF Protocol

LEMMA PostStep ==
  ASSUME OthersTyped, Protocol, Post
  PROVE  Protocol'
<1>1. /\ bpc = "post" /\ id' = Request(op) /\ bpc' = "raise"
      /\ UNCHANGED <<outbuf, inbuf, call, op, level, saved, rpc, type, char, debug, inbox, reported, gap>>
  BY DEF Post, Request, host, debugger, hist, kdb
<1>2. rpc # "send" /\ NobodyAsks /\ op \in Calls
  BY <1>1, Quiet DEF OthersTyped
<1>3. id' \in Requests <=> op # "ping"
  BY <1>1, <1>2, RequestOf DEF Request, Requests
<1>4. id' # "IDLE" /\ id' # "IN_STAND_BY"
  BY <1>1, <1>2 DEF Request, Calls
<1>5. Numbered' /\ Unattended' /\ Increasing' /\ Suspended'
  BY <1>1 DEF Protocol, Numbered, Unattended, Increasing, Suspended, Midway
<1>6. Stored' /\ Latched' /\ StandBy' /\ Done'
  BY <1>1, <1>2, <1>3, <1>4 DEF Protocol, Numbered, Stored, Latched, StandBy, Done, Asked
<1>7. Unreported' /\ Asking'
  BY <1>1, <1>2, <1>3 DEF Protocol, Numbered, Unreported, Asking, NobodyAsks, Asks, ReportedBefore
<1> QED
  BY <1>5, <1>6, <1>7 DEF Protocol

LEMMA RaiseStep ==
  ASSUME OthersTyped, Protocol, Raise
  PROVE  Protocol'
<1>1. /\ bpc = "raise" /\ bpc' \in {"out", "halted", "wait"}
      /\ (op = "ping" <=> bpc' = "out") /\ (op = "exit" <=> bpc' = "halted")
      /\ UNCHANGED <<id, outbuf, inbuf, call, op, level, saved, rpc, type, char, debug, inbox, reported, gap>>
  BY DEF Raise, kdb, host, debugger, hist, mailbox
<1>2. Asked' <=> Asked
  BY <1>1 DEF Asked
<1>3. Numbered' /\ Unattended' /\ Increasing' /\ Suspended' /\ Done'
  BY <1>1 DEF Protocol, Numbered, Unattended, Increasing, Suspended, Done, Midway, IsReported
<1>4. Stored' /\ Latched' /\ StandBy'
  BY <1>1, <1>2 DEF Protocol, Stored, Latched, StandBy
<1>5. Unreported' /\ Asking'
  BY <1>1, <1>2 DEF Protocol, Unreported, Asking, NobodyAsks, Asks, ReportedBefore
<1> QED
  BY <1>3, <1>4, <1>5 DEF Protocol

LEMMA ReturnStep ==
  ASSUME OthersTyped, Protocol, Return
  PROVE  Protocol'
<1>1. /\ bpc = "wait" /\ id = "IDLE" /\ bpc' = "out"
      /\ UNCHANGED <<id, outbuf, inbuf, call, op, level, saved, rpc, type, char, debug, inbox, reported, gap>>
  BY DEF Return, host, debugger, mailbox, kdb
<1>2. rpc # "send" /\ NobodyAsks
  BY <1>1 DEF Protocol, Latched, Asking, NobodyAsks, OthersTyped, Requests
<1>4. Numbered' /\ Unattended' /\ Increasing' /\ Suspended' /\ Done'
  BY <1>1 DEF Protocol, Numbered, Unattended, Increasing, Suspended, Done, Midway
<1>5. Stored' /\ Latched' /\ StandBy' /\ Unreported' /\ Asking'
  BY <1>1, <1>2 DEF Stored, Latched, StandBy, Unreported, Asking, NobodyAsks, Asks, Requests
<1> QED
  BY <1>4, <1>5 DEF Protocol

\* hardclock's ping, whatever request it writes over.
LEMMA PingStep ==
  ASSUME OthersTyped, Protocol, id' = "MESSAGE_AVAIL",
         UNCHANGED <<outbuf, inbuf, call, op, bpc, level, saved, rpc, type, char, debug, inbox, reported, gap>>
  PROVE  Protocol'
<1>2. Numbered' /\ Unattended' /\ Increasing' /\ Suspended' /\ Done'
  BY DEF Protocol, Numbered, Unattended, Increasing, Suspended, Done, Midway, ReportedBefore
<1>3. Stored' /\ StandBy' /\ Latched'
  BY DEF Protocol, Stored, StandBy, Latched, Requests, Asked
<1>4. Unreported' /\ Asking'
  BY DEF Protocol, Unreported, Asking, NobodyAsks, Asks, Asked, Requests, ReportedBefore
<1> QED
  BY <1>2, <1>3, <1>4 DEF Protocol

\* kdb comes in while the call has stored nothing, or hardclock at most pings.
LEMMA HardclockStep ==
  ASSUME OthersTyped, Protocol, hardclock, ~nested'
  PROVE  Protocol'
<1>1. /\ id' = "MESSAGE_AVAIL" \/ id' = id
      /\ UNCHANGED <<outbuf, inbuf, call, op, rpc, type, char, debug, inbox, reported, gap>>
  BY DEF hardclock, PingDriver, host, debugger
<1>2. CASE EnterKdb
  <2>1. /\ saved' = [op |-> op, bpc |-> bpc] /\ bpc' = "out"
        /\ ~Midway /\ op \in Calls /\ bpc \in Places
    BY <1>2 DEF EnterKdb, OthersTyped
  <2>2. Suspended' /\ ~(op # "ping" /\ bpc \in {"raise", "wait", "halted"})
    BY <2>1 DEF Suspended, Midway, Places
  <2>3. id' \in {"IDLE", "MESSAGE_AVAIL"}
    BY <1>1, <2>2, Quiet
  <2> QED BY <1>1, <2>1, <2>2, <2>3, Elsewhere
<1>3. CASE UNCHANGED <<level, saved, bpc>> /\ id' = id
  BY <1>1, <1>3, Unaffected
<1>4. CASE UNCHANGED <<level, saved, bpc>> /\ id' = "MESSAGE_AVAIL"
  BY <1>1, <1>4, PingStep
<1> QED
  BY <1>1, <1>2, <1>3, <1>4 DEF hardclock

\* The interrupted call goes on where it was, and has stored nothing.
LEMMA KdbReturnsStep ==
  ASSUME OthersTyped, Protocol, KdbReturns
  PROVE  Protocol'
<1>1. /\ level = "kdb" /\ bpc = "out" /\ level' = "process" /\ op' = saved.op /\ bpc' = saved.bpc
      /\ UNCHANGED <<id, outbuf, inbuf, call, rpc, type, char, debug, inbox, reported>>
  BY DEF KdbReturns, host, debugger, mailbox
<1>2. id \in {"IDLE", "MESSAGE_AVAIL"} /\ Suspended'
  BY <1>1, Quiet DEF Suspended
<1>3. ~(op' # "ping" /\ bpc' \in {"post", "raise", "wait", "halted"})
  BY <1>1 DEF Protocol, Suspended
<1> QED
  BY <1>1, <1>2, <1>3, Elsewhere

LEMMA FakesStep ==
  ASSUME OthersTyped, Protocol, ReplyFakes
  PROVE  Protocol'
<1>1. /\ rpc = "look" /\ id \in Requests /\ id' = "IDLE" /\ rpc' = "queue" /\ ~debug
      /\ UNCHANGED <<inbuf, call, op, bpc, level, saved, type, char, debug, inbox, reported, gap>>
  BY DEF ReplyFakes, kdb, board, debugger, hist
<1>2. NobodyAsks /\ Asked
  BY <1>1 DEF Protocol, Unreported, Stored
<1>3. gap
  BY <1>1, <1>2 DEF Protocol, Unattended, Midway, Asked
<1>4. Numbered' /\ Unattended' /\ Increasing' /\ Suspended'
  BY <1>1, <1>2 DEF Protocol, Numbered, Unattended, Midway, Increasing, Suspended, Asked
<1>5. Done'
  BY <1>1, <1>3 DEF Done
<1>6. Stored' /\ Latched' /\ Unreported' /\ StandBy' /\ Asking'
  BY <1>1, <1>2 DEF Stored, Latched, Unreported, StandBy, Asking, NobodyAsks, Asks, Requests
<1> QED
  BY <1>4, <1>5, <1>6 DEF Protocol

LEMMA LatchesStep ==
  ASSUME OthersTyped, Protocol, ReplyLatches
  PROVE  Protocol'
<1>1. /\ rpc = "look" /\ id \in Requests /\ type' = id /\ char' = outbuf /\ rpc' = "send"
      /\ UNCHANGED <<id, outbuf, inbuf, call, op, bpc, level, saved, debug, inbox, reported, gap>>
  BY DEF ReplyLatches, kdb, mailbox, board, debugger, hist
<1>2. Asked /\ id = Request(op) /\ outbuf = call /\ ReportedBefore(call) /\ NobodyAsks
  BY <1>1 DEF Protocol, Unreported, Stored
<1>3. Numbered' /\ Unattended' /\ Increasing' /\ Suspended' /\ Done'
  BY <1>1 DEF Protocol, Numbered, Unattended, Midway, Increasing, Suspended, Done, ReportedBefore, IsReported
<1>4. Stored' /\ Latched' /\ StandBy'
  BY <1>1, <1>2 DEF Stored, Latched, StandBy, Asked, Requests
<1>5. Unreported' /\ Asking'
  BY <1>1, <1>2 DEF Unreported, Asking, NobodyAsks, Asks, ReportedBefore
<1> QED
  BY <1>3, <1>4, <1>5 DEF Protocol

\* The reply thread reports the call and acknowledges its request.
LEMMA SendsStep ==
  ASSUME OthersTyped, Protocol, ReplySends
  PROVE  Protocol'
<1>0. /\ rpc = "send" /\ rpc' = "queue"
      /\ id' = IF type = "IN_CHAR" THEN "IN_STAND_BY" ELSE "IDLE"
      /\ UNCHANGED <<outbuf, inbuf, call, op, bpc, level, saved, type, char, debug, gap>>
  BY DEF ReplySends, kdb, board
<1>1. /\ Asked /\ type = Request(op) /\ char = call /\ char \in Nat
      /\ ReportedBefore(call) /\ NobodyAsks /\ op \in {"put", "get", "exit"}
      /\ inbox \in Seq(Message) /\ reported \in Seq(Nat)
  BY <1>0, SendTyped DEF Protocol, Latched, Unreported, Asked, ReplySends, OthersTyped, Calls
<1>2. id' \in {"IN_STAND_BY", "IDLE"} /\ (id' = "IN_STAND_BY" <=> op = "get")
  BY <1>0, <1>1, RequestOf DEF Calls
<1>3. ASSUME debug
      PROVE  inbox' = Append(inbox, [type |-> type, char |-> char]) /\ reported' = Append(reported, char)
  BY <1>3 DEF ReplySends, SendToDebugger
<1>4. ASSUME ~debug PROVE inbox' = inbox /\ reported' = reported /\ gap
  <2>1. gap
    BY <1>1, <1>4 DEF Protocol, Unattended, Midway, Asked
  <2> QED BY <1>4, <2>1 DEF ReplySends, SendToDebugger
<1>5. ASSUME debug
      PROVE  /\ Len(reported') = Len(reported) + 1 /\ Len(reported) \in Nat
             /\ reported'[Len(reported) + 1] = call
             /\ \A i \in 1..Len(reported) : reported'[i] = reported[i]
  <2>1. reported \in Seq(Nat) /\ char \in Nat /\ char = call
    BY <1>1
  <2>2. reported' = Append(reported, char)
    BY <1>3, <1>5
  <2>3. /\ Len(Append(reported, char)) = Len(reported) + 1 /\ Len(reported) \in Nat
        /\ Append(reported, char)[Len(reported) + 1] = char
        /\ \A i \in 1..Len(reported) : Append(reported, char)[i] = reported[i]
    BY <2>1, Appended
  <2> QED BY <2>1, <2>2, <2>3
<1>6. ASSUME debug
      PROVE  /\ \A k \in 1..Len(inbox') : \/ k \in 1..Len(inbox) /\ inbox'[k] = inbox[k]
                                          \/ k = Len(inbox) + 1 /\ inbox'[k] = [type |-> type, char |-> call]
  <2>1. [type |-> type, char |-> char] \in Message
    BY <1>1 DEF Message, OthersTyped
  <2>2. /\ Len(inbox') = Len(inbox) + 1 /\ Len(inbox) \in Nat
        /\ inbox'[Len(inbox) + 1] = [type |-> type, char |-> char]
        /\ \A i \in 1..Len(inbox) : inbox'[i] = inbox[i]
    <3> DEFINE m == [type |-> type, char |-> char]
    <3>1. inbox \in Seq(Message) /\ m \in Message
      BY <1>1, <2>1
    <3>2. inbox' = Append(inbox, m)
      BY <1>3, <1>6
    <3> HIDE DEF m
    <3>3. /\ Len(Append(inbox, m)) = Len(inbox) + 1 /\ Len(inbox) \in Nat
          /\ Append(inbox, m)[Len(inbox) + 1] = m
          /\ \A i \in 1..Len(inbox) : Append(inbox, m)[i] = inbox[i]
      BY <3>1, Appended
    <3>4. /\ Len(inbox') = Len(inbox) + 1 /\ Len(inbox) \in Nat
          /\ inbox'[Len(inbox) + 1] = m
          /\ \A i \in 1..Len(inbox) : inbox'[i] = inbox[i]
      BY <3>2, <3>3
    <3> QED BY <3>4 DEF m
  <2>3. char = call
    BY <1>1
  <2> QED BY <2>2, <2>3
<1>7. /\ \A i \in 1..Len(reported') : reported'[i] <= call
      /\ Increasing'
      /\ \A n : IsReported(n) => IsReported(n)'
      /\ debug => IsReported(call)'
  <2>1. CASE debug
    <3>0. call \in Int
      BY <1>1
    <3>1. \A i \in 1..Len(reported') : \/ i \in 1..Len(reported) /\ reported'[i] = reported[i] /\ reported[i] < call
                                       \/ i = Len(reported) + 1 /\ reported'[i] = call
      BY <1>1, <1>5, <2>1 DEF ReportedBefore
    <3>2. ASSUME NEW i \in 1..Len(reported') PROVE reported'[i] <= call
      <4>1. reported \in Seq(Nat)
        BY <1>1
      <4>2. ASSUME NEW j \in 1..Len(reported) PROVE reported[j] \in Nat
        BY <4>1, ElementOfSeq
      <4>3. \A j \in 1..Len(reported) : reported[j] \in Int
        BY <4>2, ConsoleAssumption
      <4> QED BY <3>0, <3>1, <4>3
    <3>3. Increasing'
      <4> SUFFICES ASSUME NEW i \in 1..Len(reported'), NEW j \in 1..Len(reported'), i < j
                   PROVE  reported'[i] < reported'[j]
        BY DEF Increasing
      <4>1. i \in 1..Len(reported) /\ reported'[i] = reported[i] /\ reported[i] < call
        BY <1>5, <2>1, <3>1
      <4> QED BY <3>1, <4>1 DEF Protocol, Increasing
    <3>4. \A n : IsReported(n) => IsReported(n)'
      BY <1>5, <2>1 DEF IsReported
    <3>5. IsReported(call)'
      <4>1. Len(reported) + 1 \in 1..Len(reported')
        BY <1>5, <2>1
      <4> QED BY <1>0, <1>5, <2>1, <4>1 DEF IsReported
    <3> QED BY <3>2, <3>3, <3>4, <3>5
  <2>2. CASE ~debug
    BY <1>4, <2>2 DEF Protocol, Numbered, Increasing, IsReported
  <2> QED BY <2>1, <2>2
<1>8. Numbered' /\ Unattended'
  BY <1>0, <1>1, <1>7 DEF Protocol, Numbered, Unattended, Midway, Asked
<1>9. Done'
  <2>1. CASE debug
    BY <1>0, <1>2, <1>7, <2>1 DEF Done
  <2>2. CASE ~debug
    BY <1>0, <1>4, <2>2 DEF Done
  <2> QED BY <2>1, <2>2
<1>10. Suspended'
  BY <1>0 DEF Protocol, Suspended
<1>11. Stored' /\ Latched' /\ Unreported' /\ StandBy'
  BY <1>0, <1>1, <1>2 DEF Stored, Latched, Unreported, StandBy, Asked, Requests
<1>12. Asking'
  <2>1. CASE debug
    <3>1. \A k \in 1..Len(inbox') : (inbox'[k].type = "IN_CHAR") =>
             k = Len(inbox) + 1 /\ inbox'[k].char = call /\ type = "IN_CHAR"
      BY <1>1, <1>6, <2>1 DEF NobodyAsks, Asks
    <3>2. type = "IN_CHAR" => op = "get" /\ id' = "IN_STAND_BY"
      BY <1>0, <1>1, RequestOf DEF Calls
    <3> QED BY <1>0, <1>1, <3>1, <3>2 DEF Asking, Asks, Asked
  <2>2. CASE ~debug
    BY <1>1, <1>4, <2>2 DEF Asking, NobodyAsks, Asks
  <2> QED BY <2>1, <2>2
<1> QED
  BY <1>7, <1>8, <1>9, <1>10, <1>11, <1>12 DEF Protocol

\* The debugger takes what is first in its inbox.
LEMMA InboxTaken ==
  ASSUME OthersTyped, Asking, inbox # <<>>, inbox' = Tail(inbox)
  PROVE  /\ \A k \in 1..Len(inbox') : /\ inbox'[k] = inbox[k + 1] /\ k + 1 \in 1..Len(inbox)
                                      /\ k + 1 # 1 /\ k \in Nat
         /\ Head(inbox) = inbox[1] /\ 1 \in 1..Len(inbox)
BY TailAt DEF OthersTyped

LEMMA ShowsStep ==
  ASSUME OthersTyped, Protocol, DebuggerShows
  PROVE  Protocol'
<1>1. /\ inbox # <<>> /\ inbox' = Tail(inbox)
      /\ UNCHANGED <<id, outbuf, inbuf, call, op, bpc, level, saved, rpc, type, char, debug, reported, gap>>
  BY DEF DebuggerShows, kdb, mailbox, board, host, hist
<1>2. \A k \in 1..Len(inbox') : inbox'[k] = inbox[k + 1] /\ k + 1 \in 1..Len(inbox) /\ k \in Nat
  BY <1>1, InboxTaken DEF Protocol
<1>3. /\ Numbered' /\ Unattended' /\ Increasing' /\ Suspended' /\ Done' /\ Stored' /\ Latched' /\ StandBy'
      /\ ReportedBefore(call)' = ReportedBefore(call)
  BY <1>1 DEF Protocol, Numbered, Unattended, Midway, Increasing, Suspended, Done, Stored, Latched, StandBy,
              Asked, ReportedBefore, IsReported
<1>4. NobodyAsks => NobodyAsks'
  BY <1>2 DEF NobodyAsks, Asks
<1>5. Unreported'
  BY <1>1, <1>4 DEF Protocol, Unreported, ReportedBefore
<1>6. Asking'
  <2> SUFFICES ASSUME NEW k \in 1..Len(inbox'), inbox'[k].type = "IN_CHAR"
               PROVE  /\ Asked' /\ op' = "get" /\ inbox'[k].char = call'
                      /\ id' \in {"IN_STAND_BY", "MESSAGE_AVAIL"} /\ rpc' # "send"
                      /\ \A l \in 1..Len(inbox') : inbox'[l].type = "IN_CHAR" => l = k
    BY DEF Asking, Asks
  <2>1. inbox'[k] = inbox[k + 1] /\ k + 1 \in 1..Len(inbox) /\ Asks(k + 1)
    BY <1>2 DEF Asks
  <2>2. /\ Asked /\ op = "get" /\ inbox[k + 1].char = call
        /\ id \in {"IN_STAND_BY", "MESSAGE_AVAIL"} /\ rpc # "send"
        /\ \A l \in 1..Len(inbox) : Asks(l) => l = k + 1
    BY <2>1 DEF Protocol, Asking
  <2>3. ASSUME NEW l \in 1..Len(inbox'), inbox'[l].type = "IN_CHAR" PROVE l = k
    <3>1. l + 1 \in 1..Len(inbox) /\ Asks(l + 1)
      BY <1>2, <2>3 DEF Asks
    <3>2. l + 1 = k + 1
      BY <2>2, <3>1
    <3> QED BY <1>2, <3>2
  <2> QED BY <1>1, <2>1, <2>2, <2>3 DEF Asked
<1> QED
  BY <1>3, <1>5, <1>6 DEF Protocol

\* What ND_ConsoleInput stores is for the call that waits for it.
LEMMA InputStep ==
  ASSUME OthersTyped, Protocol, ND_ConsoleInput
  PROVE  Protocol'
<1>1. /\ inbox # <<>> /\ inbox' = Tail(inbox) /\ Head(inbox).type = "IN_CHAR"
      /\ inbuf' = Head(inbox).char /\ id' = "IDLE"
      /\ UNCHANGED <<outbuf, call, op, bpc, level, saved, rpc, type, char, debug, reported, gap>>
  BY DEF ND_ConsoleInput, kdb, board, host, hist
<1>2. /\ \A k \in 1..Len(inbox') : inbox'[k] = inbox[k + 1] /\ k + 1 \in 1..Len(inbox) /\ k + 1 # 1
      /\ Head(inbox) = inbox[1] /\ 1 \in 1..Len(inbox)
  BY <1>1, InboxTaken DEF Protocol
<1>3. /\ Asked /\ op = "get" /\ inbox[1].char = call /\ rpc # "send"
      /\ \A l \in 1..Len(inbox) : Asks(l) => l = 1
  BY <1>1, <1>2 DEF Protocol, Asking, Asks
<1>4. NobodyAsks'
  BY <1>2, <1>3 DEF NobodyAsks, Asks
<1>5. Numbered' /\ Unattended' /\ Increasing' /\ Suspended'
  BY <1>1 DEF Protocol, Numbered, Unattended, Midway, Increasing, Suspended, ReportedBefore, IsReported
<1>6. Done'
  BY <1>1, <1>2, <1>3 DEF Done
<1>7. Stored' /\ Latched' /\ StandBy' /\ Unreported' /\ Asking'
  BY <1>1, <1>3, <1>4 DEF Stored, Latched, StandBy, Unreported, Asking, NobodyAsks, Requests
<1> QED
  BY <1>5, <1>6, <1>7 DEF Protocol

LEMMA SetDebugStep ==
  ASSUME OthersTyped, Protocol, ND_SetDebug
  PROVE  Protocol'
<1>1. debug' /\ UNCHANGED <<id, outbuf, inbuf, call, op, bpc, level, saved, rpc, type, char, inbox, reported, gap>>
  BY DEF ND_SetDebug, kdb, mailbox, board, host, hist
<1> QED
  BY <1>1 DEF Protocol, Numbered, Stored, Latched, Unreported, StandBy, Asking, Done, Unattended,
              Increasing, Suspended, Midway, Asked, Asks, NobodyAsks, ReportedBefore, IsReported

LEMMA DeathStep ==
  ASSUME OthersTyped, Protocol, ND_port_death
  PROVE  Protocol'
<1>1. /\ inbox' = <<>> /\ gap'
      /\ UNCHANGED <<id, outbuf, inbuf, call, op, bpc, level, saved, rpc, type, char, reported>>
  BY DEF ND_port_death, kdb, mailbox, board, host
<1>2. Len(inbox') = 0
  BY <1>1
<1>3. Unattended' /\ Done'
  BY <1>1 DEF Unattended, Done
<1>4. NobodyAsks' /\ Asking'
  BY <1>2 DEF NobodyAsks, Asking
<1>5. Numbered' /\ Increasing' /\ Suspended' /\ Stored' /\ Latched' /\ StandBy'
  BY <1>1 DEF Protocol, Numbered, Increasing, Suspended, Stored, Latched, StandBy,
              Asked, ReportedBefore, IsReported
<1>6. Unreported'
  BY <1>1, <1>4 DEF Protocol, Unreported, ReportedBefore
<1> QED
  BY <1>3, <1>4, <1>5, <1>6 DEF Protocol

LEMMA NestedStays == nested /\ [Next]_vars => nested'
BY Zenon DEF vars, hist, Next, Board, Reply, Debugger, Call, Drain, Fill, Post, Raise, Return, hardclock,
             EnterKdb, KdbReturns, ND_intr, ReplyWakes, ReplyFakes, ReplyLatches, ReplyIgnores, ReplySends,
             ReplyQueue, ServerTakesIntr, DebuggerShows, ND_ConsoleInput, ND_SetDebug, ND_port_death

LEMMA ProtocolStep == IInv /\ [Next]_vars => nested' \/ Protocol'
<1> SUFFICES ASSUME OthersTyped, Protocol, [Next]_vars, ~nested' PROVE Protocol'
  BY TypedParts, NestedStays DEF IInv
<1>1. CASE UNCHANGED vars \/ ND_intr \/ ReplyWakes \/ ReplyIgnores \/ ReplyQueue \/ ServerTakesIntr
  <2>1. /\ UNCHANGED <<id, outbuf, inbuf, call, op, bpc, level, saved, type, char, debug, inbox, reported, gap>>
        /\ rpc' = rpc \/ (rpc # "send" /\ rpc' # "send")
    BY <1>1 DEF vars, kdb, mailbox, board, host, debugger, hist, ND_intr, ReplyWakes, ReplyIgnores,
                ReplyQueue, ServerTakesIntr
  <2> QED BY <2>1, Unaffected
<1> QED
  BY <1>1, CallStep, DrainStep, FillStep, PostStep, RaiseStep, ReturnStep, HardclockStep, KdbReturnsStep,
     FakesStep, LatchesStep, SendsStep, ShowsStep, InputStep, SetDebugStep, DeathStep
  DEF Next, Board, Reply, Debugger
----------------------------------------------------------------------------
\* What has been sent to the debugger stays sent.
LEMMA ReportsStay ==
  ASSUME OthersTyped, [Next]_vars, NEW n, IsReported(n)
  PROVE  IsReported(n)'
<1>1. CASE reported' = reported
  BY <1>1 DEF IsReported
<1>2. CASE reported' = Append(reported, char)
  <2>1. reported \in Seq(Nat) /\ char \in Nat
    BY DEF OthersTyped
  <2>2. /\ Len(reported') = Len(reported) + 1 /\ Len(reported) \in Nat
        /\ \A i \in 1..Len(reported) : reported'[i] = reported[i]
    BY <1>2, <2>1, Appended
  <2> QED BY <2>2 DEF IsReported
<1>3. reported' = reported \/ reported' = Append(reported, char)
  BY DEF vars, hist, Next, Board, Reply, Debugger, Call, Drain, Fill, Post, Raise, Return, hardclock,
         KdbReturns, ND_intr, ReplyWakes, ReplyFakes, ReplyLatches, ReplyIgnores, ReplySends,
         SendToDebugger, ReplyQueue, ServerTakesIntr, DebuggerShows, ND_ConsoleInput, ND_SetDebug,
         ND_port_death
<1> QED BY <1>1, <1>2, <1>3

\* A call returns as its request has been settled, or is excused.
LEMMA ReturnedStep == IInv /\ [Next]_vars => Returned'
<1> SUFFICES ASSUME OthersTyped, nested \/ Protocol, Returned, [Next]_vars, NEW r \in returned', ~r.excused
             PROVE  /\ r.op = "put" => IsReported(r.call)'
                    /\ r.op = "get" => r.result = r.call
  BY TypedParts DEF IInv, Returned, IsReported
<1>1. CASE r \in returned
  BY <1>1, ReportsStay DEF Returned
<1>2. ASSUME Return, r = [call |-> call, op |-> op, result |-> inbuf, excused |-> gap \/ nested]
      PROVE  /\ r.op = "put" => IsReported(r.call)'
             /\ r.op = "get" => r.result = r.call
  <2>1. r.call = call /\ r.op = op /\ r.result = inbuf
    BY <1>2
  <2>2. r.excused = (gap \/ nested)
    BY <1>2
  <2>3. ~gap /\ ~nested
    BY <2>2, Zenon
  <2>4. Done /\ id = "IDLE" /\ bpc = "wait" /\ reported' = reported
    BY <1>2, <2>3 DEF Return, Protocol
  <2> QED BY <2>1, <2>3, <2>4 DEF Done, IsReported
<1>3. CASE r \notin returned
  <2>1. Return /\ r = [call |-> call, op |-> op, result |-> inbuf, excused |-> gap \/ nested]
    BY <1>3, Zenon
    DEF vars, hist, Next, Board, Reply, Debugger, Call, Drain, Fill, Post, Raise, Return, hardclock,
        KdbReturns, ND_intr, ReplyWakes, ReplyFakes, ReplyLatches, ReplyIgnores, ReplySends,
        ReplyQueue, ServerTakesIntr, DebuggerShows, ND_ConsoleInput, ND_SetDebug, ND_port_death
  <2> QED BY <1>2, <2>1
<1> QED BY <1>1, <1>3
----------------------------------------------------------------------------
LEMMA IInvInit == Init => IInv
<1> SUFFICES ASSUME Init PROVE IInv
  OBVIOUS
<1>1. FlagsTyped
  BY Zenon DEF Init, FlagsTyped
<1>2. OthersTyped
  BY ConsoleAssumption, EmptySeq DEF Init, OthersTyped, Requests, Calls, Places
<1>3. Len(reported) = 0 /\ Len(inbox) = 0 /\ bpc = "out" /\ id = "IDLE" /\ rpc = "pause" /\ level = "process"
  BY DEF Init
<1>4. Protocol
  BY <1>3 DEF Protocol, Numbered, Stored, Latched, Unreported, StandBy, Asking, Done, Unattended,
              Increasing, Suspended, Midway, Requests
<1>5. Returned
  BY DEF Init, Returned
<1> QED
  BY <1>1, <1>2, <1>4, <1>5, TypedParts DEF IInv

\* The shared word, the console's call and the places of the reply thread and of
\* the debugger agree in every state, whatever hardclock writes in between, until
\* it runs kdb in the middle of a call; what has returned before stays right.
THEOREM IInvCorrect == Spec => []IInv
<1>1. IInv /\ [Next]_vars => IInv'
  BY TypeStep, ProtocolStep, ReturnedStep DEF IInv
<1> QED
  BY IInvInit, <1>1, PTL DEF Spec

\* No character of a cn_putc that has returned is lost, none is shown twice,
\* and none overtakes another: for any number of calls, of processes and of kdb,
\* as long as kdb has not run in the middle of one.
THEOREM PutsReportedCorrect == Spec => []PutsReported
<1>1. IInv => PutsReported
  <2> SUFFICES ASSUME IInv PROVE (nested \/ ReportedOnceInOrder) /\ PutIsForwarded
    BY DEF IInv, PutsReported
  <2>1. DOMAIN reported = 1..Len(reported)
    BY TypedParts, LenProperties DEF IInv, OthersTyped
  <2>2. nested \/ ReportedOnceInOrder
    BY <2>1 DEF IInv, Protocol, Increasing, ReportedOnceInOrder
  <2>3. PutIsForwarded
    BY <2>1 DEF IInv, Returned, IsReported, PutIsForwarded
  <2> QED BY <2>2, <2>3
<1> QED
  BY IInvCorrect, <1>1, PTL

\* cn_getc returns what the debugger typed for that very call, as long as kdb
\* has not run in the middle of one.
THEOREM GetsOwnAnswerCorrect == Spec => []GetsOwnAnswer
<1>1. IInv => GetsOwnAnswer
  BY DEF IInv, Returned, GetsOwnAnswer
<1> QED
  BY IInvCorrect, <1>1, PTL
=============================================================================
