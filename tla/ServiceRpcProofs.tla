-------------------------- MODULE ServiceRpcProofs --------------------------
(***************************************************************************)
(* The interlock of msg_rpc for any number of processes and calls: one     *)
(* call at a time is under way, its reply goes to its caller, and nobody   *)
(* who sleeps on the interlock is forgotten.  Requests may be refused, but *)
(* every reply has to fit its caller's buffer.                             *)
(***************************************************************************)
EXTENDS ServiceRpc, TLAPS

\* No reply is ever left on the queue.
RepliesFit == "reply too large" \notin Kinds

----------------------------------------------------------------------------
\* A process inside msg_rpc is making one of the calls.
Calling == \A p \in Procs :
               pc[p] # "out" => req[p] \in 1..NCalls /\ kind[p] \in Kinds

\* Who is past the interlock holds it, alone.
Holding == \A p \in Procs : pc[p] \in {"send", "receive"} => BUSY
Alone == \A p, q \in Procs :
             pc[p] \in {"send", "receive"} /\ pc[q] \in {"send", "receive"} => p = q

Packed(p) == [req |-> req[p], kind |-> kind[p]]

\* The packet of p is on its way to the reply thread, in its hands, or back.
Asked(p) == fromND = <<Packed(p)>> /\ replyND = <<>> /\ serving = Idle
Served(p) == fromND = <<>> /\ replyND = <<>> /\ serving = Packed(p)
Answered(p) == fromND = <<>> /\ replyND = <<Packed(p)>> /\ serving = Idle

\* Only who waits for its reply has a packet out, and it has one.
Outstanding == \A p \in Procs : pc[p] = "receive" => Asked(p) \/ Served(p) \/ Answered(p)
Quiet == (\A p \in Procs : pc[p] # "receive") =>
             fromND = <<>> /\ replyND = <<>> /\ serving = Idle

Shape == /\ ncalls \in 0..NCalls
         /\ pc \in [Procs -> {"out", "lock", "wait", "send", "receive"}]
         /\ req \in [Procs -> 0..NCalls]
         /\ kind \in [Procs -> AllKinds]
         /\ BUSY \in BOOLEAN /\ WANTED \in BOOLEAN

Results == \A r \in results : r.call \in 1..NCalls /\ r.reply \in {r.call, None}

IInv == /\ Shape /\ Calling /\ Holding /\ Alone /\ Outstanding /\ Quiet
        /\ Results /\ WaiterIsWanted
----------------------------------------------------------------------------
LEMMA OneElement ==
  ASSUME NEW v
  PROVE  /\ Append(<<>>, v) = <<v>>
         /\ Head(<<v>>) = v
         /\ Tail(<<v>>) = <<>>
OBVIOUS

\* What a call returns with is recorded under its number.
LEMMA ResultsStep ==
  ASSUME IInv, NEW p \in Procs, pc[p] # "out", NEW reply \in {req[p], None},
         results' = results \cup {[call |-> req[p], reply |-> reply]}
  PROVE  Results'
<1>1. req[p] \in 1..NCalls
  BY DEF IInv, Calling
<1> SUFFICES ASSUME NEW r \in results'
             PROVE  r.call \in 1..NCalls /\ r.reply \in {r.call, None}
  BY DEF Results
<1>2. CASE r \in results
  BY <1>2 DEF IInv, Results
<1>3. CASE r = [call |-> req[p], reply |-> reply]
  <2>1. r.call = req[p] /\ r.reply = reply
    BY <1>3
  <2> QED BY <1>1, <2>1
<1> QED BY <1>2, <1>3

LEMMA InitIInv == Init => IInv
<1> SUFFICES ASSUME Init PROVE IInv
  OBVIOUS
<1> USE DEF Init
<1>1. Shape
  <2>1. ncalls \in 0..NCalls
    BY ServiceRpcAssumption, SMT
  <2>5. BUSY \in BOOLEAN /\ WANTED \in BOOLEAN
    BY Zenon
  <2>2. pc \in [Procs -> {"out", "lock", "wait", "send", "receive"}]
    OBVIOUS
  <2>3. req \in [Procs -> 0..NCalls]
    BY ServiceRpcAssumption
  <2>4. kind \in [Procs -> AllKinds]
    BY DEF AllKinds
  <2> QED BY <2>1, <2>2, <2>3, <2>4, <2>5 DEF Shape
<1>2. Calling /\ Holding /\ Alone
  BY DEF Calling, Holding, Alone
<1>3. Outstanding /\ Quiet
  BY DEF Outstanding, Quiet
<1>4. Results /\ WaiterIsWanted
  BY DEF Results, WaiterIsWanted
<1> QED BY <1>1, <1>2, <1>3, <1>4 DEF IInv

LEMMA CallStep ==
  ASSUME IInv, NEW p \in Procs, NEW k \in Kinds, Call(p, k)
  PROVE  IInv'
<1> USE DEF Call, lock
<1>0. k \in AllKinds
  BY ServiceRpcAssumption
<1>1. Shape'
  BY <1>0, ServiceRpcAssumption DEF IInv, Shape
<1>2. Calling'
  BY ServiceRpcAssumption DEF IInv, Shape, Calling
<1>3. Holding' /\ Alone'
  BY DEF IInv, Shape, Holding, Alone
<1>4. Outstanding'
  BY DEF IInv, Shape, Outstanding, Asked, Served, Answered, Packed
<1>5. Quiet'
  BY DEF IInv, Shape, Quiet
<1>6. Results' /\ WaiterIsWanted'
  BY DEF IInv, Shape, Results, WaiterIsWanted
<1> QED BY <1>1, <1>2, <1>3, <1>4, <1>5, <1>6 DEF IInv

LEMMA LockBusyStep ==
  ASSUME IInv, NEW p \in Procs, LockBusy(p)
  PROVE  IInv'
<1> USE DEF LockBusy
<1>1. Shape'
  BY DEF IInv, Shape
<1>2. Calling' /\ Holding' /\ Alone'
  BY DEF IInv, Shape, Calling, Holding, Alone
<1>3. Outstanding'
  BY DEF IInv, Shape, Outstanding, Asked, Served, Answered, Packed
<1>4. Quiet'
  BY DEF IInv, Shape, Quiet
<1>5. Results' /\ WaiterIsWanted'
  BY DEF IInv, Shape, Results, WaiterIsWanted
<1> QED BY <1>1, <1>2, <1>3, <1>4, <1>5 DEF IInv

LEMMA LockFreeStep ==
  ASSUME IInv, NEW p \in Procs, LockFree(p)
  PROVE  IInv'
<1> USE DEF LockFree
<1>1. Shape'
  BY DEF IInv, Shape
<1>2. Calling' /\ Holding' /\ Alone'
  BY DEF IInv, Shape, Calling, Holding, Alone
<1>3. Outstanding'
  BY DEF IInv, Shape, Outstanding, Asked, Served, Answered, Packed
<1>4. Quiet'
  BY DEF IInv, Shape, Quiet
<1>5. Results' /\ WaiterIsWanted'
  BY DEF IInv, Shape, Results, WaiterIsWanted
<1> QED BY <1>1, <1>2, <1>3, <1>4, <1>5 DEF IInv

LEMMA SendFailsStep ==
  ASSUME IInv, NEW p \in Procs, SendFails(p)
  PROVE  IInv'
<1> USE DEF SendFails, Return, lock
<1>1. Shape'
  BY DEF IInv, Shape
<1>2. Calling' /\ Holding' /\ Alone'
  BY DEF IInv, Shape, Calling, Holding, Alone
<1>3. Outstanding'
  BY DEF IInv, Shape, Outstanding, Asked, Served, Answered, Packed
<1>4. Quiet'
  BY DEF IInv, Shape, Quiet
<1>5. Results'
  BY ResultsStep, None \in {req[p], None}
<1>6. WaiterIsWanted'
  BY DEF IInv, Shape, WaiterIsWanted
<1> QED BY <1>1, <1>2, <1>3, <1>4, <1>5, <1>6 DEF IInv

\* The sender is alone past the interlock, so nothing else is under way.
LEMMA SendStep ==
  ASSUME IInv, NEW p \in Procs, Send(p)
  PROVE  IInv'
<1> USE DEF Send, lock
<1>1. Shape'
  BY DEF IInv, Shape
<1>2. Calling' /\ Holding' /\ Alone'
  BY DEF IInv, Shape, Calling, Holding, Alone
<1>3. \A q \in Procs : pc[q] # "receive"
  BY DEF IInv, Alone
<1>4. fromND = <<>> /\ replyND = <<>> /\ serving = Idle
  BY <1>3 DEF IInv, Quiet
<1>5. Asked(p)'
  BY <1>4, OneElement DEF Asked, Packed
<1>6. \A q \in Procs : pc'[q] = "receive" <=> q = p
  BY <1>3 DEF IInv, Shape
<1>7. Outstanding'
  BY <1>5, <1>6 DEF Outstanding
<1>8. Quiet'
  BY <1>6 DEF Quiet
<1>9. Results' /\ WaiterIsWanted'
  BY DEF IInv, Shape, Results, WaiterIsWanted
<1> QED BY <1>1, <1>2, <1>7, <1>8, <1>9 DEF IInv

\* The only reply under way is the caller's own, and it fits.
LEMMA ReceiveStep ==
  ASSUME RepliesFit, IInv, NEW p \in Procs, Receive(p)
  PROVE  IInv'
<1> USE DEF Receive, Unlock
<1>1. Answered(p)
  BY DEF IInv, Outstanding, Asked, Served, Answered
<1>2. Head(replyND) = Packed(p) /\ Tail(replyND) = <<>>
  BY <1>1, OneElement DEF Answered
<1>3. kind[p] # "reply too large"
  BY DEF IInv, Calling, RepliesFit
<1>4. /\ results' = results \cup {[call |-> req[p], reply |-> req[p]]}
      /\ replyND' = <<>>
  <2>1. Packed(p).req = req[p]
    BY DEF Packed
  <2>2. Head(replyND).req = req[p]
    BY <1>2, <2>1
  <2> QED BY <1>2, <1>3, <2>2
<1>5. fromND' = <<>> /\ serving' = Idle
  BY <1>1 DEF Answered
<1>6. \A q \in Procs : pc'[q] \in {"send", "receive"} => q # p /\ pc[q] = pc'[q]
  BY DEF IInv, Shape
<1>7. \A q \in Procs : pc'[q] \notin {"send", "receive"}
  BY <1>6 DEF IInv, Alone
<1>8. Shape'
  BY DEF IInv, Shape
<1>9. Calling'
  BY DEF IInv, Shape, Calling
<1>10. Holding' /\ Alone' /\ Outstanding'
  BY <1>7 DEF Holding, Alone, Outstanding
<1>11. Quiet'
  BY <1>4, <1>5 DEF Quiet
<1>12. Results'
  BY <1>4, ResultsStep, req[p] \in {req[p], None}
<1>13. WaiterIsWanted'
  BY DEF IInv, Shape, WaiterIsWanted
<1> QED BY <1>8, <1>9, <1>10, <1>11, <1>12, <1>13 DEF IInv

\* The reply thread takes the one request that is under way.
LEMMA ReplyTakeStep ==
  ASSUME IInv, ReplyTake
  PROVE  IInv'
<1> USE DEF ReplyTake, lock
<1>1. PICK p \in Procs : pc[p] = "receive"
  BY DEF IInv, Quiet
<1>2. Asked(p)
  BY <1>1 DEF IInv, Outstanding, Asked, Served, Answered
<1>3. Head(fromND) = Packed(p) /\ Tail(fromND) = <<>>
  BY <1>2, OneElement DEF Asked
<1>4. Served(p)'
  BY <1>2, <1>3 DEF Asked, Served, Packed
<1>5. \A q \in Procs : pc[q] = "receive" => q = p
  BY <1>1 DEF IInv, Alone
<1>6. Shape' /\ Calling'
  BY DEF IInv, Shape, Calling
<1>7. Holding' /\ Alone' /\ WaiterIsWanted'
  BY DEF IInv, Holding, Alone, WaiterIsWanted
<1>8. Outstanding'
  BY <1>4, <1>5 DEF Outstanding
<1>9. Quiet'
  BY <1>1 DEF Quiet
<1>10. Results'
  BY DEF IInv, Results
<1> QED BY <1>6, <1>7, <1>8, <1>9, <1>10 DEF IInv

\* The answer to it is the only reply on the queue.
LEMMA ReplyStep ==
  ASSUME IInv, sendServiceReply
  PROVE  IInv'
<1> USE DEF sendServiceReply, lock
<1>1. PICK p \in Procs : pc[p] = "receive"
  BY DEF IInv, Quiet
<1>2. Served(p)
  BY <1>1 DEF IInv, Outstanding, Asked, Served, Answered
<1>3. Answered(p)'
  BY <1>2, OneElement DEF Served, Answered, Packed
<1>4. \A q \in Procs : pc[q] = "receive" => q = p
  BY <1>1 DEF IInv, Alone
<1>5. Shape' /\ Calling'
  BY DEF IInv, Shape, Calling
<1>6. Holding' /\ Alone' /\ WaiterIsWanted'
  BY DEF IInv, Holding, Alone, WaiterIsWanted
<1>7. Outstanding'
  BY <1>3, <1>4 DEF Outstanding
<1>8. Quiet'
  BY <1>1 DEF Quiet
<1>9. Results'
  BY DEF IInv, Results
<1> QED BY <1>5, <1>6, <1>7, <1>8, <1>9 DEF IInv

LEMMA StutterStep ==
  ASSUME IInv, UNCHANGED vars
  PROVE  IInv'
<1> USE DEF vars, lock
<1>1. Shape' /\ Calling' /\ Holding' /\ Alone'
  BY DEF IInv, Shape, Calling, Holding, Alone
<1>2. Outstanding' /\ Quiet'
  BY DEF IInv, Outstanding, Quiet, Asked, Served, Answered, Packed
<1>3. Results' /\ WaiterIsWanted'
  BY DEF IInv, Results, WaiterIsWanted
<1> QED BY <1>1, <1>2, <1>3 DEF IInv

LEMMA IInvStep == RepliesFit /\ IInv /\ [Next]_vars => IInv'
<1> SUFFICES ASSUME RepliesFit, IInv, [Next]_vars PROVE IInv'
  OBVIOUS
<1>1. CASE UNCHANGED vars
  BY <1>1, StutterStep
<1>2. CASE Driver
  BY <1>2, ReplyTakeStep, ReplyStep DEF Driver
<1>3. ASSUME NEW p \in Procs, Proc(p) PROVE IInv'
  BY <1>3, LockBusyStep, LockFreeStep, SendFailsStep, SendStep, ReceiveStep DEF Proc
<1>4. ASSUME NEW p \in Procs, NEW k \in Kinds, Call(p, k) PROVE IInv'
  BY <1>4, CallStep
<1> QED BY <1>1, <1>2, <1>3, <1>4 DEF Next
----------------------------------------------------------------------------
\* Every service call of any process returns the reply to its own request, or
\* none if msg_send refused it.
THEOREM OwnReplyCorrect ==
  ASSUME RepliesFit
  PROVE  Spec => []OwnReply
<1>1. IInv => OwnReply
  BY DEF IInv, Results, OwnReply
<1>2. IInv /\ [Next]_vars => IInv'
  BY IInvStep
<1> QED BY <1>1, <1>2, InitIInv, PTL DEF Spec

\* One service call is under way at a time, with at most one message on the
\* queues, so that sendServiceReply always finds room.
THEOREM OneAtATimeCorrect ==
  ASSUME RepliesFit
  PROVE  Spec => []OneAtATime
<1>1. IInv => OneAtATime
  <2> SUFFICES ASSUME IInv PROVE OneAtATime
    OBVIOUS
  <2>1. \A p, q \in InRpc : p = q
    BY DEF IInv, Alone, InRpc
  <2>2. \A v : Len(<<v>>) = 1
    OBVIOUS
  <2>3. CASE \A p \in Procs : pc[p] # "receive"
    BY <2>1, <2>3 DEF IInv, Quiet, OneAtATime
  <2>4. ASSUME NEW p \in Procs, pc[p] = "receive" PROVE OneAtATime
    <3>1. CASE Asked(p)
      BY <2>1, <2>2, <3>1 DEF Asked, OneAtATime
    <3>2. CASE Served(p)
      BY <2>1, <3>2 DEF Served, OneAtATime
    <3>3. CASE Answered(p)
      BY <2>1, <2>2, <3>3 DEF Answered, OneAtATime
    <3> QED BY <2>4, <3>1, <3>2, <3>3 DEF IInv, Outstanding
  <2> QED BY <2>3, <2>4
<1>2. IInv /\ [Next]_vars => IInv'
  BY IInvStep
<1> QED BY <1>1, <1>2, InitIInv, PTL DEF Spec

\* msg_rpc never forgets who sleeps on the interlock.
THEOREM WaiterCorrect ==
  ASSUME RepliesFit
  PROVE  Spec => []WaiterIsWanted
<1>1. IInv => WaiterIsWanted
  BY DEF IInv
<1>2. IInv /\ [Next]_vars => IInv'
  BY IInvStep
<1> QED BY <1>1, <1>2, InitIInv, PTL DEF Spec
=============================================================================
