----------------------------- MODULE ServiceRpc -----------------------------
(***************************************************************************)
(* Kernel service calls of the board's processes: msg_rpc with the service *)
(* reply port, its interlock, ServiceMsg_receive on the ReplyND queue, and *)
(* the reply thread of the driver, which executes the request and answers. *)
(* A process runs until it sleeps.  Sleeps on a queue end at the latest    *)
(* with the next retrace interrupt, so they are guards here; a sleep on    *)
(* the interlock ends only with its Wakeup.                                *)
(***************************************************************************)
EXTENDS Integers, Sequences

CONSTANTS Procs,          \* processes
          NCalls,         \* bound: service calls, numbered in order
          Kinds           \* lengths that occur, a subset of AllKinds

AllKinds == {"fits", "request too large", "reply too large"}

ASSUME ServiceRpcAssumption == NCalls \in Nat /\ Kinds \subseteq AllKinds

None == 0                 \* no reply
Idle == [req |-> 0, kind |-> "fits"]

VARIABLES ncalls,         \* calls made
          pc, req,        \* each process: where it is, the call it makes
          kind,           \* of each process's call
          BUSY, WANTED,   \* the bits of service_msg_flag
          fromND, replyND,\* requests and replies under way
          serving,        \* request the reply thread executes, or Idle
          results         \* history: what each call returned with

lock == <<BUSY, WANTED>>
vars == <<ncalls, pc, req, kind, lock, fromND, replyND, serving, results>>

Packet == [req : 1..NCalls, kind : Kinds]

TypeOK == /\ ncalls \in 0..NCalls
          /\ pc \in [Procs -> {"out", "lock", "wait", "send", "receive"}]
          /\ req \in [Procs -> 0..NCalls]
          /\ kind \in [Procs -> AllKinds]
          /\ {BUSY, WANTED} \subseteq BOOLEAN
          /\ fromND \in Seq(Packet) /\ replyND \in Seq(Packet)
          /\ serving \in Packet \cup {Idle}
          /\ \A r \in results : r.call \in 1..NCalls /\ r.reply \in 0..NCalls

Init == /\ ncalls = 0
        /\ pc = [p \in Procs |-> "out"]
        /\ req = [p \in Procs |-> 0]
        /\ kind = [p \in Procs |-> "fits"]
        /\ BUSY = FALSE /\ WANTED = FALSE
        /\ fromND = <<>> /\ replyND = <<>>
        /\ serving = Idle
        /\ results = {}

----------------------------------------------------------------------------
\* A process calls msg_rpc; the process that sleeps or returns lets it run.
Call(p, k) == /\ pc[p] = "out" /\ ncalls < NCalls
              /\ ncalls' = ncalls + 1
              /\ req' = [req EXCEPT ![p] = ncalls + 1]
              /\ kind' = [kind EXCEPT ![p] = k]
              /\ pc' = [pc EXCEPT ![p] = "lock"]
              /\ UNCHANGED <<lock, fromND, replyND, serving, results>>

LockBusy(p) == /\ pc[p] = "lock" /\ BUSY
               /\ WANTED' = TRUE
               /\ pc' = [pc EXCEPT ![p] = "wait"]
               /\ UNCHANGED <<ncalls, req, kind, BUSY, fromND, replyND, serving, results>>

\* Mistake: the interlock is not looked at.
LockFreeAlways(p) == /\ pc[p] = "lock"
                     /\ BUSY' = TRUE
                     /\ WANTED' = FALSE
                     /\ pc' = [pc EXCEPT ![p] = "send"]
                     /\ UNCHANGED <<ncalls, req, kind, fromND, replyND, serving, results>>

\* The new owner forgets that others want the lock: they are awake by then.
LockFree(p) == /\ pc[p] = "lock" /\ ~BUSY
               /\ BUSY' = TRUE
               /\ WANTED' = FALSE
               /\ pc' = [pc EXCEPT ![p] = "send"]
               /\ UNCHANGED <<ncalls, req, kind, fromND, replyND, serving, results>>

Return(p, reply) == /\ results' = results \cup {[call |-> req[p], reply |-> reply]}
                    /\ pc' = [pc EXCEPT ![p] = "out"]

\* msg_send refuses the request, and the lock is left as it is.
SendFails(p) == /\ pc[p] = "send" /\ kind[p] = "request too large"
                /\ Return(p, None)
                /\ UNCHANGED <<ncalls, req, kind, lock, fromND, replyND, serving>>

Send(p) == /\ pc[p] = "send" /\ kind[p] # "request too large"
           /\ fromND' = Append(fromND, [req |-> req[p], kind |-> kind[p]])
           /\ pc' = [pc EXCEPT ![p] = "receive"]
           /\ UNCHANGED <<ncalls, req, kind, lock, replyND, serving, results>>

\* Mistake: the first waiter only is woken.
UnlockOne(p) == /\ BUSY' = FALSE /\ UNCHANGED WANTED
                /\ LET W == {q \in Procs : pc[q] = "wait"}
                       first == CHOOSE q \in W : TRUE
                   IN pc' = [q \in Procs |-> IF q = p THEN "out"
                                             ELSE IF WANTED /\ W # {} /\ q = first THEN "lock"
                                             ELSE pc[q]]

\* Clear the message lock, waking everybody who sleeps on it.
Unlock(p) == /\ BUSY' = FALSE /\ UNCHANGED WANTED
             /\ pc' = [q \in Procs |-> IF q = p THEN "out"
                                       ELSE IF WANTED /\ pc[q] = "wait" THEN "lock"
                                       ELSE pc[q]]

\* ServiceMsg_receive: the first reply on the queue, if it fits the caller's
\* buffer; else it stays there and the call fails.
Receive(p) == /\ pc[p] = "receive" /\ replyND # <<>>
              /\ IF Head(replyND).kind = "reply too large" /\ kind[p] = "reply too large"
                 THEN /\ results' = results \cup {[call |-> req[p], reply |-> None]}
                      /\ UNCHANGED replyND
                 ELSE /\ results' = results \cup {[call |-> req[p], reply |-> Head(replyND).req]}
                      /\ replyND' = Tail(replyND)
              /\ Unlock(p)
              /\ UNCHANGED <<ncalls, req, kind, fromND, serving>>

----------------------------------------------------------------------------
(* The reply thread.                                                       *)

ReplyTake == /\ serving = Idle /\ fromND # <<>>
             /\ serving' = Head(fromND)
             /\ fromND' = Tail(fromND)
             /\ UNCHANGED <<ncalls, pc, req, kind, lock, replyND, results>>

\* Mistake: the reply buffer is sent again.
sendServiceReplyTwice == /\ serving # Idle
                         /\ replyND' = replyND \o <<serving, serving>>
                         /\ serving' = Idle
                         /\ UNCHANGED <<ncalls, pc, req, kind, lock, fromND, results>>

\* Mistake: the reply is built in a buffer that is cleared first.
sendServiceReplyCleared == /\ serving # Idle
                           /\ replyND' = Append(replyND, Idle)
                           /\ serving' = Idle
                           /\ UNCHANGED <<ncalls, pc, req, kind, lock, fromND, results>>

\* ND_Kern_server, and sendServiceReply with room on the queue.
sendServiceReply == /\ serving # Idle
                    /\ replyND' = Append(replyND, serving)
                    /\ serving' = Idle
                    /\ UNCHANGED <<ncalls, pc, req, kind, lock, fromND, results>>

Proc(p) == LockBusy(p) \/ LockFree(p) \/ SendFails(p) \/ Send(p) \/ Receive(p)
Driver == ReplyTake \/ sendServiceReply
Next == \/ Driver
        \/ \E p \in Procs : Proc(p) \/ \E k \in Kinds : Call(p, k)

Spec == /\ Init /\ [][Next]_vars
        /\ WF_vars(Driver) /\ \A p \in Procs : WF_vars(Proc(p))

----------------------------------------------------------------------------
\* Every service call returns the reply to its own request, or none.
OwnReply == \A r \in results : r.reply \in {r.call, None}

InRpc == {p \in Procs : pc[p] \in {"send", "receive"}}

\* One call is under way at a time, so at most one message is on each of the
\* queues and sendServiceReply never has to wait for room.
OneAtATime == /\ \A p, q \in InRpc : p = q
              /\ Len(fromND) + Len(replyND) + (IF serving = Idle THEN 0 ELSE 1) <= 1

\* Who sleeps on the interlock is known to its owner.
WaiterIsWanted == (\E p \in Procs : pc[p] = "wait") => WANTED /\ BUSY

\* The interlock is taken and nobody is there to release it.
Leaked == BUSY /\ InRpc = {}

\* Every call returns, unless an earlier one failed with the interlock taken:
\* that is the only way to lose it, and no wakeup is lost.
RpcReturnsUnlessLeaked == \A p \in Procs : pc[p] # "out" ~> (pc[p] = "out" \/ Leaked)

\* Every call returns.
RpcReturns == \A p \in Procs : pc[p] # "out" ~> pc[p] = "out"
=============================================================================
