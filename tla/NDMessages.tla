----------------------------- MODULE NDMessages -----------------------------
(***************************************************************************)
(* The Mach message emulation of the i860 kernel: Messages(), which sorts  *)
(* what arrives from the host onto the queues of the ports, msg_receive,   *)
(* and the creation and deletion of ports.  The kernel's processes are     *)
(* co-operative: a process runs until it sleeps, so what lies between two  *)
(* possible sleeps is one step.  One sleep hides inside kmalloc, which     *)
(* waits for the page-out daemon when the core map is empty.               *)
(***************************************************************************)
EXTENDS Integers, Sequences, FiniteSets

CONSTANTS Ports, Readers, \* ports, and the processes that call msg_receive
          Deletable,      \* ports that some process deallocates
          NMsgs,          \* bound: messages the host sends, numbered in order
          PortOf,         \* destination port of each message
          Size,           \* length of each message
          Room,           \* msg_size each reader offers
          MallocMaySleep  \* whether the core map can run empty

Msgs == 1..NMsgs

ASSUME MessagesAssumption == /\ NMsgs \in Nat
                             /\ PortOf \in [Msgs -> Ports]
                             /\ Size \in [Msgs -> Nat]
                             /\ Room \in [Readers -> Nat]
                             /\ Deletable \subseteq Ports

None == 0                 \* no message
PortDeath == -1           \* RCV_INVALID_PORT in a msg_tab

VARIABLES next,           \* next message the host will send
          toND,           \* messages on the ToND queue
          listed, dead,   \* ports on PPortList, ports taken off it
          unclaimed,      \* the unclaimed_q of each port
          pending,        \* the pending_q of each port
          mpc,            \* Messages(): asleep, running, or inside kmalloc
          held,           \* the message whose header it has taken
          rpc, rport,     \* each reader: where it is, on which port
          tab,            \* what Messages() stored in the reader's msg_tab
          claimed,        \* history: messages of each port, in the order given out
          gave,           \* history: which reader each message went to
          skipped,        \* history: messages that were discarded
          slept,          \* history: ports for which kmalloc slept
          lost,           \* history: messages put on the list of a deleted port
          hung,           \* DeletePortFromList does not return
          astray          \* the list of a deleted port was written to: it is freed

queues == <<listed, dead, unclaimed, pending>>
msgs == <<mpc, held>>
procs == <<rpc, rport, tab>>
hist == <<claimed, gave, skipped, slept, lost>>
ends == <<hung, astray>>
vars == <<next, toND, queues, msgs, procs, hist, ends>>

TypeOK == /\ next \in 1..(NMsgs + 1)
          /\ toND \in Seq(Msgs)
          /\ listed \subseteq Ports /\ dead \subseteq Ports
          /\ unclaimed \in [Ports -> Seq(Msgs)]
          /\ pending \in [Ports -> Seq(Readers)]
          /\ mpc \in {"sleep", "run", "alloc"}
          /\ held \in Msgs \cup {None}
          /\ rpc \in [Readers -> {"out", "alloc", "wait"}]
          /\ rport \in [Readers -> Ports]
          /\ tab \in [Readers -> Msgs \cup {None, PortDeath}]
          /\ claimed \in [Ports -> Seq(Msgs)]
          /\ gave \in [Msgs -> SUBSET Readers]
          /\ skipped \subseteq Msgs
          /\ slept \subseteq Ports
          /\ lost \subseteq Msgs
          /\ hung \in BOOLEAN /\ astray \in BOOLEAN

Init == /\ next = 1 /\ toND = <<>>
        /\ listed = {} /\ dead = {}
        /\ unclaimed = [p \in Ports |-> <<>>]
        /\ pending = [p \in Ports |-> <<>>]
        /\ mpc = "sleep" /\ held = None
        /\ rpc = [r \in Readers |-> "out"]
        /\ rport \in [Readers -> Ports]
        /\ tab = [r \in Readers |-> None]
        /\ claimed = [p \in Ports |-> <<>>]
        /\ gave = [m \in Msgs |-> {}]
        /\ skipped = {}
        /\ slept = {} /\ lost = {}
        /\ hung = FALSE /\ astray = FALSE

\* The host puts a message on the queue, at any time.
HostSends == /\ next <= NMsgs
             /\ toND' = Append(toND, next)
             /\ next' = next + 1
             /\ UNCHANGED <<queues, msgs, procs, hist, ends>>

Give(m, r) == /\ claimed' = [claimed EXCEPT ![PortOf[m]] = Append(@, m)]
              /\ gave' = [gave EXCEPT ![m] = @ \cup {r}]
              /\ UNCHANGED <<skipped, slept, lost>>

\* Whatever a process does on writing to freed storage, or after a deletion that
\* does not end, is beyond the model: only the host goes on.
Running == ~hung /\ ~astray

\* kmalloc sleeps on behalf of port p.
Sleeps(p) == MallocMaySleep /\ slept' = slept \cup {p}

----------------------------------------------------------------------------
(* Messages().                                                             *)

\* Mistake: one message alone on the queue is not enough to wake up.
MessagesWakesTwo == /\ mpc = "sleep" /\ Running
                    /\ Len(toND) > 1
                    /\ mpc' = "run"
                    /\ UNCHANGED <<next, toND, queues, held, procs, hist, ends>>

MessagesWakes == /\ mpc = "sleep" /\ Running
                 /\ toND # <<>>
                 /\ mpc' = "run"
                 /\ UNCHANGED <<next, toND, queues, held, procs, hist, ends>>

MessagesSleeps == /\ mpc = "run" /\ Running /\ toND = <<>>
                  /\ mpc' = "sleep"
                  /\ UNCHANGED <<next, toND, queues, held, procs, hist, ends>>

\* The next message on the queue is for port p.
Incoming(p) == mpc = "run" /\ Running /\ toND # <<>> /\ PortOf[Head(toND)] = p

\* Not a registered port: the message is skipped.
Discard(p) == /\ Incoming(p) /\ p \notin listed
              /\ skipped' = skipped \cup {Head(toND)}
              /\ toND' = Tail(toND)
              /\ UNCHANGED <<next, queues, msgs, procs, claimed, gave, slept, lost, ends>>

\* Mistake: the reader is woken without leaving the pending queue.
DeliverNoDequeue(p) ==
    /\ Incoming(p) /\ p \in listed
    /\ pending[p] # <<>>
    /\ LET m == Head(toND)
           r == Head(pending[p])
       IN tab' = [tab EXCEPT ![r] = m] /\ Give(m, r)
    /\ toND' = Tail(toND)
    /\ UNCHANGED <<next, queues, msgs, rpc, rport, ends>>

\* A pending reader gets it.  The header is copied over the reader's before
\* its msg_size is compared with the message's, so the message always "fits".
Deliver(p) ==
    /\ Incoming(p) /\ p \in listed
    /\ pending[p] # <<>>
    /\ LET m == Head(toND)
           r == Head(pending[p])
       IN tab' = [tab EXCEPT ![r] = m] /\ Give(m, r)
    /\ pending' = [pending EXCEPT ![p] = Tail(@)]
    /\ toND' = Tail(toND)
    /\ UNCHANGED <<next, listed, dead, unclaimed, msgs, rpc, rport, ends>>

\* Mistake: the unclaimed queue is a stack.
KeepFirst(p) ==
    /\ Incoming(p) /\ p \in listed
    /\ pending[p] = <<>>
    /\ unclaimed' = [unclaimed EXCEPT ![p] = <<Head(toND)>> \o @]
    /\ toND' = Tail(toND)
    /\ UNCHANGED <<next, listed, dead, pending, msgs, procs, hist, ends>>

\* Mistake: the bytes are taken off the queue before they are copied.
KeepEmpty(p) ==
    /\ Incoming(p) /\ p \in listed
    /\ pending[p] = <<>>
    /\ unclaimed' = [unclaimed EXCEPT ![p] = Append(@, None)]
    /\ toND' = Tail(toND)
    /\ UNCHANGED <<next, listed, dead, pending, msgs, procs, hist, ends>>

\* Nobody waits and kmalloc has storage at once: onto the unclaimed queue.
Keep(p) ==
    /\ Incoming(p) /\ p \in listed
    /\ pending[p] = <<>>
    /\ unclaimed' = [unclaimed EXCEPT ![p] = Append(@, Head(toND))]
    /\ toND' = Tail(toND)
    /\ UNCHANGED <<next, listed, dead, pending, msgs, procs, hist, ends>>

\* Mistake: the message stays on the queue while kmalloc sleeps.
KeepSleepsTwice(p) ==
    /\ Incoming(p) /\ p \in listed
    /\ pending[p] = <<>>
    /\ mpc' = "alloc"
    /\ held' = Head(toND)
    /\ Sleeps(p)
    /\ UNCHANGED <<next, toND, queues, procs, claimed, gave, skipped, lost, ends>>

\* Nobody waits and kmalloc has to sleep, with the queue already chosen.
KeepSleeps(p) ==
    /\ Incoming(p) /\ p \in listed
    /\ pending[p] = <<>>
    /\ mpc' = "alloc"
    /\ held' = Head(toND)
    /\ toND' = Tail(toND)
    /\ Sleeps(p)
    /\ UNCHANGED <<next, queues, procs, claimed, gave, skipped, lost, ends>>

\* kmalloc returns, and the port is still there: onto its unclaimed queue,
\* whoever joined its pending queue in the meantime.
KeepResumes ==
    /\ mpc = "alloc" /\ Running /\ PortOf[held] \in listed
    /\ unclaimed' = [unclaimed EXCEPT ![PortOf[held]] = Append(@, held)]
    /\ mpc' = "run"
    /\ held' = None
    /\ UNCHANGED <<next, toND, listed, dead, pending, procs, hist, ends>>

\* The port was deleted meanwhile: the queue lies in a PortList that kfree has
\* got back.  The message is lost, and storage of somebody else is written to.
KeepAstray ==
    /\ mpc = "alloc" /\ Running /\ PortOf[held] \in dead
    /\ lost' = lost \cup {held}
    /\ mpc' = "run"
    /\ held' = None
    /\ astray' = TRUE
    /\ UNCHANGED <<next, toND, queues, procs, claimed, gave, skipped, slept, hung>>

Messages == \/ MessagesWakes \/ MessagesSleeps \/ KeepResumes \/ KeepAstray
            \/ \E p \in Ports : Discard(p) \/ Deliver(p) \/ Keep(p) \/ KeepSleeps(p)

----------------------------------------------------------------------------
(* The other processes, which run only while Messages() is asleep.         *)

MessagesAsleep == mpc # "run" /\ Running

\* port_allocate: AddPortToList.
AddPortToList(p) ==
    /\ MessagesAsleep
    /\ p \notin listed \cup dead
    /\ listed' = listed \cup {p}
    /\ UNCHANGED <<next, toND, dead, unclaimed, pending, msgs, procs, hist, ends>>

\* Mistake: the pending readers are not woken.
DeleteNoWake(p) ==
    /\ MessagesAsleep
    /\ p \in listed \cap Deletable
    /\ listed' = listed \ {p}
    /\ dead' = dead \cup {p}
    /\ pending' = [pending EXCEPT ![p] = <<>>]
    /\ hung' = (unclaimed[p] # <<>>)
    /\ UNCHANGED <<next, toND, unclaimed, msgs, procs, hist, astray>>

\* port_deallocate: DeletePortFromList wakes the pending readers.  Its second
\* loop takes from pending_q while it tests unclaimed_q, so it never ends
\* when a message is left unclaimed.
DeletePortFromList(p) ==
    /\ MessagesAsleep
    /\ p \in listed \cap Deletable
    /\ listed' = listed \ {p}
    /\ dead' = dead \cup {p}
    /\ tab' = [r \in Readers |->
                  IF \E i \in DOMAIN pending[p] : pending[p][i] = r
                  THEN PortDeath ELSE tab[r]]
    /\ pending' = [pending EXCEPT ![p] = <<>>]
    /\ hung' = (unclaimed[p] # <<>>)
    /\ UNCHANGED <<next, toND, unclaimed, msgs, rpc, rport, hist, astray>>

\* Mistake: the message is copied and stays unclaimed.
ReceiveNowPeek(r, p) ==
    /\ MessagesAsleep
    /\ rpc[r] = "out" /\ p \in listed
    /\ unclaimed[p] # <<>>
    /\ Give(Head(unclaimed[p]), r)
    /\ UNCHANGED <<next, toND, queues, msgs, procs, ends>>

\* msg_receive finds an unclaimed message that fits.  One that does not is
\* put back in front, and the call fails: nothing changes.
ReceiveNow(r, p) ==
    /\ MessagesAsleep
    /\ rpc[r] = "out" /\ p \in listed
    /\ unclaimed[p] # <<>>
    /\ Size[Head(unclaimed[p])] <= Room[r]
    /\ Give(Head(unclaimed[p]), r)
    /\ unclaimed' = [unclaimed EXCEPT ![p] = Tail(@)]
    /\ UNCHANGED <<next, toND, listed, dead, pending, msgs, procs, ends>>

\* Mistake: a reader waits although there are unclaimed messages.
ReceiveWaitsAlways(r, p) ==
    /\ MessagesAsleep
    /\ rpc[r] = "out" /\ p \in listed
    /\ pending' = [pending EXCEPT ![p] = Append(@, r)]
    /\ rpc' = [rpc EXCEPT ![r] = "wait"]
    /\ rport' = [rport EXCEPT ![r] = p]
    /\ UNCHANGED <<next, toND, listed, dead, unclaimed, msgs, tab, hist, ends>>

\* It finds none and joins the pending queue.
ReceiveWaits(r, p) ==
    /\ MessagesAsleep
    /\ rpc[r] = "out" /\ p \in listed
    /\ unclaimed[p] = <<>>
    /\ pending' = [pending EXCEPT ![p] = Append(@, r)]
    /\ rpc' = [rpc EXCEPT ![r] = "wait"]
    /\ rport' = [rport EXCEPT ![r] = p]
    /\ UNCHANGED <<next, toND, listed, dead, unclaimed, msgs, tab, hist, ends>>

\* It finds none, and kmalloc sleeps before it joins the pending queue,
ReceiveSleeps(r, p) ==
    /\ MessagesAsleep
    /\ rpc[r] = "out" /\ p \in listed
    /\ unclaimed[p] = <<>>
    /\ rpc' = [rpc EXCEPT ![r] = "alloc"]
    /\ rport' = [rport EXCEPT ![r] = p]
    /\ Sleeps(p)
    /\ UNCHANGED <<next, toND, queues, msgs, tab, claimed, gave, skipped, lost, ends>>

\* which it then does without another look;
ReceiveResumes(r) ==
    /\ MessagesAsleep
    /\ rpc[r] = "alloc" /\ rport[r] \in listed
    /\ pending' = [pending EXCEPT ![rport[r]] = Append(@, r)]
    /\ rpc' = [rpc EXCEPT ![r] = "wait"]
    /\ UNCHANGED <<next, toND, listed, dead, unclaimed, msgs, rport, tab, hist, ends>>

\* or in freed storage, if the port was deleted meanwhile: nobody will wake it.
ReceiveAstray(r) ==
    /\ MessagesAsleep
    /\ rpc[r] = "alloc" /\ rport[r] \in dead
    /\ rpc' = [rpc EXCEPT ![r] = "wait"]
    /\ astray' = TRUE
    /\ UNCHANGED <<next, toND, queues, msgs, rport, tab, hist, hung>>

\* The reader wakes, finds its msg_tab filled in, and returns.
ReceiveReturns(r) ==
    /\ MessagesAsleep
    /\ rpc[r] = "wait" /\ tab[r] # None
    /\ rpc' = [rpc EXCEPT ![r] = "out"]
    /\ tab' = [tab EXCEPT ![r] = None]
    /\ UNCHANGED <<next, toND, queues, msgs, rport, hist, ends>>

Awake(r) == ReceiveResumes(r) \/ ReceiveAstray(r) \/ ReceiveReturns(r)

Next == \/ HostSends \/ Messages
        \/ \E p \in Ports : AddPortToList(p) \/ DeletePortFromList(p)
        \/ \E r \in Readers : Awake(r)
        \/ \E r \in Readers, p \in Ports :
              ReceiveNow(r, p) \/ ReceiveWaits(r, p) \/ ReceiveSleeps(r, p)

\* A process that has been woken gets to run; nobody has to call msg_receive.
Spec == /\ Init /\ [][Next]_vars
        /\ WF_vars(Messages) /\ \A r \in Readers : WF_vars(Awake(r))

----------------------------------------------------------------------------
\* A reader waits for port p, and a message for it lies unclaimed there.
Stranded(p) == pending[p] # <<>> /\ unclaimed[p] # <<>>

InOrder(p) == \A i, j \in DOMAIN claimed[p] : i < j => claimed[p][i] < claimed[p][j]

\* No reader sleeps on a port while a message for it lies unclaimed there.
NoStrandedReader == \A p \in listed : ~Stranded(p)

\* "Just as in Mach, message delivery is guaranteed to be sequential."
Sequential == \A p \in Ports : InOrder(p)

\* Both hold of every port for which kmalloc has not had to sleep, whatever
\* happens to the others.
AwakePortsServed == \A p \in Ports \ slept : InOrder(p) /\ (p \in listed => ~Stranded(p))

Occurs(m, s) == Cardinality({i \in DOMAIN s : s[i] = m})

\* A message that was sent is in exactly one place: on the queue, in the hands
\* of Messages(), unclaimed at its own port, discarded, given to one reader, or
\* lost on a freed list.
Conserved == \A m \in 1..(next - 1) :
    Occurs(m, toND) + Occurs(m, unclaimed[PortOf[m]])
        + Cardinality({held} \cap {m}) + Cardinality(skipped \cap {m})
        + Cardinality(gave[m]) + Cardinality(lost \cap {m}) = 1

\* Nothing is lost, and no freed list written to, but for a port that was deleted
\* while kmalloc slept for it.
LostWithPort == /\ \A m \in lost : PortOf[m] \in dead \cap slept
                /\ astray => dead \cap slept # {}

\* Messages() neither hands out a message twice nor loses one, wherever kmalloc
\* slept, except to a port that goes meanwhile; and the lists of ports, messages
\* and readers stay what they should be, up to the write to a freed one.
MessagesSound == TypeOK /\ Conserved /\ LostWithPort

\* A message given to a reader that was waiting is no longer than the buffer
\* the reader offered.
FitsReader == \A m \in Msgs : \A r \in gave[m] : Size[m] <= Room[r]

\* No list is written to after it has been freed.
NoFreedList == ~astray

\* Deleting a port always returns to its caller.
DeletionReturns == ~hung

\* A reader whose port is deleted does not sleep on it for ever.  (One whose
\* kmalloc sleeps meanwhile joins a freed queue.)
ReleasedByDeath == \A r \in Readers :
    (rpc[r] # "out" /\ rport[r] \in dead) ~> (rpc[r] = "out" \/ hung)

\* At least not if it was on the queue of the port when the port was deleted.
QueuedReleasedByDeath == \A r \in Readers, p \in Ports :
    (rpc[r] # "out" /\ rport[r] = p /\ p \in dead \ slept) ~> (rpc[r] = "out" \/ ~Running)

\* A message that reached the queue of a port with a reader waiting is given
\* to somebody or discarded, unless the deletion of a port never ends or the list
\* of a deleted port is written to.
WaitingReaderServed == \A p \in Ports :
    (pending[p] # <<>> /\ \E i \in DOMAIN toND : PortOf[toND[i]] = p)
        ~> (~Running \/ pending[p] = <<>> \/ \A i \in DOMAIN toND : PortOf[toND[i]] # p)
=============================================================================
