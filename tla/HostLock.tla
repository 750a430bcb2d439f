------------------------------ MODULE HostLock ------------------------------
(***************************************************************************)
(* The lock of the ToND queue as the shipped system uses it: its two users *)
(* are the Display PostScript task (NDmsg_send of libND, lock number 0)    *)
(* and the driver's server thread (lock number 1), and both run on the one *)
(* processor of the host.  The kernel thread takes the processor from the  *)
(* task at any point, and gives it back only when it is blocked waiting    *)
(* for a message or inside shortpause.                                     *)
(***************************************************************************)
EXTENDS LamportLock

DPS  == 0
KERN == 1

\* Who uses this lock: the DPS task and the host kernel, and nobody else.
HostUsers == Procs = {DPS, KERN}

\* Mistake: the kernel thread can be descheduled anywhere.
KernelPreempted == TRUE

\* shortpause is called from the three wait loops only.
KernelPaused == pc[KERN] \in {"idle", "waity", "retry", "scan"}

HostNext == \/ Call(KERN) \/ Run(KERN)
            \/ KernelPaused /\ (Call(DPS) \/ Run(DPS))

\* timeout(thread_wakeup) ends every pause, so the kernel thread keeps
\* running; the task runs when the kernel thread leaves it the processor for
\* good, or again and again.
HostSpec == /\ LockInit /\ [][HostNext]_lockVars
            /\ WF_lockVars(Run(KERN))
            /\ SF_lockVars(KernelPaused /\ Run(DPS))

----------------------------------------------------------------------------
\* The process waits for Lock_y to be cleared while Lock_y holds its own
\* number: nobody but itself would clear it.
SelfWait(p) == pc[p] = "retry" /\ y = p

\* When somebody wants the lock somebody gets it, unless libND's test makes
\* the task that won wait for itself: nothing else can stop the two.
ProgressOrSelfWait == (\E p \in Procs : pc[p] \notin {"idle", "unlockb"})
                          ~> (\E p \in Procs : Holds(p) \/ SelfWait(p))
=============================================================================
