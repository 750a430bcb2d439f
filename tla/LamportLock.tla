---------------------------- MODULE LamportLock ----------------------------
(***************************************************************************)
(* The multiprocessor lock of an NDQueue: Lock_x, Lock_y and Lock_b in     *)
(* shared NuBus memory.  ND_LamportLock and ND_LamportSpinLock of the host *)
(* driver and of the i860 kernel are one algorithm (they differ in how     *)
(* they pass the time while a loop condition holds); the copy in libND     *)
(* tests another condition after its scan, so the processes that run it    *)
(* are the constant DpsProcs.  A process is named by its LOCK_NUM.  Every  *)
(* read or write of a shared word is a step of its own.                    *)
(***************************************************************************)
EXTENDS Integers

CONSTANTS Procs,          \* lock numbers in use: 0 DPS, 1 host kernel, 2 4 6 boards
          DpsProcs,       \* those that run libND's ND_LamportLock
          MAX_LOCK_NUM    \* highest lock number of NDmsg.h

LOCK_UNDEF == -1

ASSUME LockAssumption == /\ MAX_LOCK_NUM \in Nat
                         /\ Procs \subseteq 0..MAX_LOCK_NUM
                         /\ DpsProcs \subseteq Procs

VARIABLES x, y, b,        \* Lock_x, Lock_y, Lock_b of the queue
          pc,             \* where each process is in lock, use, unlock
          scan            \* the loop index j of each process

lockVars == <<x, y, b, pc, scan>>

\* Before the call, the statements of ND_LamportLock up to its return, the
\* critical section, and the two stores of ND_LamportUnlock.
Labels == {"idle", "setb", "setx", "testy", "backoff", "waity", "sety", "testx",
           "clearb", "scan", "retry", "cs", "unlocky", "unlockb"}

LockTypeOK == /\ x \in Procs \cup {LOCK_UNDEF}
              /\ y \in Procs \cup {LOCK_UNDEF}
              /\ b \in [0..MAX_LOCK_NUM -> BOOLEAN]
              /\ pc \in [Procs -> Labels]
              /\ scan \in [Procs -> 0..MAX_LOCK_NUM]

\* ND_LamportLockInit: the structure zeroed, both registers undefined.
LockInit == /\ x = LOCK_UNDEF
            /\ y = LOCK_UNDEF
            /\ b = [n \in 0..MAX_LOCK_NUM |-> FALSE]
            /\ pc = [p \in Procs |-> "idle"]
            /\ scan = [p \in Procs |-> 0]

Goto(p, from, to) == /\ pc[p] = from
                     /\ pc' = [pc EXCEPT ![p] = to]

\* A process decides to write to the queue and calls the lock function.
Call(p) == Goto(p, "idle", "setb") /\ UNCHANGED <<x, y, b, scan>>

SetB(p) == /\ Goto(p, "setb", "setx")
           /\ b' = [b EXCEPT ![p] = TRUE]
           /\ UNCHANGED <<x, y, scan>>

SetX(p) == /\ Goto(p, "setx", "testy")
           /\ x' = p
           /\ UNCHANGED <<y, b, scan>>

\* if ( Lock_y != LOCK_UNDEF )
TestY(p) == /\ \/ y = LOCK_UNDEF /\ Goto(p, "testy", "sety")
               \/ y # LOCK_UNDEF /\ Goto(p, "testy", "backoff")
            /\ UNCHANGED <<x, y, b, scan>>

\* Mistake: a process that backs off also undoes Lock_y.
BackoffClearsY(p) == /\ Goto(p, "backoff", "waity")
                     /\ b' = [b EXCEPT ![p] = FALSE]
                     /\ y' = LOCK_UNDEF
                     /\ UNCHANGED <<x, scan>>

Backoff(p) == /\ Goto(p, "backoff", "waity")
              /\ b' = [b EXCEPT ![p] = FALSE]
              /\ UNCHANGED <<x, y, scan>>

\* while ( Lock_y != LOCK_UNDEF ) pause; continue
WaitY(p) == /\ y = LOCK_UNDEF
            /\ \/ Goto(p, "waity", "setb")
               \/ Goto(p, "retry", "setb")
            /\ UNCHANGED <<x, y, b, scan>>

SetY(p) == /\ Goto(p, "sety", "testx")
           /\ y' = p
           /\ UNCHANGED <<x, b, scan>>

\* if ( Lock_x != LOCK_NUM ), else the fast path into the critical section
TestX(p) == /\ \/ x = p /\ Goto(p, "testx", "cs")
               \/ x # p /\ Goto(p, "testx", "clearb")
            /\ UNCHANGED <<x, y, b, scan>>

ClearB(p) == /\ Goto(p, "clearb", "scan")
             /\ b' = [b EXCEPT ![p] = FALSE]
             /\ scan' = [scan EXCEPT ![p] = 0]
             /\ UNCHANGED <<x, y>>

\* Mistake: the scan runs past the last lock number.
ScanPastEnd(p) == /\ pc[p] = "scan"
                  /\ scan[p] <= MAX_LOCK_NUM
                  /\ ~b[scan[p]]
                  /\ scan' = [scan EXCEPT ![p] = @ + 1]
                  /\ UNCHANGED <<x, y, b, pc>>

\* for ( j = 0; j < MAX_LOCK_NUM; ++j ) while ( Lock_b[j] != FALSE ) pause
Scan(p) == /\ pc[p] = "scan"
           /\ scan[p] < MAX_LOCK_NUM
           /\ ~b[scan[p]]
           /\ scan' = [scan EXCEPT ![p] = @ + 1]
           /\ UNCHANGED <<x, y, b, pc>>

\* Mistake: everybody makes libND's test.
LostRaceUnset(p) == y # LOCK_UNDEF

\* The test after the scan: the driver and the i860 kernel compare Lock_y
\* with their own number, libND compares it with LOCK_UNDEF.
LostRace(p) == IF p \in DpsProcs THEN y # LOCK_UNDEF ELSE y # p

\* Mistake: no test of Lock_y after the scan.
DecideWins(p) == /\ scan[p] = MAX_LOCK_NUM
                 /\ Goto(p, "scan", "cs")
                 /\ UNCHANGED <<x, y, b, scan>>

Decide(p) == /\ scan[p] = MAX_LOCK_NUM
             /\ \/ LostRace(p) /\ Goto(p, "scan", "retry")
                \/ ~LostRace(p) /\ Goto(p, "scan", "cs")
             /\ UNCHANGED <<x, y, b, scan>>

\* The caller's use of the queue, then ND_LamportUnlock.
Leave(p) == Goto(p, "cs", "unlocky") /\ UNCHANGED <<x, y, b, scan>>

UnlockY(p) == /\ Goto(p, "unlocky", "unlockb")
              /\ y' = LOCK_UNDEF
              /\ UNCHANGED <<x, b, scan>>

UnlockB(p) == /\ Goto(p, "unlockb", "idle")
              /\ b' = [b EXCEPT ![p] = FALSE]
              /\ UNCHANGED <<x, y, scan>>

\* What a process does once it has called the lock function.
Run(p) == \/ SetB(p) \/ SetX(p) \/ TestY(p) \/ Backoff(p) \/ WaitY(p)
          \/ SetY(p) \/ TestX(p) \/ ClearB(p) \/ Scan(p) \/ Decide(p)
          \/ Leave(p) \/ UnlockY(p) \/ UnlockB(p)

LockNext == \E p \in Procs : Call(p) \/ Run(p)

\* A processor that is running the lock code goes on running it.
LockSpec == LockInit /\ [][LockNext]_lockVars /\ \A p \in Procs : WF_lockVars(Run(p))

----------------------------------------------------------------------------
Holds(p) == pc[p] \in {"cs", "unlocky"}

\* At most one bus master at a time is between the return of the lock
\* function and the release of Lock_y, so Head moves under one writer.
MutualExclusion == \A p, q \in Procs : Holds(p) /\ Holds(q) => p = q

\* ND_LamportLockSet, which reads Lock_y only, never reports a held lock as
\* free: no rival's stores can leave Lock_y undefined under its holder.
HeldIsVisible == \A p \in Procs : Holds(p) => y # LOCK_UNDEF

\* When somebody wants the lock somebody gets it: the spin loops cannot all
\* wait for each other (the algorithm promises no more: one process may starve).
LockProgress == (\E p \in Procs : pc[p] \notin {"idle", "unlockb"})
                    ~> (\E p \in Procs : Holds(p))
=============================================================================
