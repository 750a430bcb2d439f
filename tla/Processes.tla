----------------------------- MODULE Processes ------------------------------
(***************************************************************************)
(* The board's lightweight processes (switch.c) and the core map they take *)
(* their stacks and the kernel's memory from.  A process gives up the      *)
(* processor only in Sleep, when it ends, and at the end of a system call  *)
(* when a more urgent process has become runnable.  Switch then looks at   *)
(* one entry of the table after the other, as process 0 and with the       *)
(* interrupts enabled; Wakeup is called by processes and by interrupts.    *)
(* Entry 0 itself, the scheduler, sleeps for ever and is left out.         *)
(***************************************************************************)
EXTENDS ResourceMap

CONSTANTS NPROC,          \* process table entries after entry 0
          NPages,         \* pages in the core map
          BlockSizes,     \* sizes of kmem_alloc's blocks, in pages
          Priorities      \* what Sleep is called with; smaller is more urgent

ASSUME ProcessesAssumption == /\ NPROC \in Nat \ {0} /\ NPages \in Nat \ {0}
                              /\ BlockSizes \subseteq 1..NPages
                              /\ Priorities \subseteq Nat /\ Priorities # {}

VARIABLES P,              \* the current process, Nobody in Switch
          last,           \* the entry the search starts after, Switch's static p
          looked,         \* entries the search has passed, before "runrun = 0"
                          \* NotYet
          found,          \* the best of them, Nobody if none is runnable
          late,           \* history: those woken when the search had passed them
          curpri, runrun,
          stat, wchan, pri,   \* p_stat, p_wchan, p_pri
          stack, vmstack, \* p_addr, and whether p_vmstack is set;
                          \* these and pri are set back in a free entry, where
                          \* the code leaves what nobody reads
          act,            \* the kernel call a process is in the middle of
          map, FreePageCnt,
          blocks          \* blocks of kmem_alloc that have not been freed

stacks == <<stack, vmstack>>
table == <<stat, wchan, pri, stacks, act>>
search == <<looked, found, late>>
cpu == <<P, last, search, curpri, runrun>>
core == <<map, FreePageCnt, blocks>>
vars == <<table, cpu, core>>

Slot == 1..NPROC
Nobody == 0
NotYet == NPROC + 1
NoStack == 0
Unset == Min(Priorities)
NoChan == "none"
CoreMap == "coremap"
NoCall == [call |-> "none", size |-> 0, slot |-> 0]

TypeOK == /\ P \in Slot \cup {Nobody} /\ last \in Slot
          /\ looked \in 0..NotYet /\ found \in Slot \cup {Nobody} /\ late \subseteq Slot
          /\ curpri \in Priorities /\ runrun \in BOOLEAN
          /\ stat \in [Slot -> {"SFREE", "SRUN", "SWAIT", "SIDL"}]
          /\ wchan \in [Slot -> {NoChan, CoreMap, "io", "reply"}]
          /\ pri \in [Slot -> Priorities]
          /\ stack \in [Slot -> 0..NPages] /\ vmstack \in [Slot -> BOOLEAN]
          /\ act \in [Slot -> [call: {"none", "alloc", "spawn", "end"},
                               size: BlockSizes \cup {0}, slot: Slot \cup {0}]]
          /\ FreePageCnt \in 0..NPages
          /\ \A b \in blocks : UnitsOf(b) \subseteq 1..NPages

\* One process runs; it has the first page of the core map as its stack.
Init == /\ P = 1 /\ last = 1 /\ runrun = FALSE
        /\ looked = NotYet /\ found = Nobody /\ late = {}
        /\ curpri \in Priorities
        /\ stat = [i \in Slot |-> IF i = 1 THEN "SRUN" ELSE "SFREE"]
        /\ wchan = [i \in Slot |-> NoChan]
        /\ pri = [i \in Slot |-> IF i = 1 THEN curpri ELSE Unset]
        /\ stack = [i \in Slot |-> IF i = 1 THEN 1 ELSE NoStack]
        /\ vmstack = [i \in Slot |-> FALSE]
        /\ act = [i \in Slot |-> NoCall]
        /\ map = IF NPages = 1 THEN <<>> ELSE <<Block(2, NPages - 1)>>
        /\ FreePageCnt = NPages - 1
        /\ blocks = {}

----------------------------------------------------------------------------
(* Switch, Wakeup and the core map as operations on the state.             *)

\* Switch gives up the processor; the process goes on when it is chosen again.
Switch == /\ P' = Nobody
          /\ UNCHANGED <<last, search, curpri, runrun>>

\* The entries a search passes before i, when it starts after the last that ran.
Before(i) == (i - last - 1) % NPROC

\* setrun of every entry in woken.
SetRun(woken) ==
  /\ wchan' = [i \in Slot |-> IF i \in woken THEN NoChan ELSE wchan[i]]
  /\ stat' = [i \in Slot |-> IF i \in woken THEN "SRUN" ELSE stat[i]]
  /\ runrun' = (runrun \/ \E i \in woken : pri[i] < curpri)
  /\ late' = IF P = Nobody /\ looked # NotYet
             THEN late \cup {i \in woken : Before(i) < looked} ELSE late

Sleepers(chan) == {i \in Slot : wchan[i] = chan}

\* rmalloc of the core map.
Take(size) == /\ map' = RmallocMap(map, size)
              /\ FreePageCnt' = FreePageCnt - (IF Fits(map, size) = {} THEN 0 ELSE size)

\* Mistake: rmfree returns early when it has combined fragments.
WokenUnlessCombined(size, addr) ==
  IF GrowsUp(map, addr) \/ GrowsDown(map, size, addr) THEN {} ELSE Sleepers(CoreMap)

\* Those who wait for pages and are woken by rmfree.
WokenByFree(size, addr) == IF Overflows(map, size, addr) THEN {} ELSE Sleepers(CoreMap)

\* rmfree of the core map, but for its Wakeup.
Give(size, addr) ==
  /\ map' = RmfreeMap(map, size, addr)
  /\ FreePageCnt' = FreePageCnt + (IF Overflows(map, size, addr) THEN 0 ELSE size)

\* Sleep(chan, priority) by the current process, which goes on with call a.
Sleep(chan, priority, a) ==
  /\ stat' = [stat EXCEPT ![P] = "SWAIT"]
  /\ pri' = [pri EXCEPT ![P] = priority]
  /\ wchan' = [wchan EXCEPT ![P] = chan]
  /\ act' = [act EXCEPT ![P] = a]
  /\ Switch

Running(call) == P # Nobody /\ act[P].call = call

----------------------------------------------------------------------------
(* What the current process does.                                          *)

\* It waits for a message or for room in a queue.
SleepIO == /\ Running("none")
           /\ \E priority \in Priorities : Sleep("io", priority, NoCall)
           /\ UNCHANGED <<stacks, core>>

\* One turn of the loop of kmem_alloc, and of morecore.
KmemTry(size) ==
  \/ /\ Fits(map, size) # {}
     /\ Take(size)
     /\ blocks' = blocks \cup {Block(RmallocAddr(map, size), size)}
     /\ act' = [act EXCEPT ![P] = NoCall]
     /\ UNCHANGED <<cpu, stat, wchan, pri, stacks>>
  \/ /\ Fits(map, size) = {}
     /\ Sleep(CoreMap, pri[P], [NoCall EXCEPT !.call = "alloc", !.size = size])
     /\ UNCHANGED <<stacks, core>>

KmemAlloc == /\ Running("none")
             /\ \E size \in BlockSizes : KmemTry(size)

KmemRetry == /\ Running("alloc")
             /\ KmemTry(act[P].size)

KmemFree == /\ Running("none")
            /\ \E b \in blocks : /\ Give(b.size, b.addr)
                              /\ SetRun(WokenByFree(b.size, b.addr))
                              /\ blocks' = blocks \ {b}
            /\ UNCHANGED <<P, last, looked, found, curpri, pri, stacks, act>>

FreeSlots == {i \in Slot : stat[i] = "SFREE"}

\* The page for the trap stack of entry i and its start, as a copy of the
\* current entry; without a page the entry is free again.
Equip(i, userstack) ==
  LET room == Fits(map, 1) # {}
  IN /\ Take(1)
     /\ stat' = [stat EXCEPT ![i] = IF room THEN "SRUN" ELSE "SFREE"]
     /\ pri' = [pri EXCEPT ![i] = IF room THEN pri[P] ELSE Unset]
     /\ stack' = [stack EXCEPT ![i] = RmallocAddr(map, 1)]
     /\ vmstack' = [vmstack EXCEPT ![i] = room /\ userstack]
     /\ UNCHANGED <<wchan, blocks, cpu>>

\* p_vmstack is copied too.
SpawnProc ==
  /\ Running("none") /\ FreeSlots # {}
  /\ Equip(Min(FreeSlots), vmstack[P])
  /\ UNCHANGED act

\* Mistake: the entry is marked only when it has its stack.
SpawnUnmarked ==
  /\ Running("none") /\ FreeSlots # {}
  /\ stat' = [stat EXCEPT ![P] = "SWAIT"]
  /\ Switch
  /\ wchan' = [wchan EXCEPT ![P] = "reply"]
  /\ act' = [act EXCEPT ![P] = [NoCall EXCEPT !.call = "spawn", !.slot = Min(FreeSlots)]]
  /\ UNCHANGED <<pri, stacks, core>>

\* SpawnUserProc marks the entry SIDL and asks the host for a stack.
SpawnUserProc ==
  /\ Running("none") /\ FreeSlots # {}
  /\ stat' = [stat EXCEPT ![Min(FreeSlots)] = "SIDL", ![P] = "SWAIT"]
  /\ Switch
  /\ wchan' = [wchan EXCEPT ![P] = "reply"]
  /\ act' = [act EXCEPT ![P] = [NoCall EXCEPT !.call = "spawn", !.slot = Min(FreeSlots)]]
  /\ UNCHANGED <<pri, stacks, core>>

StackAllocated == /\ Running("spawn")
                  /\ Equip(act[P].slot, TRUE)
                  /\ act' = [act EXCEPT ![P] = NoCall]

\* The host has no room for the stack: SpawnUserProc returns, the entry as it is.
StackRefused == /\ Running("spawn")
                /\ act' = [act EXCEPT ![P] = NoCall]
                /\ UNCHANGED <<cpu, core, stat, wchan, pri, stacks>>

\* DestroyProc by a coroutine that returns: rmfree of its stack, and then, if
\* it has a user stack, vm_deallocate, in which it sleeps.
DestroyProc ==
  /\ Running("none")
  /\ Give(1, stack[P])
  /\ LET woken == WokenByFree(1, stack[P])
         user == vmstack[P]
     IN /\ wchan' = [i \in Slot |-> IF i = P /\ user THEN "reply"
                                   ELSE IF i \in woken THEN NoChan ELSE wchan[i]]
        /\ stat' = [i \in Slot |-> IF i = P THEN (IF user THEN "SWAIT" ELSE "SFREE")
                                  ELSE IF i \in woken THEN "SRUN" ELSE stat[i]]
        /\ act' = [act EXCEPT ![P] = IF user THEN [NoCall EXCEPT !.call = "end"] ELSE NoCall]
        /\ stack' = [stack EXCEPT ![P] = IF user THEN @ ELSE NoStack]
        /\ pri' = [pri EXCEPT ![P] = IF user THEN @ ELSE Unset]
        /\ Switch
  /\ UNCHANGED <<vmstack, blocks>>

StackDeallocated ==
  /\ Running("end")
  /\ stat' = [stat EXCEPT ![P] = "SFREE"]
  /\ Switch
  /\ act' = [act EXCEPT ![P] = NoCall]
  /\ stack' = [stack EXCEPT ![P] = NoStack]
  /\ vmstack' = [vmstack EXCEPT ![P] = FALSE]
  /\ pri' = [pri EXCEPT ![P] = Unset]
  /\ UNCHANGED <<wchan, core>>

\* The end of a system call: a more urgent process has become runnable.
Reschedule == /\ Running("none") /\ runrun
              /\ Switch
              /\ UNCHANGED <<table, core>>

----------------------------------------------------------------------------
(* The search, and idle().                                                 *)

\* runrun = 0, pp = p and p = 0: of the whole loop, or of its next turn.
StartSearch == /\ P = Nobody /\ looked = NotYet
               /\ runrun' = FALSE
               /\ looked' = 0 /\ found' = Nobody
               /\ UNCHANGED <<P, last, late, curpri, table, core>>

\* Mistake: of equals the last one is taken.
BetterOrEqual(i) == stat[i] = "SRUN" /\ (found # Nobody => pri[i] <= pri[found])

Better(i) == stat[i] = "SRUN" /\ (found # Nobody => pri[i] < pri[found])

\* The next entry: runnable, and more urgent than what has been found.
LookAt(i) == /\ P = Nobody /\ Before(i) = looked
             /\ found' = IF Better(i) THEN i ELSE found
             /\ looked' = looked + 1
             /\ UNCHANGED <<P, last, late, curpri, runrun, table, core>>

\* Nothing is runnable: idle() waits for an interrupt, but not for ever.
IdleEnds == /\ P = Nobody /\ looked = NPROC /\ found = Nobody
            /\ looked' = NotYet /\ late' = {}
            /\ UNCHANGED <<P, last, found, curpri, runrun, table, core>>

\* The winner goes on.
Resume == /\ P = Nobody /\ looked = NPROC /\ found # Nobody
          /\ P' = found /\ last' = found /\ curpri' = pri[found]
          /\ looked' = NotYet /\ found' = Nobody /\ late' = {}
          /\ UNCHANGED <<runrun, table, core>>

----------------------------------------------------------------------------
(* Interrupts, which come in between, in a search as well.                 *)

\* A message has come, or there is room again.
Interrupt == /\ Sleepers("io") # {}
             /\ SetRun(Sleepers("io"))
             /\ UNCHANGED <<P, last, looked, found, curpri, pri, stacks, act, core>>

\* The reply to the call of process i.
HostReplies(i) == /\ wchan[i] = "reply"
                  /\ SetRun({i})
                  /\ UNCHANGED <<P, last, looked, found, curpri, pri, stacks, act, core>>

Next == \/ SleepIO \/ KmemAlloc \/ KmemRetry \/ KmemFree
        \/ SpawnProc \/ SpawnUserProc \/ StackAllocated \/ StackRefused
        \/ DestroyProc \/ StackDeallocated
        \/ Reschedule \/ StartSearch \/ IdleEnds \/ Resume \/ Interrupt
        \/ \E i \in Slot : LookAt(i) \/ HostReplies(i)

Spec == Init /\ [][Next]_vars
----------------------------------------------------------------------------
(* Properties.                                                             *)

\* Those who have a stack page of their own.
Equipped == {i \in Slot : stat[i] \in {"SRUN", "SWAIT"} /\ act[i].call # "end"}

Held == {UnitsOf(b) : b \in blocks} \cup {{stack[i]} : i \in Equipped}

\* With room for half as many fragments as there are pages, the core map hands
\* out pages nobody else has and loses none, whatever is allocated and freed in
\* whatever order (rmalloc, rmfree).
Allocator == INSTANCE PageAllocator WITH Unit <- 1..NPages, avail <- Units(map), held <- Held
ImplementsAllocator == Allocator!Spec

\* Fragments are merged wherever they abut, so that first fit fails only if no
\* run of free pages is long enough, and FreePageCnt, which decides whether the
\* page-out daemon is woken, counts the free pages.
MapIsHonest ==
  /\ WellFormed(map)
  /\ FreePageCnt = Cardinality(Units(map))
  /\ \A n \in 1..NPages :
       (\E lo \in 1..NPages : lo..lo+n-1 \subseteq Units(map)) => Fits(map, n) # {}

\* Nobody sleeps in kmem_alloc while his block could be had.
NoSleepWhileFits == \A i \in Sleepers(CoreMap) : Fits(map, act[i].size) = {}

\* Who gets the processor is at least as urgent as every entry that waits for its
\* turn, and if he is only as urgent the search for the next comes nearer to the
\* entry: nobody is passed over by his equals for ever, nor by the less urgent but
\* once, when he is woken by an interrupt after the search has passed him (Switch).
TurnsGoRound == [][\A i \in Slot \ late :
  P = Nobody /\ P' \notin {i, Nobody} /\ stat[i] = "SRUN"
  => \/ pri[P'] < pri[i]
     \/ pri[P'] = pri[i] /\ Before(i)' < Before(i)]_vars

\* An entry that is being built while the host is asked for its stack is kept
\* for the process that builds it, and no other process builds it (SpawnUserProc).
BuiltByOne == \A i \in Slot : act[i].call = "spawn" =>
  /\ stat[act[i].slot] = "SIDL"
  /\ \A j \in Slot \ {i} : act[j].call # "spawn" \/ act[j].slot # act[i].slot

\* The two tables stay sound over every sleep inside an operation on them: the
\* core map has every fragment once and merged, an entry under construction is
\* built by one process.
TablesSound == TypeOK /\ MapIsHonest /\ BuiltByOne

\* What the code does not provide: an entry under construction has somebody who
\* builds it; runrun is set whenever a more urgent process is runnable; and the
\* trap stack of a process that is being destroyed, on which it still runs, is not
\* somebody else's.
EntriesComeBack == \A i \in Slot : stat[i] = "SIDL" =>
  \E j \in Slot : act[j].call = "spawn" /\ act[j].slot = i
UrgentNoticed == \A i \in Slot :
  P # Nobody /\ stat[i] = "SRUN" /\ pri[i] < pri[P] => runrun
DyingKeepsStack == \A i \in Slot : act[i].call = "end" =>
  stack[i] \in Units(map) /\ \A j \in Equipped : stack[j] # stack[i]
=============================================================================
