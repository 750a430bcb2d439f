------------------------------- MODULE Pager --------------------------------
(***************************************************************************)
(* Demand paging on the board: page faults, the page-out daemon and the    *)
(* calls that flush, page out, allocate and deallocate user memory, with   *)
(* the host as backing store.  Processes share one set of page tables and  *)
(* give up the processor only where they sleep, so everything between two  *)
(* sleeps is one step; a fault does not reschedule on its way out, so the  *)
(* access that caused it belongs to the step that ends it.  What a page    *)
(* holds is the number of writes made to it.  The data cache is taken to   *)
(* be transparent; the TLB is not.  Memory may be deallocated while one of *)
(* its pages is in transit.  When the transfer so torn comes to its turn,  *)
(* the host refuses it and the board panics; if meanwhile the same address *)
(* was allocated again, old data goes over the new memory and the frame is *)
(* freed twice, and there the model stops.                                 *)
(***************************************************************************)
EXTENDS Integers, FiniteSets, FiniteSetsExt

CONSTANTS Proc,           \* user processes of the board
          Daemon,         \* PageOutDaemon
          NPages,         \* pages from VM_MIN_ADDRESS to VM_MAX_ADDRESS
          NFrames,        \* pages of DRAM in the coremap
          MinFreePages,   \* the daemon is woken below this
          Batch,          \* pages in one ND_Kern_page_out of pmap_clean
          MaxOps          \* bound: operations started by the processes

ASSUME PagerAssumption == /\ Daemon \notin Proc
                          /\ {NPages, NFrames, Batch} \subseteq Nat \ {0}
                          /\ MinFreePages \in 1..NFrames
                          /\ MaxOps \in Nat

VARIABLES pte,            \* the page table entry of every page
          tlb,            \* pages the TLB lets be written without a trap
          free,           \* the free frames of the coremap
          mem, store,     \* what the frames and the backing store hold
          pc, chan,       \* where everyone is and the channel he sleeps on
          op,             \* the access a process has under way
          frame,          \* the frame a fault is filling
          work,           \* the page-out call a process or the daemon is in
          va, startva, needed,   \* the daemon's scan
          latest,         \* what the program wrote last
          stale,          \* pages written through an outdated TLB entry
          forgotten,      \* sleepers whose page became usable unannounced
          hosted,         \* pages for which the host's task has memory
          torn,           \* who is at work on which page that was given up
          fate,           \* "running", "panic" or "collision"
          ops

memory == <<mem, store, latest, stale>>
scan == <<va, startva, needed>>
gone == <<hosted, torn, fate>>
vars == <<pte, tlb, free, memory, pc, chan, op, frame, work, scan, forgotten, gone, ops>>

Page == 0..NPages-1
Frame == 1..NFrames
NoFrame == 0
Actor == Proc \cup {Daemon}

Awake == <<>>                    \* p_wchan of a process that does not sleep
PageChan(p) == <<"page", p>>     \* trunc_page(vaddr)
CoreMap == <<"coremap">>
DaemonName == <<"m_name">>       \* &coremap->m_name

ZeroPTE == [allocated |-> FALSE, valid |-> FALSE, wired |-> FALSE,
            modify |-> FALSE, ref |-> FALSE, backing |-> FALSE, pfn |-> NoFrame]
AddedPTE == [ZeroPTE EXCEPT !.allocated = TRUE]
NoOp == [page |-> 0, write |-> FALSE]
NoWork == [out |-> <<>>, next |-> 0, end |-> 0, first |-> 0, wake |-> 0, release |-> FALSE]

TypeOK ==
  /\ pte \in [Page -> [allocated: BOOLEAN, valid: BOOLEAN, wired: BOOLEAN, modify: BOOLEAN,
                       ref: BOOLEAN, backing: BOOLEAN, pfn: Frame \cup {NoFrame}]]
  /\ tlb \subseteq Page /\ free \subseteq Frame
  /\ mem \in [Frame \cup {NoFrame} -> Nat] /\ store \in [Page -> Nat]
  /\ pc \in [Actor -> {"run", "busy", "alloc", "pagein", "enter", "pageout", "cleaned",
                       "asleep", "scan"}]
  /\ \A x \in Actor : chan[x] \in {Awake, CoreMap, DaemonName} \cup {PageChan(p) : p \in Page}
  /\ op \in [Proc -> [page: Page, write: BOOLEAN]]
  /\ frame \in [Proc -> Frame \cup {NoFrame}]
  /\ \A x \in Actor : DOMAIN work[x].out \subseteq Page
  /\ va \in Page /\ startva \in Page /\ needed \in 0..2*NFrames
  /\ latest \in [Page -> Nat] /\ stale \subseteq Page
  /\ forgotten \subseteq Proc /\ ops \in 0..MaxOps
  /\ hosted \subseteq Page /\ torn \subseteq Actor \X Page
  /\ fate \in {"running", "panic", "collision"}

\* After vm_allocate of the user's memory; the daemon is in its first Sleep.
Init == /\ pte = [p \in Page |-> AddedPTE]
        /\ tlb = {} /\ free = Frame
        /\ mem = [f \in Frame \cup {NoFrame} |-> 0] /\ store = [p \in Page |-> 0]
        /\ pc = [x \in Actor |-> IF x = Daemon THEN "asleep" ELSE "run"]
        /\ chan = [x \in Actor |-> IF x = Daemon THEN DaemonName ELSE Awake]
        /\ op = [t \in Proc |-> NoOp]
        /\ frame = [t \in Proc |-> NoFrame]
        /\ work = [x \in Actor |-> NoWork]
        /\ va = 0 /\ startva = 0 /\ needed = 0
        /\ latest = [p \in Page |-> 0] /\ stale = {} /\ forgotten = {} /\ ops = 0
        /\ hosted = Page /\ torn = {} /\ fate = "running"

----------------------------------------------------------------------------
(* Helpers.                                                                *)

\* A process runs when it does not sleep and the daemon, which does not
\* give up the processor while it scans, is not scanning.
CanRun(t) == chan[t] = Awake /\ pc[Daemon] # "scan"

Wakeup(c, ch) == [x \in Actor |-> IF c[x] = ch THEN Awake ELSE c[x]]

\* Marked wired but not valid: the page is in transit.
Busy(pt, p) == pt[p].wired /\ ~pt[p].valid

\* Those who are at work on page p.
Workers(p) == {t \in Proc : pc[t] \in {"alloc", "pagein", "enter"} /\ op[t].page = p}
              \cup {x \in Actor : p \in DOMAIN work[x].out}

\* msg_rpc's interlock: between the host's answer to a service call and what the
\* caller does about it no other call is made.
Unlocked == \A x \in Actor : pc[x] \notin {"cleaned", "enter"}

\* The page that x works on was given up: what x does next is no part of the model.
Torn(x) == \E p \in Page : <<x, p>> \in torn
Stops(how) == /\ fate' = how
              /\ UNCHANGED <<pte, tlb, free, memory, pc, chan, op, frame, work, scan,
                             forgotten, hosted, torn, ops>>

\* Mistake: a page entered for a write is not marked modified.
TouchClean(p, write, pt, tl, m) ==
  /\ pte' = [pt EXCEPT ![p].ref = @ \/ p \notin tl]
  /\ tlb' = tl \cup (IF write THEN {p} ELSE {})
  /\ latest' = IF write THEN [latest EXCEPT ![p] = @ + 1] ELSE latest
  /\ mem' = IF write THEN [m EXCEPT ![pt[p].pfn] = latest[p] + 1] ELSE m

\* The access itself, by a program that finds the page valid, with the page
\* table pt, TLB tl and memory m it finds.  A first write traps and sets the
\* dirty bit, which invalidates the TLB.
Touch(p, write, pt, tl, m) ==
  LET trap == write /\ ~pt[p].modify
      dirty == write \/ pt[p].modify
  IN /\ pte' = [pt EXCEPT ![p].ref = @ \/ p \notin tl, ![p].modify = dirty]
     /\ tlb' = (IF trap THEN {} ELSE tl) \cup (IF dirty THEN {p} ELSE {})
     /\ latest' = IF write THEN [latest EXCEPT ![p] = @ + 1] ELSE latest
     /\ mem' = IF write THEN [m EXCEPT ![pt[p].pfn] = latest[p] + 1] ELSE m

----------------------------------------------------------------------------
(* vm_fault.                                                               *)

\* Mistake: nobody is woken when the page is there.
EnterPageSilent(t, p, write, f, m) ==
  LET pt == [pte EXCEPT ![p].valid = TRUE, ![p].allocated = TRUE,
                        ![p].wired = FALSE, ![p].pfn = f]
  IN /\ Touch(p, write, pt, {}, m)
     /\ frame' = [frame EXCEPT ![t] = NoFrame]
     /\ pc' = [pc EXCEPT ![t] = "run"]
     /\ UNCHANGED chan

\* pmap_enter of frame f, and the access.
EnterPage(t, p, write, f, m) ==
  LET pt == [pte EXCEPT ![p].valid = TRUE, ![p].allocated = TRUE,
                        ![p].wired = FALSE, ![p].pfn = f]
  IN /\ Touch(p, write, pt, {}, m)
     /\ chan' = Wakeup(chan, PageChan(p))
     /\ frame' = [frame EXCEPT ![t] = NoFrame]
     /\ pc' = [pc EXCEPT ![t] = "run"]

\* kmem_alloc of one page, which rmalloc takes from the lowest address, for a
\* page marked busy.
GetFrame(t, p, write) ==
  LET f == Min(free)
      cleared == [mem EXCEPT ![f] = 0]
  IN \/ /\ free = {}
        /\ chan' = [Wakeup(chan, DaemonName) EXCEPT ![t] = CoreMap]
        /\ pc' = [pc EXCEPT ![t] = "alloc"]
        /\ pte' = [pte EXCEPT ![p].wired = TRUE]
        /\ UNCHANGED <<free, frame, mem, tlb, latest>>
     \/ /\ free # {} /\ pte[p].backing
        /\ free' = free \ {f} /\ frame' = [frame EXCEPT ![t] = f] /\ mem' = cleared
        /\ pte' = [pte EXCEPT ![p].wired = TRUE]
        /\ pc' = [pc EXCEPT ![t] = "pagein"]
        /\ UNCHANGED <<chan, tlb, latest>>
     \/ /\ free # {} /\ ~pte[p].backing
        /\ free' = free \ {f}
        /\ EnterPage(t, p, write, f, cleared)

\* Mistake: the page is not looked at for being in transit.
FaultInBlind(t, p, write) ==
  \/ /\ pte[p].valid
     /\ Touch(p, write, pte, tlb, mem)
     /\ pc' = [pc EXCEPT ![t] = "run"]
     /\ UNCHANGED <<free, chan, frame>>
  \/ /\ ~pte[p].valid
     /\ GetFrame(t, p, write)

\* From the test whether the page is in transit.
FaultIn(t, p, write) ==
  \/ /\ Busy(pte, p)
     /\ chan' = [chan EXCEPT ![t] = PageChan(p)]
     /\ pc' = [pc EXCEPT ![t] = "busy"]
     /\ UNCHANGED <<pte, tlb, free, mem, latest, frame>>
  \/ /\ pte[p].valid
     /\ Touch(p, write, pte, tlb, mem)
     /\ pc' = [pc EXCEPT ![t] = "run"]
     /\ UNCHANGED <<free, chan, frame>>
  \/ /\ ~Busy(pte, p) /\ ~pte[p].valid
     /\ GetFrame(t, p, write)

Ended(t) == op' = [op EXCEPT ![t] = IF pc'[t] = "run" THEN NoOp ELSE @]

\* A program reads or writes its memory, and the TLB has no outdated entry.
Access(t, p, write) ==
  /\ pc[t] = "run" /\ CanRun(t) /\ ops < MaxOps
  /\ pte[p].allocated
  /\ ops' = ops + 1
  /\ pte[p].valid \/ p \notin tlb
  /\ FaultIn(t, p, write)
  /\ op' = [op EXCEPT ![t] = IF pc'[t] = "run" THEN NoOp ELSE [page |-> p, write |-> write]]
  /\ UNCHANGED <<store, stale, work, scan, forgotten, gone>>

\* The TLB still has the entry of a page in transit: the write does not trap.
\* (A read would leave no trace.)
StaleWrite(t, p) ==
  /\ pc[t] = "run" /\ CanRun(t) /\ ops < MaxOps
  /\ p \in tlb /\ ~pte[p].valid
  /\ ops' = ops + 1
  /\ mem' = [mem EXCEPT ![pte[p].pfn] = latest[p] + 1]
  /\ latest' = [latest EXCEPT ![p] = @ + 1]
  /\ stale' = stale \cup {p}
  /\ UNCHANGED <<pte, tlb, free, store, pc, chan, op, frame, work, scan, forgotten, gone>>

\* The Sleep on a page in transit returns.
PageWaited(t) ==
  /\ pc[t] = "busy" /\ CanRun(t)
  /\ FaultIn(t, op[t].page, op[t].write)
  /\ Ended(t)
  /\ forgotten' = forgotten \ {t}
  /\ UNCHANGED <<store, stale, work, scan, gone, ops>>

\* The Sleep for a free page returns; kmem_alloc tries again.
FrameWaited(t) ==
  /\ pc[t] = "alloc" /\ CanRun(t) /\ ~Torn(t)
  /\ GetFrame(t, op[t].page, op[t].write)
  /\ Ended(t)
  /\ UNCHANGED <<store, stale, work, scan, forgotten, gone, ops>>

\* It would get a frame for a page that is no longer its own.
FrameUnwanted(t) == /\ pc[t] = "alloc" /\ CanRun(t) /\ Torn(t)
                    /\ Stops("collision")

\* ND_Kern_page_in returns.
PagedIn(t) ==
  /\ pc[t] = "enter" /\ CanRun(t)
  /\ EnterPage(t, op[t].page, op[t].write, frame[t], mem)
  /\ Ended(t)
  /\ UNCHANGED <<free, store, stale, work, scan, forgotten, gone, ops>>

----------------------------------------------------------------------------
(* pmap_clean, for vm_flush and, with the release that follows, for        *)
(* vm_page_out.                                                            *)

LowestOf(S) == IF Cardinality(S) <= Batch THEN S
               ELSE CHOOSE T \in SUBSET S : /\ Cardinality(T) = Batch
                                            /\ \A a \in T, b \in S \ T : a < b

\* The sweep from w.next on, until a batch is full or the range ends.  The
\* batch's waiters will be woken at the address the sweep has reached.
Sweep(t, w, pt, c) ==
  LET dirty == {p \in w.next..w.end-1 : pt[p].valid /\ pt[p].modify}
      b == LowestOf(dirty)
      full == Cardinality(b) = Batch
      freed == {p \in w.first..w.end-1 : pt[p].valid /\ ~pt[p].wired /\ ~pt[p].modify}
  IN \/ /\ dirty # {}
        /\ pte' = [p \in Page |-> IF p \in b THEN [pt[p] EXCEPT !.wired = TRUE, !.valid = FALSE]
                                  ELSE pt[p]]
        /\ work' = [work EXCEPT ![t] =
                      [w EXCEPT !.out = [p \in b |-> pt[p].pfn],
                                !.next = IF full THEN Max(b) + 1 ELSE w.end,
                                !.wake = IF full THEN Max(b) ELSE w.end]]
        /\ pc' = [pc EXCEPT ![t] = "pageout"]
        /\ chan' = c
        /\ UNCHANGED free
     \/ /\ dirty = {} /\ w.release
        /\ pte' = [p \in Page |-> IF p \in freed
                                  THEN [pt[p] EXCEPT !.valid = FALSE, !.ref = FALSE, !.pfn = NoFrame]
                                  ELSE pt[p]]
        /\ free' = free \cup {pt[p].pfn : p \in freed}
        /\ chan' = IF freed # {} THEN Wakeup(c, CoreMap) ELSE c
        /\ pc' = [pc EXCEPT ![t] = "run"]
        /\ work' = [work EXCEPT ![t] = NoWork]
     \/ /\ dirty = {} /\ ~w.release
        /\ pte' = pt /\ chan' = c
        /\ pc' = [pc EXCEPT ![t] = "run"]
        /\ work' = [work EXCEPT ![t] = NoWork]
        /\ UNCHANGED free

\* vm_flush (release FALSE) or vm_page_out of the pages first..end-1.  The
\* sweep starts with flush(), which leaves the TLB alone.
Flush(t, first, end, release) ==
  /\ pc[t] = "run" /\ CanRun(t) /\ ops < MaxOps
  /\ ops' = ops + 1
  /\ Sweep(t, [NoWork EXCEPT !.first = first, !.next = first, !.end = end, !.release = release],
           pte, chan)
  /\ tlb' = IF pc'[t] = "run" /\ release THEN {} ELSE tlb
  /\ UNCHANGED <<memory, op, frame, scan, forgotten, gone>>

\* ND_Kern_page_out returns to pmap_clean, which goes on with its sweep.
BatchCleaned(t) ==
  LET w == work[t]
      b == DOMAIN w.out
      pt == [p \in Page |-> IF p \in b
                            THEN [pte[p] EXCEPT !.modify = FALSE, !.backing = TRUE,
                                                !.wired = FALSE, !.valid = TRUE]
                            ELSE pte[p]]
      c == Wakeup(chan, PageChan(w.wake))
  IN /\ pc[t] = "cleaned" /\ CanRun(t)
     /\ Sweep(t, [w EXCEPT !.out = <<>>], pt, c)
     /\ tlb' = {}
     /\ forgotten' = forgotten \cup {u \in Proc : \E p \in b : c[u] = PageChan(p)}
     /\ UNCHANGED <<memory, op, frame, scan, gone, ops>>

----------------------------------------------------------------------------
(* vm_allocate and vm_deallocate, after the host has done its part.        *)

\* pmap_add leaves an entry in use alone; it does not see that a fault, which
\* waited when the page was given up, has marked it.
Allocate(t, p) ==
  /\ pc[t] = "run" /\ CanRun(t) /\ ops < MaxOps /\ Unlocked
  /\ p \notin hosted
  /\ ops' = ops + 1
  /\ hosted' = hosted \cup {p}
  /\ tlb' = {}
  /\ \/ /\ pte[p].allocated
        /\ UNCHANGED <<pte, torn>>
     \/ /\ ~pte[p].allocated
        /\ pte' = [pte EXCEPT ![p] = AddedPTE]
        /\ torn' = torn \cup (Workers(p) \X {p})
  /\ UNCHANGED <<free, memory, pc, chan, op, frame, work, scan, forgotten, fate>>

\* Whoever is at work on the page or waits for it.
Deallocate(t, p) ==
  /\ pc[t] = "run" /\ CanRun(t) /\ ops < MaxOps /\ Unlocked
  /\ p \in hosted
  /\ ops' = ops + 1
  /\ hosted' = hosted \ {p}
  /\ torn' = torn \cup (Workers(p) \X {p})
  /\ pte' = [pte EXCEPT ![p] = ZeroPTE]
  /\ free' = free \cup ({pte[p].pfn} \ {NoFrame})
  /\ chan' = IF pte[p].pfn # NoFrame THEN Wakeup(chan, CoreMap) ELSE chan
  /\ tlb' = {}
  /\ store' = [store EXCEPT ![p] = 0] /\ latest' = [latest EXCEPT ![p] = 0]
  /\ stale' = stale \ {p}
  /\ UNCHANGED <<mem, pc, op, frame, work, scan, forgotten, fate>>

----------------------------------------------------------------------------
(* PageOutDaemon.                                                          *)

\* Top of its loop; needed is set anew when it wakes.
Rest == /\ pc' = [pc EXCEPT ![Daemon] = "asleep"]
        /\ chan' = [Wakeup(chan, CoreMap) EXCEPT ![Daemon] = DaemonName]
        /\ tlb' = {} /\ needed' = 0

DaemonWakes ==
  /\ pc[Daemon] = "asleep" /\ chan[Daemon] = Awake
  /\ needed' = Cardinality(free) + MinFreePages
  /\ startva' = va
  /\ pc' = [pc EXCEPT ![Daemon] = "scan"]
  /\ UNCHANGED <<pte, tlb, free, memory, chan, op, frame, work, va, forgotten, gone, ops>>

\* One turn of the inner loop.  The lap is tested before the wrap.
DaemonScans ==
  LET next == va + 1
      p == IF next >= NPages THEN 0 ELSE next
      e == pte[p]
      lapped == next = startva
      released == [e EXCEPT !.valid = FALSE, !.pfn = NoFrame, !.ref = FALSE]
  IN /\ pc[Daemon] = "scan"
     /\ UNCHANGED <<memory, op, frame, startva, forgotten, gone, ops>>
     /\ \/ /\ Cardinality(free) >= needed
           /\ Rest /\ UNCHANGED <<pte, free, work, va>>
        \/ /\ Cardinality(free) < needed /\ lapped
           /\ va' = next /\ Rest /\ UNCHANGED <<pte, free, work>>
        \/ /\ Cardinality(free) < needed /\ ~lapped
           /\ va' = p /\ UNCHANGED needed
           /\ \/ /\ e.wired \/ ~e.valid
                 /\ UNCHANGED <<pte, tlb, free, pc, chan, work>>
              \/ /\ ~e.wired /\ e.valid /\ e.ref
                 /\ pte' = [pte EXCEPT ![p].ref = FALSE]
                 /\ UNCHANGED <<tlb, free, pc, chan, work>>
              \/ /\ ~e.wired /\ e.valid /\ ~e.ref /\ e.modify
                 /\ pte' = [pte EXCEPT ![p].wired = TRUE, ![p].valid = FALSE]
                 /\ work' = [work EXCEPT ![Daemon].out = [q \in {p} |-> e.pfn]]
                 /\ pc' = [pc EXCEPT ![Daemon] = "pageout"]
                 /\ UNCHANGED <<tlb, free, chan>>
              \/ /\ ~e.wired /\ e.valid /\ ~e.ref /\ ~e.modify
                 /\ pte' = [pte EXCEPT ![p] = released]
                 /\ tlb' = {}
                 /\ free' = free \cup {e.pfn}
                 /\ chan' = Wakeup(Wakeup(chan, CoreMap), PageChan(p))
                 /\ UNCHANGED <<pc, work>>

\* Mistake: the entry keeps the frame that is freed.
DaemonCleanedHolds ==
  /\ pc[Daemon] = "cleaned"
  /\ pte' = [pte EXCEPT ![va].modify = FALSE, ![va].backing = TRUE, ![va].wired = FALSE,
                        ![va].ref = FALSE]
  /\ free' = free \cup {work[Daemon].out[va]}
  /\ work' = [work EXCEPT ![Daemon] = NoWork]
  /\ tlb' = {}
  /\ chan' = Wakeup(Wakeup(chan, CoreMap), PageChan(va))
  /\ pc' = [pc EXCEPT ![Daemon] = "scan"]
  /\ UNCHANGED <<memory, op, frame, scan, forgotten, gone, ops>>

\* Mistake: the faults that wait for the page are not woken.
DaemonCleanedSilent ==
  /\ pc[Daemon] = "cleaned"
  /\ pte' = [pte EXCEPT ![va].modify = FALSE, ![va].backing = TRUE, ![va].wired = FALSE,
                        ![va].pfn = NoFrame, ![va].ref = FALSE]
  /\ free' = free \cup {work[Daemon].out[va]}
  /\ work' = [work EXCEPT ![Daemon] = NoWork]
  /\ tlb' = {}
  /\ chan' = Wakeup(chan, CoreMap)
  /\ pc' = [pc EXCEPT ![Daemon] = "scan"]
  /\ UNCHANGED <<memory, op, frame, scan, forgotten, gone, ops>>

\* ND_Kern_page_out returns; the page's frame is freed.
DaemonCleaned ==
  /\ pc[Daemon] = "cleaned"
  /\ pte' = [pte EXCEPT ![va].modify = FALSE, ![va].backing = TRUE, ![va].wired = FALSE,
                        ![va].pfn = NoFrame, ![va].ref = FALSE]
  /\ free' = free \cup {work[Daemon].out[va]}
  /\ work' = [work EXCEPT ![Daemon] = NoWork]
  /\ tlb' = {}
  /\ chan' = Wakeup(Wakeup(chan, CoreMap), PageChan(va))
  /\ pc' = [pc EXCEPT ![Daemon] = "scan"]
  /\ UNCHANGED <<memory, op, frame, scan, forgotten, gone, ops>>

----------------------------------------------------------------------------
(* The host, the clock and the hardware.                                   *)

\* ND_Kern_page_in copies a page to the board.
HostPagesIn(t) ==
  /\ pc[t] = "pagein" /\ Unlocked /\ ~Torn(t) /\ op[t].page \in hosted
  /\ mem' = [mem EXCEPT ![frame[t]] = store[op[t].page]]
  /\ pc' = [pc EXCEPT ![t] = "enter"]
  /\ UNCHANGED <<pte, tlb, free, store, latest, stale, chan, op, frame, work, scan, forgotten, gone, ops>>

\* ND_Kern_page_out copies the pages of one call from the board.
HostPagesOut(x) ==
  LET out == work[x].out
  IN /\ pc[x] = "pageout" /\ Unlocked /\ ~Torn(x) /\ DOMAIN out \subseteq hosted
     /\ store' = [p \in Page |-> IF p \in DOMAIN out THEN mem[out[p]] ELSE store[p]]
     /\ pc' = [pc EXCEPT ![x] = "cleaned"]
     /\ UNCHANGED <<pte, tlb, free, mem, latest, stale, chan, op, frame, work, scan, forgotten, gone, ops>>

\* The host cannot wire the memory; the board panics.
Refused == /\ Unlocked
           /\ \/ \E t \in Proc : pc[t] = "pagein" /\ op[t].page \notin hosted
              \/ \E x \in Actor : pc[x] = "pageout" /\ ~(DOMAIN work[x].out \subseteq hosted)
           /\ Stops("panic")

\* The call is about memory that was given up and allocated again.
Collides == /\ Unlocked
            /\ \/ \E t \in Proc : pc[t] = "pagein" /\ Torn(t) /\ op[t].page \in hosted
               \/ \E x \in Actor : /\ pc[x] = "pageout" /\ Torn(x)
                                   /\ DOMAIN work[x].out \subseteq hosted
            /\ Stops("collision")

\* hardclock, four times a second.
Clock == /\ Cardinality(free) < MinFreePages
         /\ chan[Daemon] = DaemonName
         /\ chan' = Wakeup(chan, DaemonName)
         /\ UNCHANGED <<pte, tlb, free, memory, pc, op, frame, work, scan, forgotten, gone, ops>>

\* The TLB may replace an entry at any time.
TLBReplaces(p) == /\ p \in tlb
                  /\ tlb' = tlb \ {p}
                  /\ UNCHANGED <<pte, free, memory, pc, chan, op, frame, work, scan, forgotten, gone, ops>>

ProcStep(t) == \/ PageWaited(t) \/ FrameWaited(t) \/ FrameUnwanted(t)
               \/ PagedIn(t) \/ BatchCleaned(t)
HostStep == \/ (\E t \in Proc : HostPagesIn(t)) \/ (\E x \in Actor : HostPagesOut(x))
            \/ Refused \/ Collides
DaemonStep == DaemonWakes \/ DaemonScans \/ DaemonCleaned

Next == /\ fate = "running"
        /\ \/ \E t \in Proc :
                \/ \E p \in Page, write \in BOOLEAN : Access(t, p, write)
                \/ \E p \in Page : StaleWrite(t, p) \/ Allocate(t, p) \/ Deallocate(t, p)
                \/ \E first \in Page, end \in 1..NPages, release \in BOOLEAN :
                     first < end /\ Flush(t, first, end, release)
                \/ ProcStep(t)
           \/ HostStep \/ DaemonStep \/ Clock
           \/ \E p \in Page : TLBReplaces(p)

\* A process that stays runnable gets the processor when the daemon, which the
\* clock may wake again and again, rests or waits (Switch goes round the process
\* table); the host answers its calls, of which msg_rpc lets one through at a
\* time; the clock ticks.
Fairness == /\ \A t \in Proc : SF_vars(ProcStep(t))
            /\ WF_vars(HostStep) /\ WF_vars(DaemonStep) /\ WF_vars(Clock)

Spec == Init /\ [][Next]_vars /\ Fairness
----------------------------------------------------------------------------
(* Properties.                                                             *)

\* Where the next access finds a page.
Found(p) == IF pte[p].pfn # NoFrame THEN mem[pte[p].pfn]
            ELSE IF pte[p].backing THEN store[p] ELSE 0

\* Page-in, page-out, flush and release, in any order and around any sleep,
\* keep what the program wrote last, and a page that is not marked modified can be
\* dropped because the host has it; only a write through an outdated TLB entry
\* may be lost (pmap_clean, PageOutDaemon, vm_fault).
LatestKept == \A p \in Page \ stale :
  /\ Found(p) = latest[p]
  /\ pte[p].valid /\ ~pte[p].modify => (IF pte[p].backing THEN store[p] ELSE 0) = latest[p]

\* Whoever has frame f: the coremap, a page, a fault that is filling it.
Holders(f) == (IF f \in free THEN {CoreMap} ELSE {})
              \cup {PageChan(p) : p \in {q \in Page : pte[q].pfn = f}}
              \cup {<<"fault", t>> : t \in {u \in Proc : frame[u] = f}}

\* No frame is lost and none is used twice, although a page changes hands
\* while its process or the daemon sleeps in a call to the host.
FramesConserved == \A f \in Frame : Cardinality(Holders(f)) = 1

\* "Pages in transit are specially marked to avoid possible collisions"
\* (pmap_clean): a marked page has exactly one fault, sweep or daemon at work
\* on it, and nobody is at work on a page that is not marked, but for those whose
\* page was given up (vm_deallocate, vm_allocate).
OneTransfer == \A p \in Page :
  Cardinality({x \in Workers(p) : <<x, p>> \notin torn}) = (IF Busy(pte, p) THEN 1 ELSE 0)

\* Frames and marks agree with who is at work: no frame is lost or used twice and
\* no page is moved by two at once, over every sleep of a fault, a sweep or the daemon.
PagesSound == TypeOK /\ FramesConserved /\ OneTransfer

\* A process that sleeps for a page has somebody at work on that page, who will
\* wake it when he is done, though the page is given up and allocated again
\* meanwhile; or pmap_clean has forgotten it (vm_fault's Sleep).
SleeperIsOwed == \A t \in Proc, p \in Page :
  chan[t] = PageChan(p) => Workers(p) # {} \/ t \in forgotten

\* No page but the one the daemon's scan starts from, which a lap leaves out,
\* could be freed.
NothingToFree == \A p \in Page \ {startva} : pte[p].wired \/ ~pte[p].valid

\* The daemon goes round for ever: it started at VM_MIN_ADDRESS, where the test
\* for a lap never succeeds, and nothing can be freed.
Spinning == /\ pc[Daemon] = "scan" /\ startva = 0
            /\ \A p \in Page : pte[p].wired \/ ~pte[p].valid

\* A fault ends, however often its page and its frame are taken away by
\* others, unless pmap_clean forgot the process, there is nothing to free for good,
\* or memory was given up under a transfer.
FaultReturns == \A t \in Proc :
  \/ pc[t] # "run" ~> (pc[t] = "run" \/ t \in forgotten \/ fate # "running")
  \/ <>[]NothingToFree

\* What the code means to provide and does not: nobody is forgotten, no write
\* is lost, the daemon always comes to rest, and memory is not given up while one
\* of its pages is in transit.
NobodyForgotten == forgotten = {}
NoStaleWrite == stale = {}
NeverSpins == ~Spinning
NeverPanics == fate # "panic"
NoCollision == fate # "collision"
=============================================================================
