---------------------------- MODULE PagerProofs -----------------------------
(***************************************************************************)
(* The pager, for any processes, pages, frames and batches: no frame is    *)
(* lost or used twice, no page is moved by two at once, what the program   *)
(* wrote last is kept, and whoever sleeps for a page is owed a wakeup,     *)
(* whatever is deallocated while it is in transit, up to where the host    *)
(* refuses the transfer or memory allocated anew collides with it.         *)
(***************************************************************************)
EXTENDS Pager, FiniteSetTheorems, WellFoundedInduction, TLAPS

\* A page table pt, calls in progress wk, channels c and forgotten sleepers fg
\* are parameters where a step passes through a state of its own: pmap_clean
\* completes one batch and marks the next one without a pause.

Faults == {"alloc", "pagein", "enter"}
Transfers == {"pageout", "cleaned"}
Entry == [allocated: BOOLEAN, valid: BOOLEAN, wired: BOOLEAN, modify: BOOLEAN,
          ref: BOOLEAN, backing: BOOLEAN, pfn: Frame \cup {NoFrame}]
Channel == {Awake, CoreMap, DaemonName} \cup {PageChan(p) : p \in Page}
Call == [out: UNION {[D -> Frame] : D \in SUBSET Page}, next: Nat, end: 0..NPages,
         first: Nat, wake: Nat, release: BOOLEAN]

\* The mark of a page in transit, and what an entry without a page says.
Entries(pt) == \A p \in Page :
  /\ pt[p].wired => ~pt[p].valid
  /\ pt[p].valid => pt[p].pfn # NoFrame
  /\ ~pt[p].valid /\ ~pt[p].wired => pt[p].pfn = NoFrame
  /\ ~pt[p].allocated => ~pt[p].valid /\ ~pt[p].backing

\* A frame is free, a page's or a fault's, and only one of these.
Shares(pt) ==
  /\ \A p, q \in Page : pt[p].pfn # NoFrame /\ pt[p].pfn = pt[q].pfn => p = q
  /\ \A t, u \in Proc : frame[t] # NoFrame /\ frame[t] = frame[u] => t = u
  /\ \A p \in Page : pt[p].pfn \notin free
  /\ \A t \in Proc : frame[t] \notin free
  /\ \A t \in Proc, p \in Page : frame[t] # NoFrame => frame[t] # pt[p].pfn
  /\ \A f \in Frame : \/ f \in free
                      \/ \E p \in Page : pt[p].pfn = f
                      \/ \E t \in Proc : frame[t] = f

\* What the place of a process or of the daemon says of its variables.
Posts(wk) ==
  /\ pc[Daemon] \in {"asleep", "scan"} \cup Transfers
  /\ pc[Daemon] \in Transfers => DOMAIN wk[Daemon].out = {va}
  /\ \A x \in Actor : DOMAIN wk[x].out # {} => pc[x] \in Transfers
  /\ \A t \in Proc : pc[t] \in {"run", "busy"} \cup Faults \cup Transfers
  /\ \A t \in Proc : frame[t] # NoFrame <=> pc[t] \in {"pagein", "enter"}

\* Whose work on a page was torn from him stays where he is: the fault waits for
\* a frame or for the host, the call for the host.
Stuck(wk) == \A x \in Actor, p \in Page : <<x, p>> \in torn =>
  \/ x \in Proc /\ pc[x] \in {"alloc", "pagein"} /\ op[x].page = p
  \/ pc[x] = "pageout" /\ p \in DOMAIN wk[x].out
Intact(x) == \A p \in Page : <<x, p>> \notin torn

\* A fault at work on a page has marked it, and the page has no frame;
AtFault(t, p) == pc[t] \in Faults /\ op[t].page = p /\ <<t, p>> \notin torn
Faulted(pt) == \A t \in Proc, p \in Page : AtFault(t, p) =>
  /\ pt[p].wired /\ pt[p].pfn = NoFrame
  /\ pc[t] \in {"pagein", "enter"} => pt[p].backing
  /\ \A u \in Proc : AtFault(u, p) => t = u

\* a page that is being written to the host keeps its frame.
Carries(wk, x, p) == p \in DOMAIN wk[x].out /\ <<x, p>> \notin torn
Paging(pt, wk) == \A x \in Actor, p \in Page : Carries(wk, x, p) =>
  /\ pt[p].wired /\ wk[x].out[p] = pt[p].pfn /\ pt[p].pfn # NoFrame /\ pt[p].allocated
  /\ \A y \in Actor : Carries(wk, y, p) => x = y

\* Every mark has somebody who will take it off.
Marked(pt, wk) == \A p \in Page : pt[p].wired =>
  (\E t \in Proc : AtFault(t, p)) \/ (\E x \in Actor : Carries(wk, x, p))

\* What the program wrote last, wherever it is.
Saved(pt, p) == IF pt[p].backing THEN store[p] ELSE 0
Kept(pt, wk) ==
  /\ \A p \in Page \ stale :
       /\ pt[p].pfn # NoFrame => mem[pt[p].pfn] = latest[p]
       /\ pt[p].pfn = NoFrame \/ (pt[p].valid /\ ~pt[p].modify) => Saved(pt, p) = latest[p]
  /\ \A t \in Proc : pc[t] = "enter" => mem[frame[t]] = store[op[t].page]
  /\ \A x \in Actor, p \in Page \ stale :
       pc[x] = "cleaned" /\ Carries(wk, x, p) => store[p] = latest[p]

\* Whoever sleeps for a page has somebody at work on it, torn or not.
AtWork(wk, p) == \/ \E t \in Proc : pc[t] \in Faults /\ op[t].page = p
                 \/ \E x \in Actor : p \in DOMAIN wk[x].out
Owed(c, wk, fg) == \A t \in Proc, p \in Page :
  c[t] = PageChan(p) => AtWork(wk, p) \/ t \in fg

\* The variables a fault changes, and the others.
FaultTyped ==
  /\ pte \in [Page -> Entry] /\ tlb \subseteq Page /\ free \subseteq Frame
  /\ mem \in [Frame \cup {NoFrame} -> Nat] /\ latest \in [Page -> Nat]
  /\ pc \in [Actor -> {"run", "busy", "asleep", "scan"} \cup Faults \cup Transfers]
  /\ chan \in [Actor -> Channel]
  /\ frame \in [Proc -> Frame \cup {NoFrame}]
OthersTyped ==
  /\ store \in [Page -> Nat] /\ stale \subseteq Page
  /\ op \in [Proc -> [page: Page, write: BOOLEAN]]
  /\ work \in [Actor -> Call]
  /\ va \in Page /\ startva \in Page /\ needed \in 0..2*NFrames
  /\ forgotten \subseteq Proc /\ ops \in 0..MaxOps
Typed == FaultTyped /\ OthersTyped

Whole(pt, wk) == /\ Entries(pt) /\ Shares(pt) /\ Posts(wk) /\ Stuck(wk) /\ Faulted(pt)
                 /\ Paging(pt, wk) /\ Marked(pt, wk) /\ Kept(pt, wk)
IInv == Typed /\ Whole(pte, work) /\ Owed(chan, work, forgotten)
----------------------------------------------------------------------------
LEMMA NoOpTyped == NoOp \in [page: Page, write: BOOLEAN]
<1>1. 0 \in Page
  BY PagerAssumption DEF Page
<1> QED BY <1>1 DEF NoOp

LEMMA EntrySet ==
  ASSUME NEW pt \in [Page -> Entry], NEW p \in Page, NEW e \in Entry
  PROVE  /\ [pt EXCEPT ![p] = e] \in [Page -> Entry]
         /\ [pt EXCEPT ![p] = e][p] = e
         /\ \A q \in Page \ {p} : [pt EXCEPT ![p] = e][q] = pt[q]
OBVIOUS

WithMark(pt, p) == [pt EXCEPT ![p].wired = TRUE]

LEMMA WiredEntry ==
  ASSUME NEW pt \in [Page -> Entry], NEW p \in Page
  PROVE  /\ WithMark(pt, p) \in [Page -> Entry]
         /\ \A q \in Page \ {p} : WithMark(pt, p)[q] = pt[q]
         /\ WithMark(pt, p)[p].wired
         /\ \A q \in Page : /\ WithMark(pt, p)[q].pfn = pt[q].pfn
                            /\ WithMark(pt, p)[q].valid <=> pt[q].valid
                            /\ WithMark(pt, p)[q].modify <=> pt[q].modify
                            /\ WithMark(pt, p)[q].allocated <=> pt[q].allocated
                            /\ WithMark(pt, p)[q].backing <=> pt[q].backing
                            /\ pt[q].wired => WithMark(pt, p)[q].wired
<1> DEFINE e == [pt[p] EXCEPT !.wired = TRUE]
<1>1. /\ e \in Entry /\ e.wired /\ e.pfn = pt[p].pfn /\ e.valid = pt[p].valid
      /\ e.modify = pt[p].modify /\ e.allocated = pt[p].allocated /\ e.backing = pt[p].backing
  BY DEF Entry
<1>2. WithMark(pt, p) = [pt EXCEPT ![p] = e]
  BY DEF WithMark
<1> HIDE DEF e
<1>3. WithMark(pt, p) \in [Page -> Entry] /\ WithMark(pt, p)[p] = e /\ \A q \in Page \ {p} : WithMark(pt, p)[q] = pt[q]
  BY <1>1, <1>2, EntrySet
<1> QED
  BY <1>1, <1>3

LEMMA TouchEffect ==
  ASSUME NEW p \in Page, NEW write \in BOOLEAN, NEW pt \in [Page -> Entry], NEW tl \in SUBSET Page,
         NEW m \in [Frame \cup {NoFrame} -> Nat], latest \in [Page -> Nat], pt[p].pfn \in Frame,
         Touch(p, write, pt, tl, m)
  PROVE  /\ pte' \in [Page -> Entry] /\ tlb' \subseteq Page
         /\ latest' \in [Page -> Nat] /\ mem' \in [Frame \cup {NoFrame} -> Nat]
         /\ \A q \in Page \ {p} : pte'[q] = pt[q] /\ latest'[q] = latest[q]
         /\ pte'[p].pfn = pt[p].pfn
         /\ pte'[p].valid <=> pt[p].valid
         /\ pte'[p].wired <=> pt[p].wired
         /\ pte'[p].allocated <=> pt[p].allocated
         /\ pte'[p].backing <=> pt[p].backing
         /\ pte'[p].modify <=> write \/ pt[p].modify
         /\ \A g \in Frame \cup {NoFrame} : g # pt[p].pfn => mem'[g] = m[g]
         /\ ~write => latest' = latest /\ mem' = m
         /\ write => latest'[p] = latest[p] + 1 /\ mem'[pt[p].pfn] = latest[p] + 1
<1> DEFINE r == pt[p].ref \/ p \notin tl
           d == write \/ pt[p].modify
           e == [pt[p] EXCEPT !.ref = r, !.modify = d]
<1>1. r \in BOOLEAN /\ d \in BOOLEAN /\ pt[p] \in Entry
  OBVIOUS
<1>2. pte' = [pt EXCEPT ![p] = e]
  BY DEF Touch
<1> HIDE DEF r, d
<1>3. e \in Entry
  BY <1>1 DEF Entry
<1>4. /\ e.pfn = pt[p].pfn /\ e.valid = pt[p].valid /\ e.wired = pt[p].wired
      /\ e.allocated = pt[p].allocated /\ e.backing = pt[p].backing /\ e.modify = d
  BY <1>1 DEF Entry
<1> HIDE DEF e
<1>5. pte' \in [Page -> Entry] /\ pte'[p] = e /\ \A q \in Page \ {p} : pte'[q] = pt[q]
  BY <1>2, <1>3
<1>6. tlb' \subseteq Page
  BY DEF Touch
<1>7. latest' = IF write THEN [latest EXCEPT ![p] = latest[p] + 1] ELSE latest
  BY DEF Touch
<1>8. mem' = IF write THEN [m EXCEPT ![pt[p].pfn] = latest[p] + 1] ELSE m
  BY DEF Touch
<1>9. /\ latest' \in [Page -> Nat] /\ \A q \in Page \ {p} : latest'[q] = latest[q]
      /\ ~write => latest' = latest
      /\ write => latest'[p] = latest[p] + 1
  BY <1>7
<1>10. /\ mem' \in [Frame \cup {NoFrame} -> Nat]
       /\ \A g \in Frame \cup {NoFrame} : g # pt[p].pfn => mem'[g] = m[g]
       /\ ~write => mem' = m
       /\ write => mem'[pt[p].pfn] = latest[p] + 1
  BY <1>8
<1> QED
  BY <1>4, <1>5, <1>6, <1>9, <1>10 DEF d
----------------------------------------------------------------------------
\* The least and the greatest of a finite set of numbers.
LEMMA MinMaxIn ==
  ASSUME NEW S \in SUBSET Int, IsFiniteSet(S), S # {}
  PROVE  /\ Min(S) \in S /\ \A x \in S : Min(S) <= x
         /\ Max(S) \in S /\ \A x \in S : Max(S) >= x
<1> DEFINE Least(T) == \E x \in T : \A y \in T : x <= y
           Greatest(T) == \E x \in T : \A y \in T : x >= y
           Bad == {T \in SUBSET S : T # {} /\ ~(Least(T) /\ Greatest(T))}
<1>1. Bad = {}
  <2> SUFFICES ASSUME Bad # {} PROVE FALSE
    OBVIOUS
  <2>1. Bad \subseteq FiniteSubsetsOf(S)
    BY FS_FiniteSubsetsOfFinite
  <2>2. PICK T \in Bad : \A U \in Bad : ~(<<U, T>> \in StrictSubsetOrdering(S))
    BY <2>1, FS_StrictSubsetOrderingWellFounded, WFMin
  <2>3. \A U \in SUBSET T : U # T /\ U # {} => Least(U) /\ Greatest(U)
    BY <2>2 DEF StrictSubsetOrdering
  <2>4. PICK z \in T : TRUE
    OBVIOUS
  <2>5. T \ {z} # {}
    BY <2>4
  <2>6. PICK x \in T \ {z} : \A y \in T \ {z} : x <= y
    BY <2>3, <2>4, <2>5
  <2>7. PICK w \in T \ {z} : \A y \in T \ {z} : w >= y
    <3>1. T \ {z} \in SUBSET T /\ T \ {z} # T
      BY <2>4
    <3>2. Greatest(T \ {z})
      <4> HIDE DEF Least, Greatest, Bad
      <4> QED BY <2>3, <2>5, <3>1
    <3> QED BY <3>2
  <2>8. Least(T)
    <3>1. x \in Int /\ z \in Int /\ \A y \in T : y \in Int
      OBVIOUS
    <3>2. CASE x <= z BY <2>6, <3>1, <3>2
    <3>3. CASE z <= x
      <4>1. \A y \in T : z <= y BY <2>6, <3>1, <3>3
      <4> QED BY <4>1
    <3> QED BY <3>1, <3>2, <3>3
  <2>9. Greatest(T)
    <3>1. w \in Int /\ z \in Int /\ \A y \in T : y \in Int
      OBVIOUS
    <3>2. CASE w >= z BY <2>7, <3>1, <3>2
    <3>3. CASE z >= w
      <4>1. \A y \in T : z >= y BY <2>7, <3>1, <3>3
      <4> QED BY <4>1
    <3> QED BY <3>1, <3>2, <3>3
  <2> QED BY <2>8, <2>9
<1>2. Least(S) /\ Greatest(S)
  BY <1>1
<1> QED
  BY <1>2 DEF Min, Max

\* A batch is made of the lowest pages there are.
LEMMA LowestOfSubset ==
  ASSUME NEW D \in SUBSET Nat, IsFiniteSet(D), D # {}
  PROVE  /\ LowestOf(D) \subseteq D
         /\ Cardinality(LowestOf(D)) = Batch => LowestOf(D) # {}
<1> DEFINE Initial(T) == \A a \in T, b \in D \ T : a < b
           Bad == {U \in SUBSET D : /\ Initial(U) /\ Cardinality(U) >= Batch
                                    /\ ~\E T \in SUBSET D : Initial(T) /\ Cardinality(T) = Batch}
<1>0. Batch \in Nat \ {0}
  BY PagerAssumption
<1>1. Bad = {}
  <2> SUFFICES ASSUME Bad # {} PROVE FALSE
    OBVIOUS
  <2>1. Bad \subseteq FiniteSubsetsOf(D)
    BY FS_FiniteSubsetsOfFinite
  <2>2. PICK U \in Bad : \A V \in Bad : ~(<<V, U>> \in StrictSubsetOrdering(D))
    <3> HIDE DEF Bad
    <3> QED BY <2>1, FS_StrictSubsetOrderingWellFounded, WFMin
  <2>3. /\ U \subseteq D /\ Initial(U) /\ Cardinality(U) >= Batch /\ Cardinality(U) # Batch
        /\ IsFiniteSet(U) /\ Cardinality(U) \in Nat /\ U # {}
    <3>1. U \subseteq D /\ Initial(U) /\ Cardinality(U) >= Batch /\ Cardinality(U) # Batch
      OBVIOUS
    <3>2. IsFiniteSet(U)
      BY <3>1, FS_Subset
    <3>3. Cardinality(U) \in Nat
      BY <3>2, FS_CardinalityType
    <3>4. U # {}
      BY <1>0, <3>1, <3>2, <3>3, FS_EmptySet
    <3> QED BY <3>1, <3>2, <3>3, <3>4
  <2> DEFINE V == U \ {Max(U)}
  <2>4. Max(U) \in U /\ \A x \in U : Max(U) >= x
    BY <2>3, MinMaxIn
  <2>5. V \subseteq D /\ V # U /\ V \subseteq U /\ Cardinality(V) >= Batch
    <3>1. Cardinality(V) = Cardinality(U) - 1
      BY <2>3, <2>4, FS_RemoveElement, SMTT(30)
    <3>2. V \subseteq D /\ V # U /\ V \subseteq U
      BY <2>3, <2>4
    <3> HIDE DEF V
    <3>3. Cardinality(V) >= Batch
      BY <2>3, <3>1, <1>0
    <3> QED BY <3>2, <3>3
  <2>6. Initial(V)
    <3> SUFFICES ASSUME NEW a \in V, NEW b \in D \ V PROVE a < b
      OBVIOUS
    <3>1. a \in Nat /\ Max(U) \in Nat
      BY <2>3, <2>4
    <3>2. a < Max(U)
      BY <2>4, <3>1
    <3>3. b = Max(U) \/ b \in D \ U
      OBVIOUS
    <3> QED BY <2>3, <3>2, <3>3
  <2>7. V \in Bad
    BY <2>5, <2>6
  <2>8. <<V, U>> \in StrictSubsetOrdering(D)
    BY <2>5, <2>3 DEF StrictSubsetOrdering
  <2> QED BY <2>2, <2>7, <2>8
<1>2. CASE Cardinality(D) <= Batch
  BY <1>0, <1>2 DEF LowestOf
<1>3. CASE ~(Cardinality(D) <= Batch)
  <2>1. Cardinality(D) \in Nat /\ Cardinality(D) >= Batch
    BY <1>0, <1>3, FS_CardinalityType
  <2>2. \E T \in SUBSET D : Initial(T) /\ Cardinality(T) = Batch
    <3>1. Initial(D)
      OBVIOUS
    <3>2. D \notin Bad
      BY <1>1
    <3> QED BY <2>1, <3>1, <3>2
  <2>3. LowestOf(D) = CHOOSE T \in SUBSET D : Cardinality(T) = Batch /\ \A a \in T, b \in D \ T : a < b
    BY <1>3 DEF LowestOf
  <2>4. LowestOf(D) \in SUBSET D /\ Cardinality(LowestOf(D)) = Batch
    BY <2>2, <2>3
  <2> QED BY <2>4, <1>0, FS_EmptySet
<1> QED
  BY <1>2, <1>3

LEMMA WakeupTyped ==
  ASSUME NEW c \in [Actor -> Channel], NEW ch
  PROVE  Wakeup(c, ch) \in [Actor -> Channel]
BY DEF Wakeup, Channel

\* The channels differ from each other, and those of the pages from page to page.
LEMMA Channels ==
  /\ Awake # CoreMap /\ Awake # DaemonName /\ CoreMap # DaemonName
  /\ \A p \in Page : PageChan(p) \notin {Awake, CoreMap, DaemonName}
  /\ \A p, q \in Page : PageChan(p) = PageChan(q) => p = q
BY DEF Awake, CoreMap, DaemonName, PageChan
\* A step of x, whose own work is not torn, tears nobody else's off.
LEMMA StuckStep ==
  ASSUME NEW wk, Stuck(wk), NEW x \in Actor, Intact(x), torn' = torn,
         \A y \in Actor \ {x} : pc'[y] = pc[y] /\ DOMAIN work'[y].out = DOMAIN wk[y].out,
         \A t \in Proc \ {x} : op'[t] = op[t]
  PROVE  Stuck(work)'
BY DEF Stuck, Intact

\* Who is not in a fault or a call for the host has no work to lose.
LEMMA IntactThere ==
  ASSUME NEW wk, Stuck(wk), NEW x \in Actor, pc[x] \notin {"alloc", "pagein", "pageout"}
  PROVE  Intact(x)
BY DEF Stuck, Intact

\* A page where work goes on still has somebody at work on it after a step of x
\* that ends none of x's work on that page.
LEMMA AtWorkStep ==
  ASSUME NEW wk, NEW x \in Actor, NEW p \in Page, AtWork(wk, p),
         \A y \in Actor \ {x} : pc'[y] = pc[y] /\ DOMAIN work'[y].out = DOMAIN wk[y].out,
         \A t \in Proc \ {x} : op'[t] = op[t],
         \/ ~(x \in Proc /\ pc[x] \in Faults /\ op[x].page = p)
         \/ pc'[x] \in Faults /\ op'[x].page = p,
         p \in DOMAIN wk[x].out => p \in DOMAIN work'[x].out
  PROVE  AtWork(work, p)'
<1>1. \A t \in Proc : t \in Actor
  BY DEF Actor
<1> QED
  BY <1>1 DEF AtWork

\* A page that is marked has somebody at work on it.
LEMMA MarkedAtWork ==
  ASSUME NEW pt, NEW wk, Marked(pt, wk), NEW p \in Page, pt[p].wired
  PROVE  AtWork(wk, p)
BY DEF Marked, AtWork, AtFault, Carries
----------------------------------------------------------------------------
(* Faults.                                                                 *)

\* A page nobody but t's fault is at work on, and which has no frame.
Vacant(t, p) ==
  /\ pte[p].pfn = NoFrame /\ ~pte[p].valid /\ Intact(t)
  /\ pc[t] \in {"run", "busy"} \cup Faults
  /\ pc[t] \in Faults => op[t].page = p
  /\ \A u \in Proc \ {t} : ~AtFault(u, p)

LEMMA VacantUnpaged ==
  ASSUME Whole(pte, work), NEW t \in Proc, NEW p \in Page, Vacant(t, p)
  PROVE  /\ \A x \in Actor : ~Carries(work, x, p)
         /\ DOMAIN work[t].out = {} /\ t # Daemon /\ t \in Actor
BY PagerAssumption DEF Whole, Paging, Posts, Vacant, Actor, Faults, Transfers

\* In memory m, frame f is t's for page p.
Filled(t, p, f, m) ==
  /\ m \in [Frame \cup {NoFrame} -> Nat]
  /\ \A g \in Frame \ {f} : m[g] = mem[g]
  /\ m[f] = Saved(pte, p)
  /\ \/ f \in free /\ frame[t] = NoFrame /\ free' = free \ {f}
     \/ frame[t] = f /\ free' = free

\* pmap_enter and the access: frame f, which holds what the host has saved of
\* the page or is cleared, becomes the page's.
LEMMA EnterStep ==
  ASSUME Typed, Whole(pte, work), NEW t \in Proc, NEW p \in Page, NEW write \in BOOLEAN, NEW f \in Frame,
         NEW m, Filled(t, p, f, m), EnterPage(t, p, write, f, m), Vacant(t, p),
         \A u \in Proc \ {t} : op'[u] = op[u],
         UNCHANGED <<store, stale, work, va, torn>>,
         Owed(chan, work, forgotten), chan[t] = Awake, forgotten \ {t} \subseteq forgotten'
  PROVE  FaultTyped' /\ Whole(pte, work)' /\ Owed(chan, work, forgotten)'
<1> DEFINE e == [pte[p] EXCEPT !.valid = TRUE, !.allocated = TRUE, !.wired = FALSE, !.pfn = f]
           pt == [pte EXCEPT ![p] = e]
<1>0. /\ m \in [Frame \cup {NoFrame} -> Nat]
      /\ \A g \in Frame \ {f} : m[g] = mem[g]
      /\ m[f] = Saved(pte, p)
      /\ \/ f \in free /\ frame[t] = NoFrame /\ free' = free \ {f}
         \/ frame[t] = f /\ free' = free
  BY DEF Filled
<1> USE <1>0
<1>1. pte[p] \in Entry /\ \A q \in Page : pte[q] \in Entry
  BY DEF Typed, FaultTyped, OthersTyped
<1>2. /\ e \in Entry /\ e.pfn = f /\ e.valid /\ e.allocated /\ ~e.wired
      /\ e.backing = pte[p].backing /\ e.modify = pte[p].modify
  BY <1>1 DEF Entry
<1>3. Touch(p, write, pt, {}, m)
  BY DEF EnterPage
<1> HIDE DEF e
<1>4. pt \in [Page -> Entry] /\ pt[p] = e /\ \A q \in Page \ {p} : pt[q] = pte[q]
  BY <1>2 DEF Typed, FaultTyped, OthersTyped
<1> HIDE DEF pt
<1>5. latest \in [Page -> Nat] /\ pt[p].pfn \in Frame
  BY <1>2, <1>4 DEF Typed, FaultTyped, OthersTyped
<1>6. /\ pte' \in [Page -> Entry] /\ tlb' \subseteq Page
      /\ latest' \in [Page -> Nat] /\ mem' \in [Frame \cup {NoFrame} -> Nat]
      /\ \A q \in Page \ {p} : pte'[q] = pt[q] /\ latest'[q] = latest[q]
      /\ pte'[p].pfn = pt[p].pfn
      /\ pte'[p].valid <=> pt[p].valid
      /\ pte'[p].wired <=> pt[p].wired
      /\ pte'[p].allocated <=> pt[p].allocated
      /\ pte'[p].backing <=> pt[p].backing
      /\ pte'[p].modify <=> write \/ pt[p].modify
      /\ \A g \in Frame \cup {NoFrame} : g # pt[p].pfn => mem'[g] = m[g]
      /\ ~write => latest' = latest /\ mem' = m
      /\ write => latest'[p] = latest[p] + 1 /\ mem'[pt[p].pfn] = latest[p] + 1
  BY <1>3, <1>4, <1>5, TouchEffect
<1>7. /\ \A q \in Page \ {p} : pte'[q] = pte[q] /\ latest'[q] = latest[q]
      /\ pte'[p].pfn = f /\ pte'[p].valid /\ ~pte'[p].wired /\ pte'[p].allocated
      /\ pte'[p].backing <=> pte[p].backing
      /\ \A g \in Frame \ {f} : mem'[g] = mem[g]
      /\ ~write => latest'[p] = latest[p] /\ mem'[f] = Saved(pte, p)
      /\ write => pte'[p].modify /\ mem'[f] = latest'[p]
  BY <1>2, <1>4, <1>6
<1>8. /\ pc \in [Actor -> {"run", "busy", "asleep", "scan"} \cup Faults \cup Transfers]
      /\ frame \in [Proc -> Frame \cup {NoFrame}]
      /\ pc' = [pc EXCEPT ![t] = "run"] /\ frame' = [frame EXCEPT ![t] = NoFrame]
      /\ t \in Actor /\ t # Daemon /\ DOMAIN work[t].out = {}
  BY VacantUnpaged DEF Typed, FaultTyped, OthersTyped, EnterPage
<1>9. /\ pc'[t] = "run" /\ frame'[t] = NoFrame
      /\ \A x \in Actor \ {t} : pc'[x] = pc[x]
      /\ \A u \in Proc \ {t} : frame'[u] = frame[u] /\ u \in Actor
  BY <1>8 DEF Actor
<1>10. NoFrame \notin Frame /\ f # NoFrame
  BY DEF Frame, NoFrame
<1>11. Entries(pte)'
  BY <1>7, <1>10 DEF Whole, Entries
<1>12. Shares(pte)'
  <2>1. \A q \in Page : pte[q].pfn # f
    BY <1>1, <1>10 DEF Whole, Shares
  <2>2. \A u \in Proc \ {t} : frame[u] # f
    BY <1>10 DEF Whole, Shares
  <2>3. \A q \in Page, r \in Page : pte'[q].pfn # NoFrame /\ pte'[q].pfn = pte'[r].pfn => q = r
    BY <1>7, <2>1 DEF Whole, Shares
  <2>4. \A q \in Page : pte'[q].pfn \notin free'
    BY <1>7, <2>1, <1>10 DEF Whole, Shares
  <2>5. \A u \in Proc : frame'[u] \notin free'
    BY <1>9, <1>10, <2>2 DEF Whole, Shares, Typed, FaultTyped, OthersTyped
  <2>6. \A u \in Proc, q \in Page : frame'[u] # NoFrame => frame'[u] # pte'[q].pfn
    BY <1>7, <1>9, <2>2 DEF Whole, Shares
  <2>7. \A u, v \in Proc : frame'[u] # NoFrame /\ frame'[u] = frame'[v] => u = v
    BY <1>9 DEF Whole, Shares
  <2>8. ASSUME NEW g \in Frame
        PROVE  g \in free' \/ (\E q \in Page : pte'[q].pfn = g) \/ (\E u \in Proc : frame'[u] = g)
    <3>1. CASE g = f BY <3>1, <1>7
    <3>2. CASE g # f
      <4>1. CASE g \in free BY <4>1, <3>2
      <4>2. CASE \E q \in Page : pte[q].pfn = g
        <5>1. PICK q \in Page : pte[q].pfn = g BY <4>2
        <5>2. q # p BY <5>1, <1>10 DEF Vacant
        <5> QED BY <5>1, <5>2, <1>7
      <4>3. CASE \E u \in Proc : frame[u] = g
        <5>1. PICK u \in Proc : frame[u] = g BY <4>3
        <5>2. u # t BY <5>1, <3>2, <1>10
        <5> QED BY <5>1, <5>2, <1>9
      <4> QED BY <4>1, <4>2, <4>3 DEF Whole, Shares
    <3> QED BY <3>1, <3>2
  <2> QED BY <2>3, <2>4, <2>5, <2>6, <2>7, <2>8 DEF Shares
<1>13. Posts(work)'
  BY <1>8, <1>9 DEF Whole, Posts, Faults, Transfers, Actor
<1>14. Faulted(pte)'
  <2>1. ASSUME NEW u \in Proc, NEW q \in Page, AtFault(u, q)' PROVE AtFault(u, q) /\ u # t /\ q # p
    <3>1. u # t /\ AtFault(u, q)
      BY <1>9, <2>1 DEF AtFault, Faults
    <3> QED BY <3>1 DEF Vacant
  <2> QED BY <1>7, <1>9, <2>1 DEF Whole, Faulted
<1>15. Paging(pte, work)'
  <2>1. \A x \in Actor : ~Carries(work, x, p)
    BY VacantUnpaged
  <2> QED BY <1>7, <2>1 DEF Whole, Paging, Carries
<1>16. Marked(pte, work)'
  <2> SUFFICES ASSUME NEW q \in Page, pte'[q].wired
               PROVE  (\E u \in Proc : AtFault(u, q)') \/ (\E x \in Actor : Carries(work, x, q)')
    BY DEF Marked
  <2>1. q # p /\ pte[q].wired
    BY <1>7
  <2>2. \A u \in Proc : AtFault(u, q) => AtFault(u, q)'
    BY <1>9, <2>1 DEF Vacant, AtFault
  <2>3. \A x \in Actor : Carries(work, x, q)' <=> Carries(work, x, q)
    BY DEF Carries
  <2> QED BY <2>1, <2>2, <2>3 DEF Whole, Marked
<1>17. Kept(pte, work)'
  <2>1. p \notin stale => latest[p] = Saved(pte, p)
    BY DEF Whole, Kept, Vacant
  <2>2. Saved(pte, p)' = Saved(pte, p)
    BY <1>7 DEF Saved
  <2>3. ASSUME NEW q \in Page \ stale
        PROVE  /\ pte'[q].pfn # NoFrame => mem'[pte'[q].pfn] = latest'[q]
               /\ pte'[q].pfn = NoFrame \/ (pte'[q].valid /\ ~pte'[q].modify) => Saved(pte, q)' = latest'[q]
    <3>1. CASE q = p
      BY <3>1, <1>7, <1>10, <2>1, <2>2
    <3>2. CASE q # p
      <4>1. pte[q].pfn # f /\ pte[q].pfn \in Frame \cup {NoFrame}
        BY <1>1, <1>10 DEF Whole, Shares, Entry
      <4>2. Saved(pte, q)' = Saved(pte, q)
        BY <1>7, <3>2 DEF Saved
      <4> QED BY <1>7, <3>2, <4>1, <4>2 DEF Whole, Kept
    <3> QED BY <3>1, <3>2
  <2>4. ASSUME NEW u \in Proc, pc'[u] = "enter" PROVE mem'[frame'[u]] = store'[op'[u].page]
    <3>1. u # t /\ pc[u] = "enter" /\ frame'[u] = frame[u] /\ u \in Actor
      BY <1>9, <2>4 DEF Actor
    <3>2. frame[u] \in Frame \ {f}
      BY <3>1, <1>10 DEF Whole, Posts, Shares, Typed, FaultTyped, OthersTyped
    <3> QED BY <1>7, <3>1, <3>2 DEF Whole, Kept
  <2>5. ASSUME NEW x \in Actor, NEW q \in Page \ stale', pc'[x] = "cleaned", Carries(work, x, q)'
        PROVE  store'[q] = latest'[q]
    <3>1. Carries(work, x, q) /\ x # t
      BY <1>9, <2>5 DEF Carries
    <3>2. q # p
      BY <3>1, VacantUnpaged
    <3> QED BY <1>7, <1>9, <2>5, <3>1, <3>2 DEF Whole, Kept
  <2> QED BY <2>3, <2>4, <2>5 DEF Kept
<1>18. FaultTyped'
  <2>1. chan' \in [Actor -> Channel]
    BY WakeupTyped DEF EnterPage, Typed, FaultTyped
  <2>2. frame' \in [Proc -> Frame \cup {NoFrame}] /\ free' \subseteq Frame
    BY <1>8 DEF Typed, FaultTyped
  <2>3. pc' \in [Actor -> {"run", "busy", "asleep", "scan"} \cup Faults \cup Transfers]
    BY <1>8
  <2> QED BY <1>6, <2>1, <2>2, <2>3 DEF FaultTyped
<1>19. Owed(chan, work, forgotten)'
  <2> SUFFICES ASSUME NEW u \in Proc, NEW q \in Page, chan'[u] = PageChan(q)
               PROVE  AtWork(work, q)' \/ u \in forgotten'
    BY DEF Owed
  <2>1. chan'[u] = IF chan[u] = PageChan(p) THEN Awake ELSE chan[u]
    BY DEF EnterPage, Wakeup, Actor
  <2>2. chan[u] = PageChan(q) /\ q # p /\ u # t
    BY <2>1, Channels
  <2>3. AtWork(work, q) => AtWork(work, q)'
    BY <1>8, <1>9, <2>2, AtWorkStep DEF Vacant
  <2> QED BY <2>2, <2>3 DEF Owed
<1>20. Stuck(work)'
  BY <1>8, <1>9, StuckStep DEF Vacant, Whole
<1> QED
  BY <1>18, <1>19, <1>20, <1>11, <1>12, <1>13, <1>14, <1>15, <1>16, <1>17 DEF Whole

\* An access to a page that is there.
LEMMA TouchStep ==
  ASSUME Typed, Whole(pte, work), NEW t \in Proc, NEW p \in Page, NEW write \in BOOLEAN,
         Touch(p, write, pte, tlb, mem), pte[p].valid,
         pc[t] \in {"run", "busy"}, pc' = [pc EXCEPT ![t] = "run"],
         \A u \in Proc \ {t} : op'[u] = op[u],
         UNCHANGED <<free, chan, frame, store, stale, work, va, torn>>,
         Owed(chan, work, forgotten), chan[t] = Awake, forgotten \ {t} \subseteq forgotten'
  PROVE  FaultTyped' /\ Whole(pte, work)' /\ Owed(chan, work, forgotten)'
<1>1. /\ \A q \in Page : pte[q] \in Entry
      /\ pte \in [Page -> Entry] /\ tlb \in SUBSET Page /\ latest \in [Page -> Nat]
      /\ mem \in [Frame \cup {NoFrame} -> Nat]
  BY DEF Typed, FaultTyped
<1>2. pte[p].pfn \in Frame /\ ~pte[p].wired
  BY <1>1 DEF Whole, Entries, Entry
<1>3. /\ pte' \in [Page -> Entry] /\ tlb' \subseteq Page
      /\ latest' \in [Page -> Nat] /\ mem' \in [Frame \cup {NoFrame} -> Nat]
      /\ \A q \in Page \ {p} : pte'[q] = pte[q] /\ latest'[q] = latest[q]
      /\ pte'[p].pfn = pte[p].pfn
      /\ pte'[p].valid <=> pte[p].valid
      /\ pte'[p].wired <=> pte[p].wired
      /\ pte'[p].allocated <=> pte[p].allocated
      /\ pte'[p].backing <=> pte[p].backing
      /\ pte'[p].modify <=> write \/ pte[p].modify
      /\ \A g \in Frame \cup {NoFrame} : g # pte[p].pfn => mem'[g] = mem[g]
      /\ ~write => latest' = latest /\ mem' = mem
      /\ write => latest'[p] = latest[p] + 1 /\ mem'[pte[p].pfn] = latest[p] + 1
  BY <1>1, <1>2, TouchEffect
<1>4. \A q \in Page : /\ pte'[q].pfn = pte[q].pfn
                      /\ pte'[q].valid <=> pte[q].valid
                      /\ pte'[q].wired <=> pte[q].wired
                      /\ pte'[q].allocated <=> pte[q].allocated
                      /\ pte'[q].backing <=> pte[q].backing
  BY <1>3
<1>5. /\ pc'[t] = "run" /\ t \in Actor /\ t # Daemon /\ NoFrame \notin Frame
      /\ \A x \in Actor \ {t} : pc'[x] = pc[x]
      /\ DOMAIN work[t].out = {} /\ pc[t] \notin Faults /\ pc[t] \notin Transfers
  BY PagerAssumption DEF Typed, FaultTyped, Actor, Whole, Posts, Faults, Transfers, Frame, NoFrame
<1>6. \A u \in Proc : op[u].page \in Page
  BY DEF Typed, OthersTyped
<1>7. Entries(pte)' /\ Shares(pte)'
  BY <1>4 DEF Whole, Entries, Shares
<1>8. Posts(work)'
  BY <1>5 DEF Whole, Posts, Actor, Faults, Transfers
<1>9. Faulted(pte)'
  <2>1. ASSUME NEW u \in Proc, NEW q \in Page, AtFault(u, q)' PROVE AtFault(u, q) /\ pc'[u] = pc[u]
    BY <1>5, <2>1 DEF AtFault, Faults, Actor
  <2> QED BY <1>4, <2>1 DEF Whole, Faulted
<1>10. Paging(pte, work)'
  BY <1>4 DEF Whole, Paging, Carries
<1>11. Marked(pte, work)'
  <2>1. \A u \in Proc, q \in Page : AtFault(u, q) => AtFault(u, q)'
    BY <1>5 DEF AtFault, Actor
  <2> QED BY <1>4, <2>1 DEF Whole, Marked, Carries
<1>12. Kept(pte, work)'
  <2>1. \A q \in Page : Saved(pte, q)' = Saved(pte, q)
    BY <1>4 DEF Saved
  <2>2. ASSUME NEW q \in Page \ stale
        PROVE  /\ pte'[q].pfn # NoFrame => mem'[pte'[q].pfn] = latest'[q]
               /\ pte'[q].pfn = NoFrame \/ (pte'[q].valid /\ ~pte'[q].modify) => Saved(pte, q)' = latest'[q]
    <3>1. CASE q = p
      BY <1>2, <1>3, <1>5, <2>1, <3>1 DEF Whole, Kept
    <3>2. CASE q # p
      <4>1. pte[q].pfn # pte[p].pfn /\ pte[q].pfn \in Frame \cup {NoFrame}
        BY <1>1, <1>2, <1>5, <3>2 DEF Whole, Shares, Entry
      <4> QED BY <1>3, <2>1, <3>2, <4>1 DEF Whole, Kept
    <3> QED BY <3>1, <3>2
  <2>3. ASSUME NEW u \in Proc, pc'[u] = "enter" PROVE mem'[frame'[u]] = store'[op'[u].page]
    <3>1. u # t /\ pc[u] = "enter" /\ u \in Actor
      BY <1>5, <2>3 DEF Actor
    <3>2. frame[u] \in Frame /\ frame[u] # pte[p].pfn
      BY <3>1, <1>5 DEF Whole, Posts, Shares, Typed, FaultTyped
    <3> QED BY <1>3, <3>1, <3>2 DEF Whole, Kept
  <2>4. ASSUME NEW x \in Actor, NEW q \in Page \ stale', pc'[x] = "cleaned", Carries(work, x, q)'
        PROVE  store'[q] = latest'[q]
    <3>1. Carries(work, x, q) /\ x # t
      BY <1>5, <2>4 DEF Carries
    <3>2. q # p
      BY <1>2, <2>4, <3>1 DEF Whole, Paging
    <3> QED BY <1>3, <1>5, <2>4, <3>1, <3>2 DEF Whole, Kept
  <2> QED BY <2>2, <2>3, <2>4 DEF Kept
<1>13. FaultTyped'
  <2>1. pc' \in [Actor -> {"run", "busy", "asleep", "scan"} \cup Faults \cup Transfers]
    BY DEF Typed, FaultTyped
  <2> QED BY <1>3, <2>1 DEF Typed, FaultTyped
<1>14. Owed(chan, work, forgotten)'
  <2>1. \A q \in Page : chan[t] # PageChan(q)
    BY Channels
  <2>2. \A q \in Page : AtWork(work, q) => AtWork(work, q)'
    BY <1>5, AtWorkStep
  <2> QED BY <2>1, <2>2 DEF Owed
<1>15. Stuck(work)'
  <2>1. Intact(t)
    BY <1>5, IntactThere DEF Whole
  <2> QED BY <1>5, <2>1, StuckStep DEF Whole
<1> QED
  BY <1>14, <1>15, <1>7, <1>8, <1>9, <1>10, <1>11, <1>12, <1>13 DEF Whole

\* The fault takes a free frame for a page that comes from the host, or finds
\* none and waits: either way the page is marked.
LEMMA MarkStep ==
  ASSUME Typed, Whole(pte, work), NEW t \in Proc, NEW p \in Page, Vacant(t, p),
         frame[t] = NoFrame, pte' = WithMark(pte, p),
         op'[t].page = p, \A u \in Proc \ {t} : op'[u] = op[u],
         UNCHANGED <<store, latest, stale, work, va, torn>>,
         \/ /\ pc' = [pc EXCEPT ![t] = "alloc"] /\ UNCHANGED <<free, frame, mem>>
         \/ \E f \in free : /\ free' = free \ {f} /\ frame' = [frame EXCEPT ![t] = f]
                            /\ mem' = [mem EXCEPT ![f] = 0] /\ pc' = [pc EXCEPT ![t] = "pagein"]
                            /\ pte[p].backing,
         Owed(chan, work, forgotten), forgotten \ {t} \subseteq forgotten', chan[t] = Awake,
         \A u \in Proc, q \in Page : chan'[u] = PageChan(q) => chan[u] = PageChan(q)
  PROVE  /\ pte' \in [Page -> Entry] /\ free' \subseteq Frame
         /\ mem' \in [Frame \cup {NoFrame} -> Nat]
         /\ pc' \in [Actor -> {"run", "busy", "asleep", "scan"} \cup Faults \cup Transfers]
         /\ frame' \in [Proc -> Frame \cup {NoFrame}]
         /\ Whole(pte, work)' /\ Owed(chan, work, forgotten)'
<1>1. pte \in [Page -> Entry] /\ \A q \in Page : pte[q] \in Entry
  BY DEF Typed, FaultTyped
<1>2. /\ pte' \in [Page -> Entry]
      /\ \A q \in Page \ {p} : pte'[q] = pte[q]
      /\ pte'[p].wired
      /\ \A q \in Page : /\ pte'[q].pfn = pte[q].pfn
                         /\ pte'[q].valid <=> pte[q].valid
                         /\ pte'[q].modify <=> pte[q].modify
                         /\ pte'[q].allocated <=> pte[q].allocated
                         /\ pte'[q].backing <=> pte[q].backing
                         /\ pte[q].wired => pte'[q].wired
  BY <1>1, WiredEntry
<1>3. free' \subseteq Frame /\ mem' \in [Frame \cup {NoFrame} -> Nat]
  BY DEF Typed, FaultTyped
<1>4. /\ frame' \in [Proc -> Frame \cup {NoFrame}]
      /\ pc' \in [Actor -> {"run", "busy", "asleep", "scan"} \cup Faults \cup Transfers]
  BY DEF Typed, FaultTyped, Faults
<1>5. /\ t \in Actor /\ t # Daemon /\ NoFrame \notin Frame /\ DOMAIN work[t].out = {}
      /\ \A x \in Actor : ~Carries(work, x, p)
  BY VacantUnpaged DEF Frame, NoFrame
<1>6. /\ \A x \in Actor \ {t} : pc'[x] = pc[x]
      /\ \A u \in Proc \ {t} : frame'[u] = frame[u]
      /\ pc'[t] \in {"alloc", "pagein"} /\ (pc'[t] = "pagein" => pte[p].backing)
      /\ frame'[t] # NoFrame <=> pc'[t] = "pagein"
  BY <1>5 DEF Typed, FaultTyped
<1>7. \A g \in Frame \cup {NoFrame} : g \notin free => mem'[g] = mem[g]
  BY DEF Typed, FaultTyped
<1>8. Entries(pte)'
  BY <1>2 DEF Whole, Entries, Vacant
<1>9. Shares(pte)'
  <2>1. CASE UNCHANGED <<free, frame, mem>>
    BY <1>2, <2>1 DEF Whole, Shares
  <2>2. ASSUME NEW f \in free, free' = free \ {f}, frame' = [frame EXCEPT ![t] = f] PROVE Shares(pte)'
    <3>1. f # NoFrame /\ frame'[t] = f
      BY <2>2, <1>5 DEF Typed, FaultTyped
    <3>2. \A q, r \in Page : pte'[q].pfn # NoFrame /\ pte'[q].pfn = pte'[r].pfn => q = r
      BY <1>2 DEF Whole, Shares
    <3>3. \A u, v \in Proc : frame'[u] # NoFrame /\ frame'[u] = frame'[v] => u = v
      BY <1>6, <2>2, <3>1 DEF Whole, Shares
    <3>4. /\ \A q \in Page : pte'[q].pfn \notin free'
          /\ \A u \in Proc : frame'[u] \notin free'
          /\ \A u \in Proc, q \in Page : frame'[u] # NoFrame => frame'[u] # pte'[q].pfn
      BY <1>2, <1>6, <2>2, <3>1 DEF Whole, Shares
    <3>5. ASSUME NEW g \in Frame
          PROVE  g \in free' \/ (\E q \in Page : pte'[q].pfn = g) \/ (\E u \in Proc : frame'[u] = g)
      <4>1. CASE g \in free BY <4>1, <2>2, <3>1
      <4>2. CASE \E q \in Page : pte[q].pfn = g BY <4>2, <1>2
      <4>3. CASE \E u \in Proc : frame[u] = g
        <5>1. PICK u \in Proc : frame[u] = g BY <4>3
        <5>2. u # t BY <5>1, <1>5
        <5> QED BY <5>1, <5>2, <1>6
      <4> QED BY <4>1, <4>2, <4>3 DEF Whole, Shares
    <3> QED BY <3>2, <3>3, <3>4, <3>5 DEF Shares
  <2> QED BY <2>1, <2>2
<1>10. Posts(work)'
  BY <1>5, <1>6 DEF Whole, Posts, Actor, Faults, Transfers
<1>11. Faulted(pte)'
  <2>1. ASSUME NEW u \in Proc, NEW q \in Page, AtFault(u, q)'
        PROVE  \/ u # t /\ q # p /\ AtFault(u, q) /\ pc'[u] = pc[u]
               \/ u = t /\ q = p
    BY <1>6, <2>1 DEF AtFault, Actor, Vacant
  <2>2. ASSUME NEW u \in Proc, NEW q \in Page, AtFault(u, q)'
        PROVE  /\ pte'[q].wired /\ pte'[q].pfn = NoFrame
               /\ pc'[u] \in {"pagein", "enter"} => pte'[q].backing
    <3>1. CASE u = t
      BY <1>2, <1>6, <2>1, <2>2, <3>1 DEF Vacant
    <3>2. CASE u # t
      BY <1>2, <2>1, <2>2, <3>2 DEF Whole, Faulted
    <3> QED BY <3>1, <3>2
  <2>3. ASSUME NEW u \in Proc, NEW v \in Proc, NEW q \in Page, AtFault(u, q)', AtFault(v, q)' PROVE u = v
    BY <2>1, <2>3 DEF Whole, Faulted
  <2> QED BY <2>2, <2>3 DEF Faulted
<1>12. Paging(pte, work)'
  BY <1>2 DEF Whole, Paging, Carries
<1>13. Marked(pte, work)'
  <2>1. AtFault(t, p)'
    BY <1>6 DEF AtFault, Faults, Vacant, Intact
  <2>2. ASSUME NEW u \in Proc, NEW q \in Page \ {p}, AtFault(u, q) PROVE AtFault(u, q)'
    BY <1>6, <2>2 DEF Vacant, AtFault, Actor
  <2> QED BY <1>2, <2>1, <2>2 DEF Whole, Marked, Carries
<1>14. Kept(pte, work)'
  <2>1. \A q \in Page : Saved(pte, q)' = Saved(pte, q)
    BY <1>2 DEF Saved
  <2>2. \A q \in Page : pte[q].pfn \in Frame \cup {NoFrame} /\ pte[q].pfn \notin free
    BY <1>1 DEF Whole, Shares, Entry
  <2>3. ASSUME NEW q \in Page \ stale'
        PROVE  /\ pte'[q].pfn # NoFrame => mem'[pte'[q].pfn] = latest'[q]
               /\ pte'[q].pfn = NoFrame \/ (pte'[q].valid /\ ~pte'[q].modify) => Saved(pte, q)' = latest'[q]
    <3>1. /\ pte[q].pfn # NoFrame => mem[pte[q].pfn] = latest[q]
          /\ pte[q].pfn = NoFrame \/ (pte[q].valid /\ ~pte[q].modify) => Saved(pte, q) = latest[q]
      BY DEF Whole, Kept
    <3>2. mem'[pte[q].pfn] = mem[pte[q].pfn]
      BY <1>7, <2>2
    <3> QED BY <1>2, <2>1, <3>1, <3>2
  <2>4. ASSUME NEW u \in Proc, pc'[u] = "enter" PROVE mem'[frame'[u]] = store'[op'[u].page]
    <3>1. u # t /\ pc[u] = "enter" /\ u \in Actor
      BY <1>6, <2>4 DEF Actor
    <3>2. frame[u] \in Frame /\ frame[u] \notin free
      BY <3>1 DEF Whole, Posts, Shares, Typed, FaultTyped
    <3> QED BY <1>6, <1>7, <3>1, <3>2 DEF Whole, Kept
  <2>5. ASSUME NEW x \in Actor, NEW q \in Page \ stale', pc'[x] = "cleaned", Carries(work, x, q)'
        PROVE  store'[q] = latest'[q]
    <3>1. x # t /\ Carries(work, x, q)
      BY <1>6, <2>5 DEF Carries
    <3> QED BY <1>6, <2>5, <3>1 DEF Whole, Kept
  <2> QED BY <2>3, <2>4, <2>5 DEF Kept
<1>15. Owed(chan, work, forgotten)'
  <2>1. ASSUME NEW q \in Page, AtWork(work, q) PROVE AtWork(work, q)'
    <3>1. \/ ~(t \in Proc /\ pc[t] \in Faults /\ op[t].page = q)
          \/ pc'[t] \in Faults /\ op'[t].page = q
      BY <1>6 DEF Vacant, Faults
    <3> QED BY <1>5, <1>6, <2>1, <3>1, AtWorkStep
  <2> QED BY <2>1, Channels DEF Owed
<1>16. Stuck(work)'
  BY <1>5, <1>6, StuckStep DEF Vacant, Whole
<1> QED
  BY <1>15, <1>16, <1>2, <1>3, <1>4, <1>8, <1>9, <1>10, <1>11, <1>12, <1>13, <1>14 DEF Whole

\* kmem_alloc's lowest free page.
LEMMA LowestFree ==
  ASSUME Typed, free # {}
  PROVE  Min(free) \in free /\ free \subseteq Frame
<1>1. free \subseteq Frame /\ Frame \subseteq Int /\ IsFiniteSet(Frame)
  BY PagerAssumption, FS_Interval DEF Typed, FaultTyped, Frame
<1>2. IsFiniteSet(free)
  BY <1>1, FS_Subset
<1> QED
  BY <1>1, <1>2, MinMaxIn

LEMMA GetFrameStep ==
  ASSUME Typed, Whole(pte, work), NEW t \in Proc, NEW p \in Page, NEW write \in BOOLEAN,
         GetFrame(t, p, write), Vacant(t, p), frame[t] = NoFrame,
         pc'[t] # "run" => op'[t].page = p,
         \A u \in Proc \ {t} : op'[u] = op[u],
         UNCHANGED <<store, stale, work, va, torn>>,
         Owed(chan, work, forgotten), chan[t] = Awake, forgotten \ {t} \subseteq forgotten'
  PROVE  FaultTyped' /\ Whole(pte, work)' /\ Owed(chan, work, forgotten)'
<1> DEFINE f == Min(free)
           cleared == [mem EXCEPT ![f] = 0]
<1>1. /\ tlb \subseteq Page /\ latest \in [Page -> Nat] /\ chan \in [Actor -> Channel]
      /\ mem \in [Frame \cup {NoFrame} -> Nat]
      /\ pc \in [Actor -> {"run", "busy", "asleep", "scan"} \cup Faults \cup Transfers]
      /\ t \in Actor
  BY DEF Typed, FaultTyped, Actor
<1>2. CASE /\ free = {}
           /\ chan' = [Wakeup(chan, DaemonName) EXCEPT ![t] = CoreMap]
           /\ pc' = [pc EXCEPT ![t] = "alloc"]
           /\ pte' = [pte EXCEPT ![p].wired = TRUE]
           /\ UNCHANGED <<free, frame, mem, tlb, latest>>
  <2>1. pte' = WithMark(pte, p)
    BY <1>2 DEF WithMark
  <2>2. Wakeup(chan, DaemonName) \in [Actor -> Channel]
    BY <1>1, WakeupTyped
  <2>3. chan' \in [Actor -> Channel]
    BY <1>2, <2>2 DEF Channel
  <2>4. \A u \in Proc, q \in Page : chan'[u] = PageChan(q) => chan[u] = PageChan(q)
    BY <1>1, <1>2, <2>2, Channels DEF Wakeup, Actor
  <2>5. pc'[t] = "alloc"
    BY <1>1, <1>2
  <2>6. op'[t].page = p
    BY <2>5
  <2>7. /\ pte' \in [Page -> Entry] /\ free' \subseteq Frame
        /\ mem' \in [Frame \cup {NoFrame} -> Nat]
        /\ pc' \in [Actor -> {"run", "busy", "asleep", "scan"} \cup Faults \cup Transfers]
        /\ frame' \in [Proc -> Frame \cup {NoFrame}]
        /\ Whole(pte, work)' /\ Owed(chan, work, forgotten)'
    BY <1>2, <2>1, <2>4, <2>6, MarkStep
  <2> QED BY <1>1, <1>2, <2>3, <2>7 DEF FaultTyped
<1>3. CASE /\ free # {} /\ pte[p].backing
           /\ free' = free \ {f} /\ frame' = [frame EXCEPT ![t] = f] /\ mem' = cleared
           /\ pte' = [pte EXCEPT ![p].wired = TRUE]
           /\ pc' = [pc EXCEPT ![t] = "pagein"]
           /\ UNCHANGED <<chan, tlb, latest>>
  <2>1. pte' = WithMark(pte, p)
    BY <1>3 DEF WithMark
  <2>2. f \in free
    BY <1>3, LowestFree
  <2>3. pc'[t] = "pagein"
    BY <1>1, <1>3
  <2>4. op'[t].page = p
    BY <2>3
  <2>5. \A u \in Proc, q \in Page : chan'[u] = PageChan(q) => chan[u] = PageChan(q)
    BY <1>3
  <2> HIDE DEF f
  <2>6. \E g \in free : /\ free' = free \ {g} /\ frame' = [frame EXCEPT ![t] = g]
                        /\ mem' = [mem EXCEPT ![g] = 0] /\ pc' = [pc EXCEPT ![t] = "pagein"]
                        /\ pte[p].backing
    BY <1>3, <2>2
  <2>7. /\ pte' \in [Page -> Entry] /\ free' \subseteq Frame
        /\ mem' \in [Frame \cup {NoFrame} -> Nat]
        /\ pc' \in [Actor -> {"run", "busy", "asleep", "scan"} \cup Faults \cup Transfers]
        /\ frame' \in [Proc -> Frame \cup {NoFrame}]
        /\ Whole(pte, work)' /\ Owed(chan, work, forgotten)'
    BY <1>3, <2>1, <2>4, <2>5, <2>6, MarkStep
  <2> QED BY <1>1, <1>3, <2>7 DEF FaultTyped
<1>4. CASE /\ free # {} /\ ~pte[p].backing
           /\ free' = free \ {f}
           /\ EnterPage(t, p, write, f, cleared)
  <2>1. f \in free /\ f \in Frame
    BY <1>4, LowestFree
  <2> HIDE DEF f
  <2>2. cleared \in [Frame \cup {NoFrame} -> Nat] /\ cleared[f] = 0 /\ \A g \in Frame \ {f} : cleared[g] = mem[g]
    BY <1>1, <2>1
  <2>3. cleared[f] = Saved(pte, p)
    BY <1>4, <2>2 DEF Saved
  <2> HIDE DEF cleared
  <2>4. PICK g, m : g = f /\ m = cleared
    OBVIOUS
  <2>5. /\ g \in Frame /\ m \in [Frame \cup {NoFrame} -> Nat]
        /\ \A h \in Frame \ {g} : m[h] = mem[h]
        /\ m[g] = Saved(pte, p)
        /\ g \in free /\ frame[t] = NoFrame /\ free' = free \ {g}
    BY <1>4, <2>1, <2>2, <2>3, <2>4
  <2>6. EnterPage(t, p, write, g, m)
    BY <1>4, <2>4
  <2>7. Filled(t, p, g, m)
    BY <2>5 DEF Filled
  <2> QED BY <2>5, <2>6, <2>7, EnterStep
<1> QED
  BY <1>2, <1>3, <1>4 DEF GetFrame

\* vm_fault from its test whether the page is in transit.
LEMMA FaultInStep ==
  ASSUME Typed, Whole(pte, work), NEW t \in Proc, NEW p \in Page, NEW write \in BOOLEAN,
         FaultIn(t, p, write), pc[t] \in {"run", "busy"},
         pc'[t] # "run" => op'[t].page = p,
         \A u \in Proc \ {t} : op'[u] = op[u],
         UNCHANGED <<store, stale, work, va, torn>>,
         Owed(chan, work, forgotten), chan[t] = Awake, forgotten \ {t} \subseteq forgotten'
  PROVE  FaultTyped' /\ Whole(pte, work)' /\ Owed(chan, work, forgotten)'
<1>0. /\ pc \in [Actor -> {"run", "busy", "asleep", "scan"} \cup Faults \cup Transfers]
      /\ chan \in [Actor -> Channel] /\ t \in Actor /\ t # Daemon
      /\ \A u \in Proc : op[u].page \in Page
  BY PagerAssumption DEF Typed, FaultTyped, OthersTyped, Actor
<1>1. CASE /\ Busy(pte, p)
           /\ chan' = [chan EXCEPT ![t] = PageChan(p)]
           /\ pc' = [pc EXCEPT ![t] = "busy"]
           /\ UNCHANGED <<pte, tlb, free, mem, latest, frame>>
  <2>1. /\ pc'[t] = "busy" /\ op'[t].page = p /\ \A x \in Actor \ {t} : pc'[x] = pc[x]
        /\ DOMAIN work[t].out = {}
    BY <1>0, <1>1 DEF Whole, Posts, Transfers
  <2>2. Entries(pte)' /\ Shares(pte)'
    BY <1>1 DEF Whole, Entries, Shares
  <2>3. Posts(work)'
    BY <1>0, <1>1, <2>1 DEF Whole, Posts, Faults, Transfers, Actor
  <2>4. Faulted(pte)'
    <3>1. ASSUME NEW u \in Proc, NEW q \in Page, AtFault(u, q)' PROVE AtFault(u, q) /\ pc'[u] = pc[u]
      BY <2>1, <3>1 DEF AtFault, Faults, Actor
    <3> QED BY <1>1, <3>1 DEF Whole, Faulted
  <2>5. Paging(pte, work)'
    BY <1>1 DEF Whole, Paging, Carries
  <2>6. Marked(pte, work)'
    <3>1. \A u \in Proc, q \in Page : AtFault(u, q) => AtFault(u, q)'
      BY <1>0, <2>1 DEF AtFault, Actor, Faults
    <3> QED BY <1>1, <3>1 DEF Whole, Marked, Carries
  <2>7. Kept(pte, work)'
    <3>1. \A q \in Page : Saved(pte, q)' = Saved(pte, q)
      BY <1>1 DEF Saved
    <3>2. \A x \in Actor : pc'[x] \in {"enter", "cleaned"} => pc'[x] = pc[x] /\ x # t
      BY <2>1
    <3>3. ASSUME NEW u \in Proc, pc'[u] = "enter" PROVE mem'[frame'[u]] = store'[op'[u].page]
      BY <1>1, <3>2, <3>3 DEF Whole, Kept, Actor
    <3> QED BY <1>1, <3>1, <3>2, <3>3 DEF Whole, Kept, Carries
  <2>8. Owed(chan, work, forgotten)'
    <3>1. AtWork(work, p)
      BY <1>1, MarkedAtWork DEF Busy, Whole
    <3>2. \A q \in Page : AtWork(work, q) => AtWork(work, q)'
      BY <1>0, <2>1, AtWorkStep DEF Faults
    <3>3. \A u \in Proc, q \in Page : chan'[u] = PageChan(q) => q = p \/ (u # t /\ chan[u] = PageChan(q))
      BY <1>0, <1>1, Channels DEF Actor
    <3> QED BY <3>1, <3>2, <3>3 DEF Owed
  <2>10. Stuck(work)'
    <3>1. Intact(t)
      BY <1>0, IntactThere DEF Whole
    <3> QED BY <1>0, <2>1, <3>1, StuckStep DEF Whole
  <2>9. FaultTyped'
    <3>1. chan' \in [Actor -> Channel]
      BY <1>0, <1>1 DEF Channel
    <3>2. pc' \in [Actor -> {"run", "busy", "asleep", "scan"} \cup Faults \cup Transfers]
      BY <1>0, <1>1
    <3> QED BY <1>1, <3>1, <3>2 DEF Typed, FaultTyped
  <2> QED BY <2>2, <2>3, <2>4, <2>5, <2>6, <2>7, <2>8, <2>9, <2>10 DEF Whole
<1>2. CASE /\ pte[p].valid
           /\ Touch(p, write, pte, tlb, mem)
           /\ pc' = [pc EXCEPT ![t] = "run"]
           /\ UNCHANGED <<free, chan, frame>>
  BY <1>2, TouchStep
<1>3. CASE ~Busy(pte, p) /\ ~pte[p].valid /\ GetFrame(t, p, write)
  <2>1. pte[p].pfn = NoFrame /\ ~pte[p].wired
    BY <1>3 DEF Whole, Entries, Busy
  <2>2. \A u \in Proc : ~AtFault(u, p)
    BY <2>1 DEF Whole, Faulted, AtFault
  <2>3. Vacant(t, p)
    <3>1. Intact(t)
      BY <1>0, IntactThere DEF Whole
    <3> QED BY <1>3, <2>1, <2>2, <3>1 DEF Vacant, Faults
  <2>4. frame[t] = NoFrame
    BY DEF Whole, Posts
  <2> QED BY <1>3, <2>3, <2>4, GetFrameStep
<1> QED
  BY <1>1, <1>2, <1>3 DEF FaultIn

LEMMA AccessStep ==
  ASSUME IInv, NEW t \in Proc, NEW p \in Page, NEW write \in BOOLEAN, Access(t, p, write)
  PROVE  IInv'
<1>1. /\ pc[t] = "run" /\ chan[t] = Awake /\ ops < MaxOps /\ ops' = ops + 1
      /\ FaultIn(t, p, write)
      /\ op' = [op EXCEPT ![t] = IF pc'[t] = "run" THEN NoOp ELSE [page |-> p, write |-> write]]
      /\ UNCHANGED <<store, stale, work, va, startva, needed, forgotten, torn>>
  BY DEF Access, CanRun, scan, gone
<1>2. op \in [Proc -> [page: Page, write: BOOLEAN]]
  BY DEF IInv, Typed, OthersTyped
<1>3. /\ op' \in [Proc -> [page: Page, write: BOOLEAN]]
      /\ pc'[t] # "run" => op'[t].page = p
      /\ \A u \in Proc \ {t} : op'[u] = op[u]
  BY <1>1, <1>2, NoOpTyped
<1>4. FaultTyped' /\ Whole(pte, work)' /\ Owed(chan, work, forgotten)'
  BY <1>1, <1>3, FaultInStep DEF IInv
<1>5. OthersTyped'
  BY <1>1, <1>3, PagerAssumption DEF IInv, Typed, OthersTyped
<1> QED
  BY <1>4, <1>5 DEF IInv, Typed

LEMMA PageWaitedStep ==
  ASSUME IInv, NEW t \in Proc, PageWaited(t)
  PROVE  IInv'
<1>1. /\ pc[t] = "busy" /\ chan[t] = Awake /\ FaultIn(t, op[t].page, op[t].write)
      /\ op' = [op EXCEPT ![t] = IF pc'[t] = "run" THEN NoOp ELSE op[t]]
      /\ forgotten' = forgotten \ {t}
      /\ UNCHANGED <<store, stale, work, va, startva, needed, ops, torn>>
  BY DEF PageWaited, CanRun, scan, Ended, gone
<1>2. op \in [Proc -> [page: Page, write: BOOLEAN]]
  BY DEF IInv, Typed, OthersTyped
<1>3. /\ op' \in [Proc -> [page: Page, write: BOOLEAN]]
      /\ pc'[t] # "run" => op'[t] = op[t]
      /\ \A u \in Proc \ {t} : op'[u] = op[u]
  BY <1>1, <1>2, NoOpTyped
<1>4. PICK p \in Page, write \in BOOLEAN : p = op[t].page /\ write = op[t].write
  BY <1>2
<1>5. /\ FaultIn(t, p, write)
      /\ pc'[t] # "run" => op'[t].page = p
  BY <1>1, <1>2, <1>3, <1>4
<1>6. FaultTyped' /\ Whole(pte, work)' /\ Owed(chan, work, forgotten)'
  BY <1>1, <1>3, <1>5, FaultInStep, SMTT(30) DEF IInv
<1>7. OthersTyped'
  BY <1>1, <1>3 DEF IInv, Typed, OthersTyped
<1> QED
  BY <1>6, <1>7 DEF IInv, Typed

\* The page of a fault under way is vacant for it.
LEMMA FaultVacant ==
  ASSUME Typed, Whole(pte, work), NEW t \in Proc, pc[t] \in Faults, Intact(t)
  PROVE  op[t].page \in Page /\ AtFault(t, op[t].page) /\ Vacant(t, op[t].page)
<1>1. op[t].page \in Page
  BY DEF Typed, OthersTyped
<1>2. AtFault(t, op[t].page)
  BY <1>1 DEF AtFault, Intact
<1>3. \A u \in Proc \ {t} : ~AtFault(u, op[t].page)
  BY <1>1, <1>2 DEF Whole, Faulted
<1>4. pte[op[t].page].wired /\ pte[op[t].page].pfn = NoFrame
  BY <1>1, <1>2 DEF Whole, Faulted
<1> QED
  BY <1>1, <1>2, <1>3, <1>4 DEF Whole, Entries, Vacant

LEMMA FrameWaitedStep ==
  ASSUME IInv, NEW t \in Proc, FrameWaited(t)
  PROVE  IInv'
<1>1. /\ pc[t] = "alloc" /\ chan[t] = Awake /\ Intact(t)
      /\ GetFrame(t, op[t].page, op[t].write)
      /\ op' = [op EXCEPT ![t] = IF pc'[t] = "run" THEN NoOp ELSE op[t]]
      /\ UNCHANGED <<store, stale, work, va, startva, needed, ops, forgotten, torn>>
  BY DEF FrameWaited, CanRun, scan, Ended, gone, Torn, Intact
<1>2. op \in [Proc -> [page: Page, write: BOOLEAN]]
  BY DEF IInv, Typed, OthersTyped
<1>3. /\ op' \in [Proc -> [page: Page, write: BOOLEAN]]
      /\ pc'[t] # "run" => op'[t] = op[t]
      /\ \A u \in Proc \ {t} : op'[u] = op[u]
  BY <1>1, <1>2, NoOpTyped
<1>4. PICK p \in Page, write \in BOOLEAN : p = op[t].page /\ write = op[t].write
  BY <1>2
<1>5. /\ GetFrame(t, p, write) /\ Vacant(t, p) /\ frame[t] = NoFrame
      /\ pc'[t] # "run" => op'[t].page = p
  <2>1. Vacant(t, op[t].page)
    BY <1>1, FaultVacant DEF IInv, Faults
  <2>2. frame[t] = NoFrame
    BY <1>1 DEF IInv, Whole, Posts
  <2> QED BY <1>1, <1>3, <1>4, <2>1, <2>2
<1>6. FaultTyped' /\ Whole(pte, work)' /\ Owed(chan, work, forgotten)'
  BY <1>1, <1>3, <1>5, GetFrameStep DEF IInv
<1>7. OthersTyped'
  BY <1>1, <1>3 DEF IInv, Typed, OthersTyped
<1> QED
  BY <1>6, <1>7 DEF IInv, Typed

LEMMA PagedInStep ==
  ASSUME IInv, NEW t \in Proc, PagedIn(t)
  PROVE  IInv'
<1>1. /\ pc[t] = "enter" /\ chan[t] = Awake /\ Intact(t)
      /\ EnterPage(t, op[t].page, op[t].write, frame[t], mem)
      /\ op' = [op EXCEPT ![t] = IF pc'[t] = "run" THEN NoOp ELSE op[t]]
      /\ UNCHANGED <<free, store, stale, work, va, startva, needed, ops, forgotten, torn>>
  BY IntactThere DEF PagedIn, CanRun, scan, Ended, gone, Actor, IInv, Whole
<1>2. op \in [Proc -> [page: Page, write: BOOLEAN]]
  BY DEF IInv, Typed, OthersTyped
<1>3. /\ op' \in [Proc -> [page: Page, write: BOOLEAN]]
      /\ \A u \in Proc \ {t} : op'[u] = op[u]
  BY <1>1, <1>2, NoOpTyped
<1>4. PICK p \in Page, write \in BOOLEAN : p = op[t].page /\ write = op[t].write
  BY <1>2
<1>5. frame[t] \in Frame /\ mem \in [Frame \cup {NoFrame} -> Nat]
  BY <1>1 DEF IInv, Typed, FaultTyped, Whole, Posts
<1>6. PICK f \in Frame : f = frame[t]
  BY <1>5
<1>7. PICK m : m = mem
  OBVIOUS
<1>8. Vacant(t, p)
  BY <1>1, <1>4, FaultVacant DEF IInv, Faults
<1>13. AtFault(t, p)
  BY <1>1, <1>4, FaultVacant DEF IInv, Faults
<1>9. Filled(t, p, f, m)
  <2>1. mem[frame[t]] = store[p] /\ pte[p].backing
    BY <1>1, <1>4, <1>13 DEF IInv, Whole, Kept, Faulted
  <2> QED BY <1>1, <1>5, <1>6, <1>7, <2>1 DEF Filled, Saved
<1>10. EnterPage(t, p, write, f, m)
  BY <1>1, <1>4, <1>6, <1>7
<1>11. FaultTyped' /\ Whole(pte, work)' /\ Owed(chan, work, forgotten)'
  BY <1>1, <1>3, <1>8, <1>9, <1>10, EnterStep DEF IInv
<1>12. OthersTyped'
  BY <1>1, <1>3 DEF IInv, Typed, OthersTyped
<1> QED
  BY <1>11, <1>12 DEF IInv, Typed
----------------------------------------------------------------------------
(* The host, the clock, the TLB and allocation.                            *)

\* A step that moves neither pages nor frames, nor anyone at work on them.
LEMMA Untouched ==
  ASSUME Whole(pte, work), UNCHANGED <<pte, free, memory, op, frame, work, torn>>,
         \A t \in Proc : pc'[t] = pc[t],
         \/ pc'[Daemon] = pc[Daemon] /\ va' = va
         \/ {pc[Daemon], pc'[Daemon]} \subseteq {"asleep", "scan"}
  PROVE  /\ Whole(pte, work)'
         /\ \A p \in Page : AtWork(work, p) => AtWork(work, p)'
<1>1. \A x \in Actor : pc'[x] = pc[x] \/ {pc[x], pc'[x]} \subseteq {"asleep", "scan"}
  BY DEF Actor
<1>2. Entries(pte)' /\ Shares(pte)' /\ Faulted(pte)' /\ Paging(pte, work)' /\ Marked(pte, work)'
  BY DEF Whole, Entries, Shares, Faulted, AtFault, Paging, Marked, Carries
<1>3. Posts(work)'
  BY <1>1, PagerAssumption DEF Whole, Posts, Transfers, Actor
<1>4. Kept(pte, work)'
  BY <1>1 DEF Whole, Kept, Saved, memory, Actor, Carries
<1>5. Stuck(work)'
  BY <1>1 DEF Whole, Stuck
<1> QED
  BY <1>2, <1>3, <1>4, <1>5 DEF Whole, AtWork

LEMMA ClockStep ==
  ASSUME IInv, Clock \/ \E p \in Page : TLBReplaces(p)
  PROVE  IInv'
<1>1. /\ UNCHANGED <<pte, free, memory, op, frame, work, va, pc, startva, needed, forgotten, torn, ops>>
      /\ tlb' \subseteq Page
      /\ chan' = chan \/ chan' = Wakeup(chan, DaemonName)
  BY DEF Clock, TLBReplaces, scan, gone, IInv, Typed, FaultTyped
<1>2. Whole(pte, work)' /\ \A p \in Page : AtWork(work, p) => AtWork(work, p)'
  BY <1>1, Untouched DEF IInv
<1>3. chan' \in [Actor -> Channel]
  BY <1>1, WakeupTyped DEF IInv, Typed, FaultTyped
<1>4. Owed(chan, work, forgotten)'
  BY <1>1, <1>2, Channels DEF IInv, Owed, Wakeup, Actor
<1> QED
  BY <1>1, <1>2, <1>3, <1>4 DEF IInv, Typed, FaultTyped, OthersTyped, memory

LEMMA DaemonWakesStep ==
  ASSUME IInv, DaemonWakes
  PROVE  IInv'
<1>1. /\ pc[Daemon] = "asleep" /\ pc' = [pc EXCEPT ![Daemon] = "scan"]
      /\ needed' = Cardinality(free) + MinFreePages /\ startva' = va
      /\ UNCHANGED <<pte, tlb, free, memory, chan, op, frame, work, va, forgotten, torn, ops>>
  BY DEF DaemonWakes, gone
<1>2. /\ pc \in [Actor -> {"run", "busy", "asleep", "scan"} \cup Faults \cup Transfers]
      /\ Daemon \in Actor /\ Daemon \notin Proc
  BY PagerAssumption DEF IInv, Typed, FaultTyped, Actor
<1>3. /\ pc' \in [Actor -> {"run", "busy", "asleep", "scan"} \cup Faults \cup Transfers]
      /\ pc'[Daemon] = "scan" /\ \A t \in Proc : pc'[t] = pc[t]
  BY <1>1, <1>2 DEF Actor
<1>4. Whole(pte, work)' /\ \A p \in Page : AtWork(work, p) => AtWork(work, p)'
  BY <1>1, <1>3, Untouched DEF IInv
<1>5. needed' \in 0..2*NFrames
  <2>1. NFrames \in Nat /\ MinFreePages \in 1..NFrames
    BY PagerAssumption
  <2>2. IsFiniteSet(Frame) /\ Cardinality(Frame) = NFrames
    BY <2>1, FS_Interval DEF Frame
  <2>3. IsFiniteSet(free) /\ Cardinality(free) <= NFrames
    BY <2>2, FS_Subset DEF IInv, Typed, FaultTyped
  <2>4. Cardinality(free) \in Nat
    BY <2>3, FS_CardinalityType
  <2> QED BY <1>1, <2>1, <2>3, <2>4
<1>6. Owed(chan, work, forgotten)'
  BY <1>1, <1>4 DEF IInv, Owed
<1> QED
  BY <1>1, <1>3, <1>4, <1>5, <1>6 DEF IInv, Typed, FaultTyped, OthersTyped, memory

\* A write through an outdated entry of the TLB goes to the page's own frame.
LEMMA StaleWriteStep ==
  ASSUME IInv, NEW t \in Proc, NEW p \in Page, StaleWrite(t, p)
  PROVE  IInv'
<1>1. /\ ops < MaxOps /\ ops' = ops + 1
      /\ mem' = [mem EXCEPT ![pte[p].pfn] = latest[p] + 1]
      /\ latest' = [latest EXCEPT ![p] = latest[p] + 1]
      /\ stale' = stale \cup {p}
      /\ UNCHANGED <<pte, tlb, free, store, pc, chan, op, frame, work, va, startva, needed, forgotten, torn>>
  BY DEF StaleWrite, scan, gone
<1>2. \A q \in Page : pte[q].pfn \in Frame \cup {NoFrame}
  BY DEF IInv, Typed, FaultTyped, Entry
<1>3. mem \in [Frame \cup {NoFrame} -> Nat] /\ latest \in [Page -> Nat]
  BY DEF IInv, Typed, FaultTyped
<1>4. /\ mem' \in [Frame \cup {NoFrame} -> Nat] /\ latest' \in [Page -> Nat]
      /\ \A f \in Frame \cup {NoFrame} : f # pte[p].pfn => mem'[f] = mem[f]
      /\ \A q \in Page \ {p} : latest'[q] = latest[q]
  BY <1>1, <1>2, <1>3
<1>5. /\ Entries(pte)' /\ Shares(pte)' /\ Posts(work)'
      /\ Faulted(pte)' /\ Paging(pte, work)' /\ Marked(pte, work)' /\ Stuck(work)'
  BY <1>1 DEF IInv, Whole, Entries, Shares, Posts, Faulted, AtFault, Paging, Marked, Carries, Stuck
<1>6. Kept(pte, work)'
  <2>1. ASSUME NEW q \in Page \ stale'
        PROVE  /\ pte'[q].pfn # NoFrame => mem'[pte'[q].pfn] = latest'[q]
               /\ pte'[q].pfn = NoFrame \/ (pte'[q].valid /\ ~pte'[q].modify) => Saved(pte, q)' = latest'[q]
    <3>1. q # p /\ q \in Page \ stale
      BY <1>1
    <3>2. Saved(pte, q)' = Saved(pte, q)
      BY <1>1 DEF Saved
    <3>3. pte[q].pfn # NoFrame => mem'[pte[q].pfn] = mem[pte[q].pfn]
      BY <1>2, <1>4, <3>1 DEF IInv, Whole, Shares
    <3> QED BY <1>1, <1>4, <3>1, <3>2, <3>3 DEF IInv, Whole, Kept
  <2>2. ASSUME NEW u \in Proc, pc'[u] = "enter" PROVE mem'[frame'[u]] = store'[op'[u].page]
    <3>1. frame[u] \in Frame /\ frame[u] # pte[p].pfn /\ pc[u] = "enter"
      BY <1>1, <2>2 DEF IInv, Whole, Posts, Shares, Typed, FaultTyped
    <3> QED BY <1>1, <1>4, <3>1 DEF IInv, Whole, Kept
  <2>3. ASSUME NEW x \in Actor, NEW q \in Page \ stale', pc'[x] = "cleaned", Carries(work, x, q)'
        PROVE  store'[q] = latest'[q]
    <3>1. q \in Page \ {p} /\ Carries(work, x, q)
      BY <1>1, <2>3 DEF Carries
    <3> QED BY <1>1, <1>4, <2>3, <3>1 DEF IInv, Whole, Kept
  <2> QED BY <2>1, <2>2, <2>3 DEF Kept
<1>7. Owed(chan, work, forgotten)'
  BY <1>1 DEF IInv, Owed, AtWork
<1>8. FaultTyped' /\ OthersTyped'
  BY <1>1, <1>4, PagerAssumption DEF IInv, Typed, FaultTyped, OthersTyped
<1> QED
  BY <1>5, <1>6, <1>7, <1>8 DEF IInv, Whole, Typed

LEMMA HostPagesInStep ==
  ASSUME IInv, NEW t \in Proc, HostPagesIn(t)
  PROVE  IInv'
<1>1. /\ pc[t] = "pagein" /\ pc' = [pc EXCEPT ![t] = "enter"] /\ Intact(t)
      /\ mem' = [mem EXCEPT ![frame[t]] = store[op[t].page]]
      /\ UNCHANGED <<pte, tlb, free, store, latest, stale, chan, op, frame, work, va, startva, needed,
                     forgotten, torn, ops>>
  BY DEF HostPagesIn, scan, gone, Torn, Intact
<1>2. /\ pc \in [Actor -> {"run", "busy", "asleep", "scan"} \cup Faults \cup Transfers]
      /\ t \in Actor /\ t # Daemon
  BY PagerAssumption DEF IInv, Typed, FaultTyped, Actor
<1>3. /\ pc' \in [Actor -> {"run", "busy", "asleep", "scan"} \cup Faults \cup Transfers]
      /\ pc'[t] = "enter" /\ \A x \in Actor \ {t} : pc'[x] = pc[x]
  BY <1>1, <1>2 DEF Faults
<1>4. frame[t] \in Frame /\ frame[t] # NoFrame /\ op[t].page \in Page
  BY <1>1 DEF IInv, Whole, Posts, Typed, FaultTyped, OthersTyped
<1>5. /\ mem \in [Frame \cup {NoFrame} -> Nat] /\ store[op[t].page] \in Nat
      /\ mem' \in [Frame \cup {NoFrame} -> Nat] /\ mem'[frame[t]] = store[op[t].page]
      /\ \A f \in Frame \cup {NoFrame} : f # frame[t] => mem'[f] = mem[f]
  BY <1>1, <1>4 DEF IInv, Typed, FaultTyped, OthersTyped
<1>6. Entries(pte)' /\ Shares(pte)' /\ Paging(pte, work)'
  BY <1>1 DEF IInv, Whole, Entries, Shares, Paging, Carries
<1>7. Posts(work)' /\ Faulted(pte)'
  <2>1. Posts(work)'
    BY <1>1, <1>2, <1>3 DEF IInv, Whole, Posts, Actor, Faults, Transfers
  <2>2. ASSUME NEW u \in Proc, NEW q \in Page, AtFault(u, q)'
        PROVE  /\ AtFault(u, q)
               /\ pc'[u] \in {"pagein", "enter"} => pc[u] \in {"pagein", "enter"}
    BY <1>1, <1>3, <2>2 DEF AtFault, Actor, Faults
  <2> QED BY <1>1, <2>1, <2>2 DEF IInv, Whole, Faulted
<1>8. Marked(pte, work)'
  <2>1. \A u \in Proc, q \in Page : AtFault(u, q) => AtFault(u, q)'
    BY <1>1, <1>3 DEF AtFault, Actor, Faults
  <2> QED BY <1>1, <2>1 DEF IInv, Whole, Marked, Carries
<1>9. Kept(pte, work)'
  <2>1. \A q \in Page : Saved(pte, q)' = Saved(pte, q)
    BY <1>1 DEF Saved
  <2>2. \A q \in Page : pte[q].pfn \in Frame \cup {NoFrame} /\ pte[q].pfn # frame[t]
    BY <1>4 DEF IInv, Typed, FaultTyped, Entry, Whole, Shares
  <2>3. \A q \in Page : mem'[pte[q].pfn] = mem[pte[q].pfn]
    BY <1>5, <2>2
  <2>4. ASSUME NEW u \in Proc, pc'[u] = "enter" PROVE mem'[frame'[u]] = store'[op'[u].page]
    <3>1. CASE u = t BY <1>1, <1>5, <3>1
    <3>2. CASE u # t
      <4>1. pc[u] = "enter" /\ frame[u] \in Frame /\ frame[u] # frame[t]
        BY <1>3, <1>4, <2>4, <3>2 DEF IInv, Whole, Posts, Shares, Typed, FaultTyped, Actor
      <4> QED BY <1>1, <1>5, <4>1 DEF IInv, Whole, Kept
    <3> QED BY <3>1, <3>2
  <2>5. \A x \in Actor : pc'[x] = "cleaned" => pc[x] = "cleaned"
    BY <1>3
  <2> QED BY <1>1, <2>1, <2>3, <2>4, <2>5 DEF IInv, Whole, Kept, Carries
<1>10. Owed(chan, work, forgotten)'
  <2>1. \A q \in Page : AtWork(work, q) => AtWork(work, q)'
    BY <1>1, <1>3 DEF AtWork, Actor, Faults
  <2> QED BY <1>1, <2>1 DEF IInv, Owed
<1>11. FaultTyped' /\ OthersTyped'
  BY <1>1, <1>3, <1>5 DEF IInv, Typed, FaultTyped, OthersTyped
<1>12. Stuck(work)'
  BY <1>1, <1>2, <1>3, StuckStep DEF IInv, Whole
<1> QED
  BY <1>6, <1>7, <1>8, <1>9, <1>10, <1>11, <1>12 DEF IInv, Whole, Typed

LEMMA HostPagesOutStep ==
  ASSUME IInv, NEW x \in Actor, HostPagesOut(x)
  PROVE  IInv'
<1> DEFINE out == work[x].out
<1>1. /\ pc[x] = "pageout" /\ pc' = [pc EXCEPT ![x] = "cleaned"] /\ Intact(x)
      /\ store' = [p \in Page |-> IF p \in DOMAIN out THEN mem[out[p]] ELSE store[p]]
      /\ UNCHANGED <<pte, tlb, free, mem, latest, stale, chan, op, frame, work, va, startva, needed,
                     forgotten, torn, ops>>
  BY DEF HostPagesOut, scan, gone, Torn, Intact
<1>2. /\ pc' \in [Actor -> {"run", "busy", "asleep", "scan"} \cup Faults \cup Transfers]
      /\ pc'[x] = "cleaned" /\ \A y \in Actor \ {x} : pc'[y] = pc[y]
  BY <1>1 DEF IInv, Typed, FaultTyped, Transfers
<1>3. \A p \in DOMAIN out : /\ p \in Page /\ out[p] = pte[p].pfn /\ pte[p].pfn \in Frame
                            /\ pte[p].wired /\ ~pte[p].valid
                            /\ Carries(work, x, p)
                            /\ \A y \in Actor : Carries(work, y, p) => y = x
  <2>1. DOMAIN out \subseteq Page
    BY DEF IInv, Typed, OthersTyped, Call
  <2>2. \A p \in DOMAIN out : Carries(work, x, p)
    BY <1>1, <2>1 DEF Carries, Intact
  <2>3. \A p \in DOMAIN out : pte[p].pfn \in Frame
    BY <2>1, <2>2 DEF IInv, Typed, FaultTyped, Entry, Whole, Paging
  <2> QED BY <2>1, <2>2, <2>3 DEF IInv, Whole, Paging, Entries
<1>4. store' \in [Page -> Nat]
  BY <1>1, <1>3 DEF IInv, Typed, FaultTyped, OthersTyped
<1> HIDE DEF out
<1>5. /\ \A p \in Page \ DOMAIN out : store'[p] = store[p]
      /\ \A p \in DOMAIN out : store'[p] = mem[pte[p].pfn]
  BY <1>1, <1>3
<1>6. Entries(pte)' /\ Shares(pte)' /\ Paging(pte, work)'
  BY <1>1 DEF IInv, Whole, Entries, Shares, Paging, Carries
<1>7. Posts(work)' /\ Faulted(pte)'
  BY <1>1, <1>2 DEF IInv, Whole, Posts, Faulted, AtFault, Actor, Faults, Transfers
<1>8. Marked(pte, work)'
  <2>1. \A u \in Proc, q \in Page : AtFault(u, q) => AtFault(u, q)'
    BY <1>1, <1>2 DEF AtFault, Actor, Faults
  <2> QED BY <1>1, <2>1 DEF IInv, Whole, Marked, Carries
<1>9. Kept(pte, work)'
  <2>1. ASSUME NEW q \in Page, pte[q].pfn = NoFrame \/ pte[q].valid PROVE Saved(pte, q)' = Saved(pte, q)
    <3>1. q \notin DOMAIN out
      BY <1>3, <2>1 DEF Frame, NoFrame
    <3> QED BY <1>1, <1>5, <3>1 DEF Saved
  <2>2. ASSUME NEW u \in Proc, pc'[u] = "enter" PROVE mem'[frame'[u]] = store'[op'[u].page]
    <3>1. pc[u] = "enter"
      BY <1>2, <2>2 DEF Actor
    <3>4. Intact(u)
      BY <3>1, IntactThere DEF IInv, Whole, Actor
    <3>2. op[u].page \in Page /\ pte[op[u].page].pfn = NoFrame
      BY <3>1, <3>4, FaultVacant DEF IInv, Vacant, Faults
    <3>3. op[u].page \notin DOMAIN out
      BY <1>3, <3>2 DEF Frame, NoFrame
    <3> QED BY <1>1, <1>5, <3>1, <3>2, <3>3 DEF IInv, Whole, Kept
  <2>3. ASSUME NEW y \in Actor, NEW q \in Page \ stale', pc'[y] = "cleaned", Carries(work, y, q)'
        PROVE  store'[q] = latest'[q]
    <3>3. Carries(work, y, q)
      BY <1>1, <2>3 DEF Carries
    <3>1. CASE y = x
      <4>1. q \in DOMAIN out /\ q \in Page \ stale
        BY <1>1, <3>1, <3>3 DEF out, Carries
      <4>2. mem[pte[q].pfn] = latest[q]
        BY <1>3, <4>1 DEF IInv, Whole, Kept, Paging, Frame, NoFrame
      <4> QED BY <1>1, <1>5, <4>1, <4>2
    <3>2. CASE y # x
      <4>1. q \notin DOMAIN out /\ q \in Page /\ pc[y] = "cleaned"
        BY <1>1, <1>2, <1>3, <2>3, <3>2, <3>3
      <4> QED BY <1>1, <1>5, <3>3, <4>1 DEF IInv, Whole, Kept
    <3> QED BY <3>1, <3>2
  <2> QED BY <1>1, <2>1, <2>2, <2>3, SMTT(30) DEF IInv, Whole, Kept
<1>10. Owed(chan, work, forgotten)'
  <2>1. \A q \in Page : AtWork(work, q) => AtWork(work, q)'
    BY <1>1, <1>2 DEF AtWork, Actor, Faults
  <2> QED BY <1>1, <2>1 DEF IInv, Owed
<1>11. FaultTyped' /\ OthersTyped'
  BY <1>1, <1>2, <1>4 DEF IInv, Typed, FaultTyped, OthersTyped
<1>12. Stuck(work)'
  BY <1>1, <1>2, StuckStep DEF IInv, Whole
<1> QED
  BY <1>6, <1>7, <1>8, <1>9, <1>10, <1>11, <1>12 DEF IInv, Whole, Typed

\* Frames that pages give up go to the coremap.
LEMMA SharesReleased ==
  ASSUME NEW pt \in [Page -> Entry], Shares(pt), NEW R \in SUBSET Page, free \subseteq Frame,
         \A q \in Page : pte'[q].pfn = (IF q \in R THEN NoFrame ELSE pt[q].pfn),
         free' = free \cup ({pt[q].pfn : q \in R} \ {NoFrame}), frame' = frame
  PROVE  Shares(pte)' /\ free' \subseteq Frame
<1>1. NoFrame \notin Frame /\ NoFrame \notin free /\ NoFrame \notin free'
  BY DEF Frame, NoFrame
<1>2. \A q \in Page : pt[q].pfn \in Frame \cup {NoFrame}
  BY DEF Entry
<1>3. \A p, q \in Page : pte'[p].pfn # NoFrame /\ pte'[p].pfn = pte'[q].pfn => p = q
  BY DEF Shares
<1>4. ASSUME NEW p \in Page PROVE pte'[p].pfn \notin free'
  <2>1. CASE p \in R BY <1>1, <2>1
  <2>2. CASE p \notin R
    <3>1. \A q \in R : pt[q].pfn # NoFrame => pt[q].pfn # pt[p].pfn
      BY <2>2 DEF Shares
    <3> QED BY <2>2, <3>1 DEF Shares
  <2> QED BY <2>1, <2>2
<1>5. \A t \in Proc : frame'[t] \notin free'
  BY DEF Shares
<1>6. \A t \in Proc, p \in Page : frame'[t] # NoFrame => frame'[t] # pte'[p].pfn
  BY DEF Shares
<1>7. ASSUME NEW f \in Frame, f \notin free', \A t \in Proc : frame'[t] # f
      PROVE  \E p \in Page : pte'[p].pfn = f
  <2>1. PICK p \in Page : pt[p].pfn = f
    BY <1>7 DEF Shares
  <2>2. p \notin R
    BY <1>1, <1>7, <2>1
  <2> QED BY <2>1, <2>2
<1>8. free' \subseteq Frame
  BY <1>2
<1> QED
  BY <1>3, <1>4, <1>5, <1>6, <1>7, <1>8 DEF Shares

\* A page is given up: whoever is at work on it, which outside of the host's
\* answers is in a wait, is torn from it.
LEMMA WorkTorn ==
  ASSUME Whole(pte, work), Unlocked, NEW p \in Page,
         torn' = torn \cup (Workers(p) \X {p}), UNCHANGED <<pc, op, work>>
  PROVE  /\ \A t \in Proc, q \in Page : AtFault(t, q)' <=> AtFault(t, q) /\ q # p
         /\ \A x \in Actor, q \in Page : Carries(work, x, q)' <=> Carries(work, x, q) /\ q # p
         /\ Stuck(work)'
<1>1. \A x \in Actor, q \in Page : <<x, q>> \in torn' <=> <<x, q>> \in torn \/ (q = p /\ x \in Workers(p))
  OBVIOUS
<1>2. \A t \in Proc : t \in Actor
  BY DEF Actor
<1>3. \A t \in Proc : AtFault(t, p) => t \in Workers(p)
  BY DEF AtFault, Workers, Faults
<1>4. \A x \in Actor : Carries(work, x, p) => x \in Workers(p)
  BY DEF Carries, Workers
<1>5. \A t \in Proc, q \in Page : AtFault(t, q)' <=> AtFault(t, q) /\ q # p
  BY <1>1, <1>2, <1>3 DEF AtFault
<1>6. ASSUME NEW x \in Actor, NEW q \in Page
      PROVE  Carries(work, x, q)' <=> Carries(work, x, q) /\ q # p
  <2>1. <<x, q>> \in torn' <=> <<x, q>> \in torn \/ (q = p /\ x \in Workers(p))
    BY <1>1
  <2>2. Carries(work, x, p) => x \in Workers(p)
    BY <1>4
  <2> QED BY <2>1, <2>2 DEF Carries
<1>7. ASSUME NEW x \in Actor, x \in Workers(p)
      PROVE  \/ x \in Proc /\ pc[x] \in {"alloc", "pagein"} /\ op[x].page = p
             \/ pc[x] = "pageout" /\ p \in DOMAIN work[x].out
  <2>1. CASE p \in DOMAIN work[x].out
    BY <2>1 DEF Whole, Posts, Transfers, Unlocked
  <2>2. CASE x \in Proc /\ pc[x] \in {"alloc", "pagein", "enter"} /\ op[x].page = p
    BY <2>2 DEF Unlocked
  <2> QED BY <1>7, <2>1, <2>2 DEF Workers
<1>8. Stuck(work)'
  BY <1>1, <1>7 DEF Whole, Stuck
<1> QED
  BY <1>5, <1>6, <1>8

\* Its entry is cleared and its frame, if it has one, goes to the coremap.
LEMMA GivenUp ==
  ASSUME Typed, Whole(pte, work), Unlocked, NEW p \in Page, NEW e \in Entry,
         ~e.valid, ~e.wired, ~e.backing, e.pfn = NoFrame, pte' = [pte EXCEPT ![p] = e],
         free' = free \cup ({pte[p].pfn} \ {NoFrame}), torn' = torn \cup (Workers(p) \X {p}),
         \A q \in Page \ {p} : store'[q] = store[q] /\ latest'[q] = latest[q],
         p \in stale' \/ latest'[p] = 0, stale \ {p} \subseteq stale',
         UNCHANGED <<mem, pc, op, frame, work, va>>
  PROVE  pte' \in [Page -> Entry] /\ free' \subseteq Frame /\ Whole(pte, work)'
<1>1. pte \in [Page -> Entry] /\ free \subseteq Frame
  BY DEF Typed, FaultTyped
<1>2. pte' \in [Page -> Entry] /\ pte'[p] = e /\ \A q \in Page \ {p} : pte'[q] = pte[q]
  BY <1>1, EntrySet
<1>3. /\ \A t \in Proc, q \in Page : AtFault(t, q)' <=> AtFault(t, q) /\ q # p
      /\ \A x \in Actor, q \in Page : Carries(work, x, q)' <=> Carries(work, x, q) /\ q # p
      /\ Stuck(work)'
  BY WorkTorn
<1>4. Entries(pte)'
  BY <1>2 DEF Whole, Entries
<1>5. Shares(pte)' /\ free' \subseteq Frame
  <2>1. PICK R \in SUBSET Page : R = {p}
    OBVIOUS
  <2>2. /\ \A q \in Page : pte'[q].pfn = (IF q \in R THEN NoFrame ELSE pte[q].pfn)
        /\ free' = free \cup ({pte[q].pfn : q \in R} \ {NoFrame})
    BY <1>2, <2>1
  <2>3. PICK pt \in [Page -> Entry] : pt = pte
    BY <1>1
  <2> QED BY <1>1, <2>2, <2>3, SharesReleased DEF Whole
<1>6. Posts(work)'
  BY DEF Whole, Posts
<1>7. Faulted(pte)'
  BY <1>2, <1>3 DEF Whole, Faulted
<1>8. Paging(pte, work)'
  BY <1>2, <1>3 DEF Whole, Paging
<1>9. Marked(pte, work)'
  BY <1>2, <1>3 DEF Whole, Marked
<1>10. Kept(pte, work)'
  <2>1. ASSUME NEW q \in Page \ stale'
        PROVE  /\ pte'[q].pfn # NoFrame => mem'[pte'[q].pfn] = latest'[q]
               /\ pte'[q].pfn = NoFrame \/ (pte'[q].valid /\ ~pte'[q].modify) => Saved(pte, q)' = latest'[q]
    <3>1. CASE q = p
      BY <1>2, <2>1, <3>1 DEF Saved
    <3>2. CASE q # p
      <4>1. q \in Page \ stale /\ Saved(pte, q)' = Saved(pte, q)
        BY <1>2, <2>1, <3>2 DEF Saved
      <4>2. /\ pte[q].pfn # NoFrame => mem[pte[q].pfn] = latest[q]
            /\ pte[q].pfn = NoFrame \/ (pte[q].valid /\ ~pte[q].modify) => Saved(pte, q) = latest[q]
        BY <4>1 DEF Whole, Kept
      <4> QED BY <1>2, <3>2, <4>1, <4>2
    <3> QED BY <3>1, <3>2
  <2>2. \A x \in Actor : pc'[x] \notin {"cleaned", "enter"}
    BY DEF Unlocked
  <2> QED BY <2>1, <2>2 DEF Kept, Actor
<1> QED
  BY <1>2, <1>3, <1>4, <1>5, <1>6, <1>7, <1>8, <1>9, <1>10 DEF Whole

LEMMA AllocateStep ==
  ASSUME IInv, NEW t \in Proc, NEW p \in Page, Allocate(t, p)
  PROVE  IInv'
<1>1. /\ ops < MaxOps /\ ops' = ops + 1 /\ Unlocked /\ tlb' = {}
      /\ UNCHANGED <<free, mem, store, latest, stale, pc, chan, op, frame, work, va, startva, needed,
                     forgotten>>
  BY DEF Allocate, scan, memory
<1>2. ASSUME pte' = pte, torn' = torn
      PROVE  Whole(pte, work)' /\ FaultTyped'
  BY <1>1, <1>2, Untouched DEF IInv, memory, Typed, FaultTyped
<1>3. ASSUME ~pte[p].allocated, pte' = [pte EXCEPT ![p] = AddedPTE],
             torn' = torn \cup (Workers(p) \X {p})
      PROVE  Whole(pte, work)' /\ FaultTyped'
  <2>1. PICK e \in Entry : /\ e = AddedPTE /\ ~e.valid /\ ~e.wired /\ ~e.backing /\ e.pfn = NoFrame
    <3>1. /\ AddedPTE \in Entry /\ ~AddedPTE.valid /\ ~AddedPTE.wired /\ ~AddedPTE.backing
          /\ AddedPTE.pfn = NoFrame
      BY DEF AddedPTE, ZeroPTE, Entry
    <3> QED BY <3>1
  <2>2. ~pte[p].valid /\ ~pte[p].backing
    BY <1>3 DEF IInv, Whole, Entries
  <2>3. pte[p].pfn = NoFrame
    <3>1. \A x \in Actor : ~Carries(work, x, p)
      BY <1>3 DEF IInv, Whole, Paging
    <3>2. CASE pte[p].wired
      BY <3>1, <3>2 DEF IInv, Whole, Marked, Faulted
    <3>3. CASE ~pte[p].wired
      BY <2>2, <3>3 DEF IInv, Whole, Entries
    <3> QED BY <3>2, <3>3
  <2>4. p \in stale' \/ latest'[p] = 0
    BY <1>1, <2>2, <2>3 DEF IInv, Whole, Kept, Saved
  <2>5. pte' \in [Page -> Entry] /\ free' \subseteq Frame /\ Whole(pte, work)'
    <3>1. free' = free \cup ({pte[p].pfn} \ {NoFrame})
      BY <1>1, <2>3
    <3> QED BY <1>1, <1>3, <2>1, <2>4, <3>1, GivenUp DEF IInv
  <2> QED BY <1>1, <2>5 DEF IInv, Typed, FaultTyped
<1>4. Whole(pte, work)' /\ FaultTyped'
  BY <1>2, <1>3 DEF Allocate
<1>5. Owed(chan, work, forgotten)'
  BY <1>1 DEF IInv, Owed, AtWork
<1>6. OthersTyped'
  BY <1>1, PagerAssumption DEF IInv, Typed, OthersTyped
<1> QED
  BY <1>4, <1>5, <1>6 DEF IInv, Typed

LEMMA DeallocateStep ==
  ASSUME IInv, NEW t \in Proc, NEW p \in Page, Deallocate(t, p)
  PROVE  IInv'
<1>1. /\ ops < MaxOps /\ ops' = ops + 1 /\ Unlocked
      /\ pte' = [pte EXCEPT ![p] = ZeroPTE] /\ tlb' = {}
      /\ free' = free \cup ({pte[p].pfn} \ {NoFrame})
      /\ torn' = torn \cup (Workers(p) \X {p})
      /\ chan' = chan \/ chan' = Wakeup(chan, CoreMap)
      /\ store' = [store EXCEPT ![p] = 0] /\ latest' = [latest EXCEPT ![p] = 0]
      /\ stale' = stale \ {p}
      /\ UNCHANGED <<mem, pc, op, frame, work, va, startva, needed, forgotten>>
  BY DEF Deallocate, scan, memory
<1>2. PICK e \in Entry : e = ZeroPTE /\ ~e.valid /\ ~e.wired /\ ~e.backing /\ e.pfn = NoFrame
  <2>1. ZeroPTE \in Entry /\ ~ZeroPTE.valid /\ ~ZeroPTE.wired /\ ~ZeroPTE.backing /\ ZeroPTE.pfn = NoFrame
    BY DEF ZeroPTE, Entry
  <2> QED BY <2>1
<1>3. /\ store' \in [Page -> Nat] /\ latest' \in [Page -> Nat] /\ latest'[p] = 0
      /\ \A q \in Page \ {p} : store'[q] = store[q] /\ latest'[q] = latest[q]
  BY <1>1 DEF IInv, Typed, FaultTyped, OthersTyped
<1>4. pte' \in [Page -> Entry] /\ free' \subseteq Frame /\ Whole(pte, work)'
  <2>1. pte' = [pte EXCEPT ![p] = e]
    BY <1>1, <1>2
  <2> QED BY <1>1, <1>2, <1>3, <2>1, GivenUp DEF IInv
<1>5. Owed(chan, work, forgotten)'
  <2>1. \A u \in Proc, q \in Page : chan'[u] = PageChan(q) => chan[u] = PageChan(q)
    BY <1>1, Channels DEF Wakeup, Actor
  <2> QED BY <1>1, <2>1 DEF IInv, Owed, AtWork
<1>6. chan' \in [Actor -> Channel]
  BY <1>1, WakeupTyped DEF IInv, Typed, FaultTyped
<1>7. FaultTyped' /\ OthersTyped'
  BY <1>1, <1>3, <1>4, <1>6, PagerAssumption DEF IInv, Typed, FaultTyped, OthersTyped
<1> QED
  BY <1>4, <1>5, <1>7 DEF IInv, Typed
----------------------------------------------------------------------------
(* The page-out daemon.                                                    *)

LEMMA NoWorkTyped == NoWork \in Call /\ DOMAIN NoWork.out = {}
<1>1. <<>> \in [{} -> Frame] /\ DOMAIN <<>> = {}
  OBVIOUS
<1>2. <<>> \in UNION {[D -> Frame] : D \in SUBSET Page}
  <2>1. {} \in SUBSET Page
    OBVIOUS
  <2> QED BY <1>1, <2>1
<1>3. NPages \in Nat
  BY PagerAssumption
<1> QED
  BY <1>1, <1>2, <1>3 DEF NoWork, Call

\* The frame goes to the coremap and the faults that wait for the page are woken.
LEMMA DaemonCleanedStep ==
  ASSUME IInv, DaemonCleaned
  PROVE  IInv'
<1> DEFINE e == [pte[va] EXCEPT !.modify = FALSE, !.backing = TRUE, !.wired = FALSE,
                                !.pfn = NoFrame, !.ref = FALSE]
<1>1. /\ pc[Daemon] = "cleaned" /\ pc' = [pc EXCEPT ![Daemon] = "scan"]
      /\ free' = free \cup {work[Daemon].out[va]} /\ tlb' = {}
      /\ work' = [work EXCEPT ![Daemon] = NoWork]
      /\ chan' = Wakeup(Wakeup(chan, CoreMap), PageChan(va))
      /\ UNCHANGED <<mem, store, latest, stale, op, frame, va, startva, needed, forgotten, torn, ops>>
  BY DEF DaemonCleaned, scan, memory, gone
<1>2. Daemon \in Actor /\ Daemon \notin Proc /\ va \in Page /\ DOMAIN work[Daemon].out = {va}
  BY <1>1, PagerAssumption DEF IInv, Typed, OthersTyped, Whole, Posts, Transfers, Actor
<1>23. Intact(Daemon) /\ Carries(work, Daemon, va)
  BY <1>1, <1>2, IntactThere DEF IInv, Whole, Carries, Intact
<1>3. /\ pte[va].wired /\ ~pte[va].valid /\ pte[va].pfn # NoFrame /\ pte[va].allocated
      /\ work[Daemon].out[va] = pte[va].pfn
      /\ \A x \in Actor : Carries(work, x, va) => x = Daemon
  BY <1>2, <1>23 DEF IInv, Whole, Paging, Entries
<1>4. pte \in [Page -> Entry] /\ pte[va] \in Entry /\ free \subseteq Frame
  BY <1>2 DEF IInv, Typed, FaultTyped
<1>5. /\ e \in Entry /\ ~e.valid /\ ~e.wired /\ e.backing /\ e.pfn = NoFrame /\ e.allocated
  BY <1>3, <1>4 DEF Entry
<1>6. pte' = [pte EXCEPT ![va] = e]
  BY DEF DaemonCleaned
<1> HIDE DEF e
<1>7. pte' \in [Page -> Entry] /\ pte'[va] = e /\ \A q \in Page \ {va} : pte'[q] = pte[q]
  BY <1>2, <1>4, <1>5, <1>6, EntrySet
<1>8. /\ work' \in [Actor -> Call] /\ DOMAIN work'[Daemon].out = {}
      /\ \A x \in Actor \ {Daemon} : work'[x] = work[x]
  BY <1>1, <1>2, NoWorkTyped DEF IInv, Typed, OthersTyped
<1>9. /\ pc' \in [Actor -> {"run", "busy", "asleep", "scan"} \cup Faults \cup Transfers]
      /\ pc'[Daemon] = "scan" /\ \A x \in Actor \ {Daemon} : pc'[x] = pc[x]
  BY <1>1, <1>2 DEF IInv, Typed, FaultTyped
<1>10. \A x \in Actor, q \in Page : Carries(work, x, q)' <=> Carries(work, x, q) /\ x # Daemon
  BY <1>1, <1>2, <1>8 DEF Carries
<1>11. \A u \in Proc : pc'[u] = pc[u] /\ u \in Actor
  BY <1>2, <1>9 DEF Actor
<1>12. Entries(pte)'
  BY <1>5, <1>7 DEF IInv, Whole, Entries
<1>13. Shares(pte)' /\ free' \subseteq Frame
  <2>1. PICK R \in SUBSET Page : R = {va}
    BY <1>2
  <2>2. /\ \A q \in Page : pte'[q].pfn = (IF q \in R THEN NoFrame ELSE pte[q].pfn)
        /\ free' = free \cup ({pte[q].pfn : q \in R} \ {NoFrame})
    BY <1>1, <1>3, <1>5, <1>7, <2>1
  <2>3. PICK pt \in [Page -> Entry] : pt = pte
    BY <1>4
  <2> QED BY <1>1, <1>4, <2>2, <2>3, SharesReleased DEF IInv, Whole
<1>14. Posts(work)'
  BY <1>1, <1>2, <1>8, <1>9, <1>11 DEF IInv, Whole, Posts, Transfers
<1>15. \A u \in Proc, q \in Page : /\ AtFault(u, q)' <=> AtFault(u, q)
                                   /\ AtFault(u, q) => q # va
  BY <1>1, <1>2, <1>3, <1>11 DEF IInv, Whole, Faulted, AtFault
<1>16. Faulted(pte)'
  BY <1>1, <1>7, <1>11, <1>15 DEF IInv, Whole, Faulted
<1>17. Paging(pte, work)'
  <2>1. \A x \in Actor, q \in Page : Carries(work, x, q) /\ x # Daemon => q # va
    BY <1>3
  <2> QED BY <1>7, <1>8, <1>10, <2>1 DEF IInv, Whole, Paging
<1>18. Marked(pte, work)'
  <2>1. \A q \in Page : Carries(work, Daemon, q) => q = va
    BY <1>2 DEF Carries
  <2> QED BY <1>5, <1>7, <1>10, <1>15, <2>1 DEF IInv, Whole, Marked
<1>19. Kept(pte, work)'
  <2>1. \A q \in Page \ {va} : Saved(pte, q)' = Saved(pte, q)
    BY <1>1, <1>7 DEF Saved
  <2>2. va \notin stale => Saved(pte, va)' = latest[va]
    BY <1>1, <1>2, <1>5, <1>7, <1>23 DEF Saved, IInv, Whole, Kept
  <2>3. ASSUME NEW q \in Page \ stale'
        PROVE  /\ pte'[q].pfn # NoFrame => mem'[pte'[q].pfn] = latest'[q]
               /\ pte'[q].pfn = NoFrame \/ (pte'[q].valid /\ ~pte'[q].modify) => Saved(pte, q)' = latest'[q]
    <3>1. CASE q = va BY <1>1, <1>5, <1>7, <2>2, <3>1
    <3>2. CASE q # va BY <1>1, <1>7, <2>1, <3>2 DEF IInv, Whole, Kept
    <3> QED BY <3>1, <3>2
  <2>4. \A u \in Proc : pc'[u] = "enter" => mem'[frame'[u]] = store'[op'[u].page]
    BY <1>1, <1>11 DEF IInv, Whole, Kept
  <2>5. ASSUME NEW x \in Actor, NEW q \in Page \ stale', pc'[x] = "cleaned", Carries(work, x, q)'
        PROVE  store'[q] = latest'[q]
    <3>1. pc[x] = "cleaned" /\ Carries(work, x, q)
      BY <1>9, <1>10, <2>5
    <3> QED BY <1>1, <3>1, <2>5 DEF IInv, Whole, Kept
  <2> QED BY <2>3, <2>4, <2>5 DEF Kept
<1>20. Owed(chan, work, forgotten)'
  <2>1. \A u \in Proc, q \in Page : chan'[u] = PageChan(q) => chan[u] = PageChan(q) /\ q # va
    BY <1>1, <1>2, Channels DEF Wakeup, Actor
  <2>2. \A q \in Page \ {va} : AtWork(work, q) => AtWork(work, q)'
    BY <1>1, <1>2, <1>8, <1>9, AtWorkStep
  <2> QED BY <1>1, <2>1, <2>2 DEF IInv, Owed
<1>24. Stuck(work)'
  BY <1>1, <1>2, <1>8, <1>9, <1>23, StuckStep DEF IInv, Whole
<1>21. chan' \in [Actor -> Channel]
  BY <1>1, WakeupTyped DEF IInv, Typed, FaultTyped
<1>22. FaultTyped' /\ OthersTyped'
  BY <1>1, <1>7, <1>8, <1>9, <1>13, <1>21 DEF IInv, Typed, FaultTyped, OthersTyped
<1> QED
  BY <1>12, <1>13, <1>14, <1>16, <1>17, <1>18, <1>19, <1>20, <1>22, <1>24 DEF IInv, Whole, Typed

\* One turn of the scan with the entry of page p as it finds it: a page is
\* marked for the host, or its frame is freed because the host has its contents.
LEMMA DaemonScansStep ==
  ASSUME IInv, DaemonScans
  PROVE  IInv'
<1> DEFINE p == IF va + 1 >= NPages THEN 0 ELSE va + 1
<1>1. /\ pc[Daemon] = "scan"
      /\ UNCHANGED <<mem, store, latest, stale, op, frame, startva, forgotten, torn, ops>>
  BY DEF DaemonScans, memory, gone
<1>2. /\ Daemon \in Actor /\ Daemon \notin Proc /\ p \in Page
      /\ pte \in [Page -> Entry] /\ pte[p] \in Entry /\ free \subseteq Frame
      /\ chan \in [Actor -> Channel] /\ work \in [Actor -> Call]
      /\ pc \in [Actor -> {"run", "busy", "asleep", "scan"} \cup Faults \cup Transfers]
  <2>1. p \in Page
    BY PagerAssumption DEF IInv, Typed, OthersTyped, Page
  <2> QED BY <2>1, PagerAssumption DEF IInv, Typed, FaultTyped, OthersTyped, Actor
<1>3. \A t \in Proc : t \in Actor
  BY DEF Actor
<1>4. DOMAIN work[Daemon].out = {}
  BY <1>1, <1>2 DEF IInv, Whole, Posts, Transfers
<1>10. Intact(Daemon)
  BY <1>1, <1>2, IntactThere DEF IInv, Whole
<1>5. CASE Rest /\ UNCHANGED <<pte, free, work>> /\ va' \in {va, startva}
  <2>1. /\ pc' = [pc EXCEPT ![Daemon] = "asleep"] /\ tlb' = {} /\ needed' = 0
        /\ chan' = [Wakeup(chan, CoreMap) EXCEPT ![Daemon] = DaemonName]
    BY <1>5 DEF Rest
  <2>2. /\ pc' \in [Actor -> {"run", "busy", "asleep", "scan"} \cup Faults \cup Transfers]
        /\ pc'[Daemon] = "asleep" /\ \A t \in Proc : pc'[t] = pc[t]
    BY <1>2, <1>3, <2>1
  <2>3. Whole(pte, work)' /\ \A q \in Page : AtWork(work, q) => AtWork(work, q)'
    BY <1>1, <1>5, <2>2, Untouched DEF IInv, memory
  <2>4. chan' \in [Actor -> Channel]
    <3>1. Wakeup(chan, CoreMap) \in [Actor -> Channel] /\ DaemonName \in Channel
      BY <1>2, WakeupTyped DEF Channel
    <3> QED BY <2>1, <3>1
  <2>5. Owed(chan, work, forgotten)'
    <3>1. \A t \in Proc, q \in Page : chan'[t] = PageChan(q) => chan[t] = PageChan(q)
      BY <1>2, <1>3, <2>1, Channels DEF Wakeup
    <3> QED BY <1>1, <1>5, <2>3, <3>1 DEF IInv, Owed
  <2>6. FaultTyped' /\ OthersTyped'
    <3>1. 0 \in 0..2*NFrames
      BY PagerAssumption
    <3> QED BY <1>1, <1>5, <2>1, <2>2, <2>4, <3>1 DEF IInv, Typed, FaultTyped, OthersTyped
  <2> QED BY <2>3, <2>5, <2>6 DEF IInv, Typed
<1>6. CASE va' = p /\ UNCHANGED <<pte, tlb, free, pc, chan, work, needed>>
  <2>1. Whole(pte, work)'
    BY <1>1, <1>6, Untouched DEF IInv, memory
  <2>2. Owed(chan, work, forgotten)'
    BY <1>1, <1>6 DEF IInv, Owed, AtWork
  <2> QED BY <1>1, <1>2, <1>6, <2>1, <2>2 DEF IInv, Typed, FaultTyped, OthersTyped
<1>7. CASE /\ va' = p /\ pte' = [pte EXCEPT ![p].ref = FALSE]
           /\ UNCHANGED <<tlb, free, pc, chan, work, needed>>
  <2> DEFINE e == [pte[p] EXCEPT !.ref = FALSE]
  <2>1. /\ e \in Entry /\ e.pfn = pte[p].pfn /\ e.valid = pte[p].valid /\ e.wired = pte[p].wired
        /\ e.modify = pte[p].modify /\ e.backing = pte[p].backing /\ e.allocated = pte[p].allocated
    BY <1>2 DEF Entry
  <2>2. pte' = [pte EXCEPT ![p] = e]
    BY <1>7
  <2> HIDE DEF e, p
  <2>3. pte' \in [Page -> Entry] /\ pte'[p] = e /\ \A q \in Page \ {p} : pte'[q] = pte[q]
    BY <1>2, <2>1, <2>2, EntrySet
  <2>4. \A q \in Page : /\ pte'[q].pfn = pte[q].pfn /\ pte'[q].valid = pte[q].valid
                        /\ pte'[q].wired = pte[q].wired /\ pte'[q].modify = pte[q].modify
                        /\ pte'[q].backing = pte[q].backing /\ pte'[q].allocated = pte[q].allocated
    BY <2>1, <2>3
  <2>5. /\ \A u \in Proc, q \in Page : AtFault(u, q)' <=> AtFault(u, q)
        /\ \A x \in Actor, q \in Page : Carries(work, x, q)' <=> Carries(work, x, q)
        /\ Stuck(work)'
    BY <1>1, <1>7 DEF AtFault, Carries, Stuck, IInv, Whole
  <2>6. Entries(pte)' /\ Shares(pte)' /\ Paging(pte, work)'
    BY <1>1, <1>7, <2>4, <2>5 DEF IInv, Whole, Entries, Shares, Paging
  <2>7. Posts(work)'
    BY <1>1, <1>7 DEF IInv, Whole, Posts, Transfers
  <2>8. Faulted(pte)'
    BY <1>1, <1>7, <2>4, <2>5 DEF IInv, Whole, Faulted
  <2>9. Marked(pte, work)'
    BY <1>1, <1>7, <2>4, <2>5 DEF IInv, Whole, Marked
  <2>10. Kept(pte, work)'
    <3>1. \A q \in Page : Saved(pte, q)' = Saved(pte, q)
      BY <1>1, <2>4 DEF Saved
    <3>2. \A q \in Page \ stale' : pte'[q].pfn # NoFrame => mem'[pte'[q].pfn] = latest'[q]
      BY <1>1, <2>4 DEF IInv, Whole, Kept
    <3>3. \A q \in Page \ stale' :
            pte'[q].pfn = NoFrame \/ (pte'[q].valid /\ ~pte'[q].modify) => Saved(pte, q)' = latest'[q]
      BY <1>1, <2>4, <3>1 DEF IInv, Whole, Kept
    <3>4. UNCHANGED <<pc, work>>
      BY <1>7
    <3> QED BY <1>1, <3>2, <3>3, <3>4, <2>5 DEF IInv, Whole, Kept
  <2>11. Owed(chan, work, forgotten)'
    BY <1>1, <1>7 DEF IInv, Owed, AtWork
  <2>12. FaultTyped' /\ OthersTyped'
    BY <1>1, <1>2, <1>7, <2>3 DEF IInv, Typed, FaultTyped, OthersTyped
  <2> QED BY <2>5, <2>6, <2>7, <2>8, <2>9, <2>10, <2>11, <2>12 DEF IInv, Whole, Typed
<1>8. CASE /\ va' = p /\ ~pte[p].wired /\ pte[p].valid /\ pte[p].modify
           /\ pte' = [pte EXCEPT ![p].wired = TRUE, ![p].valid = FALSE]
           /\ work' = [work EXCEPT ![Daemon].out = [q \in {p} |-> pte[p].pfn]]
           /\ pc' = [pc EXCEPT ![Daemon] = "pageout"]
           /\ UNCHANGED <<tlb, free, chan, needed>>
  <2> DEFINE e == [pte[p] EXCEPT !.wired = TRUE, !.valid = FALSE]
             o == [q \in {p} |-> pte[p].pfn]
             w == [work[Daemon] EXCEPT !.out = o]
  <2>1. /\ e \in Entry /\ e.pfn = pte[p].pfn /\ ~e.valid /\ e.wired
        /\ e.backing = pte[p].backing /\ e.allocated = pte[p].allocated
    BY <1>2 DEF Entry
  <2>2. pte' = [pte EXCEPT ![p] = e] /\ work' = [work EXCEPT ![Daemon] = w]
    BY <1>8
  <2>3. pte[p].pfn # NoFrame /\ pte[p].pfn \in Frame /\ pte[p].allocated
    BY <1>2, <1>8 DEF IInv, Whole, Entries, Entry
  <2>4. w \in Call /\ w.out = o /\ DOMAIN o = {p} /\ o[p] = pte[p].pfn
    <3>1. o \in [{p} -> Frame] /\ {p} \in SUBSET Page
      BY <1>2, <2>3
    <3>2. o \in UNION {[D -> Frame] : D \in SUBSET Page}
      BY <3>1
    <3>3. DOMAIN o = {p} /\ o[p] = pte[p].pfn
      OBVIOUS
    <3> HIDE DEF o
    <3> QED BY <1>2, <3>2, <3>3 DEF Call
  <2> HIDE DEF e, p, o, w
  <2>5. pte' \in [Page -> Entry] /\ pte'[p] = e /\ \A q \in Page \ {p} : pte'[q] = pte[q]
    BY <1>2, <2>1, <2>2, EntrySet
  <2>6. /\ work' \in [Actor -> Call] /\ work'[Daemon] = w
        /\ \A x \in Actor \ {Daemon} : work'[x] = work[x]
    BY <1>2, <2>2, <2>4
  <2>7. /\ pc' \in [Actor -> {"run", "busy", "asleep", "scan"} \cup Faults \cup Transfers]
        /\ pc'[Daemon] = "pageout" /\ \A x \in Actor \ {Daemon} : pc'[x] = pc[x]
        /\ \A u \in Proc : pc'[u] = pc[u] /\ u \in Actor \ {Daemon}
    BY <1>2, <1>3, <1>8 DEF Transfers
  <2>8. \A x \in Actor, q \in Page :
          /\ Carries(work, x, q) => x # Daemon /\ q # p
          /\ Carries(work, x, q)' <=> Carries(work, x, q) \/ (x = Daemon /\ q = p)
    <3>1. \A x \in Actor : ~Carries(work, x, p)
      BY <1>2, <1>8 DEF IInv, Whole, Paging
    <3>2. \A q \in Page : ~Carries(work, Daemon, q)
      BY <1>4 DEF Carries
    <3> QED BY <1>1, <1>2, <1>10, <2>4, <2>6, <3>1, <3>2 DEF Carries, Intact
  <2>9. \A u \in Proc, q \in Page : /\ AtFault(u, q)' <=> AtFault(u, q)
                                    /\ AtFault(u, q) => q # p
    BY <1>1, <1>2, <1>8, <2>7 DEF IInv, Whole, Faulted, AtFault
  <2>10. Entries(pte)'
    BY <2>1, <2>3, <2>5 DEF IInv, Whole, Entries
  <2>11. Shares(pte)'
    <3>1. \A q \in Page : pte'[q].pfn = pte[q].pfn
      BY <2>1, <2>5
    <3>2. UNCHANGED <<free, frame>>
      BY <1>1, <1>8
    <3> QED BY <3>1, <3>2 DEF IInv, Whole, Shares
  <2>12. Posts(work)'
    BY <1>1, <1>8, <2>4, <2>6, <2>7 DEF IInv, Whole, Posts, Transfers
  <2>13. Faulted(pte)'
    BY <2>5, <2>7, <2>9 DEF IInv, Whole, Faulted
  <2>14. Paging(pte, work)'
    <3> SUFFICES ASSUME NEW x \in Actor, NEW q \in Page, Carries(work, x, q)'
                 PROVE  /\ pte'[q].wired /\ work'[x].out[q] = pte'[q].pfn /\ pte'[q].pfn # NoFrame
                        /\ pte'[q].allocated /\ \A y \in Actor : Carries(work, y, q)' => x = y
      BY DEF Paging
    <3>1. CASE x = Daemon /\ q = p
      BY <2>1, <2>3, <2>4, <2>5, <2>6, <2>8, <3>1
    <3>2. CASE Carries(work, x, q)
      <4>1. x # Daemon /\ q # p /\ work'[x] = work[x]
        BY <2>6, <2>8, <3>2
      <4> QED BY <2>5, <2>8, <3>2, <4>1 DEF IInv, Whole, Paging
    <3> QED BY <2>8, <3>1, <3>2
  <2>15. Marked(pte, work)'
    BY <1>2, <2>5, <2>8, <2>9 DEF IInv, Whole, Marked
  <2>16. Kept(pte, work)'
    <3>1. ASSUME NEW q \in Page \ stale'
          PROVE  /\ pte'[q].pfn # NoFrame => mem'[pte'[q].pfn] = latest'[q]
                 /\ pte'[q].pfn = NoFrame \/ (pte'[q].valid /\ ~pte'[q].modify) => Saved(pte, q)' = latest'[q]
      <4>1. CASE q = p BY <1>1, <2>1, <2>3, <2>5, <4>1 DEF IInv, Whole, Kept
      <4>2. CASE q # p BY <1>1, <2>5, <4>2 DEF IInv, Whole, Kept, Saved
      <4> QED BY <4>1, <4>2
    <3>2. \A u \in Proc : pc'[u] = "enter" => mem'[frame'[u]] = store'[op'[u].page]
      BY <1>1, <2>7 DEF IInv, Whole, Kept
    <3>3. ASSUME NEW x \in Actor, NEW q \in Page \ stale', pc'[x] = "cleaned", Carries(work, x, q)'
          PROVE  store'[q] = latest'[q]
      <4>1. Carries(work, x, q) /\ pc[x] = "cleaned"
        BY <2>7, <2>8, <3>3
      <4> QED BY <1>1, <3>3, <4>1 DEF IInv, Whole, Kept
    <3> QED BY <3>1, <3>2, <3>3 DEF Kept
  <2>17. Owed(chan, work, forgotten)'
    <3>1. \A q \in Page : AtWork(work, q) => AtWork(work, q)'
      BY <1>1, <1>2, <1>4, <2>6, <2>7, AtWorkStep
    <3> QED BY <1>1, <1>8, <3>1 DEF IInv, Owed
  <2>19. Stuck(work)'
    BY <1>1, <1>2, <1>10, <2>6, <2>7, StuckStep DEF IInv, Whole
  <2>18. FaultTyped' /\ OthersTyped'
    BY <1>1, <1>2, <1>8, <2>5, <2>6, <2>7 DEF IInv, Typed, FaultTyped, OthersTyped
  <2> QED BY <2>10, <2>11, <2>12, <2>13, <2>14, <2>15, <2>16, <2>17, <2>18, <2>19 DEF IInv, Whole, Typed
<1>9. CASE /\ va' = p /\ ~pte[p].wired /\ pte[p].valid /\ ~pte[p].modify
           /\ pte' = [pte EXCEPT ![p] = [pte[p] EXCEPT !.valid = FALSE, !.pfn = NoFrame, !.ref = FALSE]]
           /\ tlb' = {} /\ free' = free \cup {pte[p].pfn}
           /\ chan' = Wakeup(Wakeup(chan, CoreMap), PageChan(p))
           /\ UNCHANGED <<pc, work, needed>>
  <2> DEFINE e == [pte[p] EXCEPT !.valid = FALSE, !.pfn = NoFrame, !.ref = FALSE]
  <2>1. /\ e \in Entry /\ e.pfn = NoFrame /\ ~e.valid /\ ~e.wired
        /\ e.backing = pte[p].backing /\ e.allocated = pte[p].allocated
    BY <1>2, <1>9 DEF Entry
  <2>2. pte' = [pte EXCEPT ![p] = e]
    BY <1>9
  <2>3. pte[p].pfn # NoFrame /\ pte[p].pfn \in Frame /\ pte[p].allocated
    BY <1>2, <1>9 DEF IInv, Whole, Entries, Entry
  <2> HIDE DEF e, p
  <2>4. pte' \in [Page -> Entry] /\ pte'[p] = e /\ \A q \in Page \ {p} : pte'[q] = pte[q]
    BY <1>2, <2>1, <2>2, EntrySet
  <2>5. \A x \in Actor, q \in Page : /\ Carries(work, x, q)' <=> Carries(work, x, q)
                                     /\ Carries(work, x, q) => q # p
    BY <1>1, <1>2, <1>9 DEF IInv, Whole, Paging, Carries
  <2>6. \A u \in Proc, q \in Page : /\ AtFault(u, q)' <=> AtFault(u, q)
                                    /\ AtFault(u, q) => q # p
    BY <1>1, <1>2, <1>9 DEF IInv, Whole, Faulted, AtFault
  <2>7. Entries(pte)'
    BY <2>1, <2>3, <2>4 DEF IInv, Whole, Entries
  <2>8. Shares(pte)' /\ free' \subseteq Frame
    <3>1. PICK R \in SUBSET Page : R = {p}
      BY <1>2
    <3>2. /\ \A q \in Page : pte'[q].pfn = (IF q \in R THEN NoFrame ELSE pte[q].pfn)
          /\ free' = free \cup ({pte[q].pfn : q \in R} \ {NoFrame})
      BY <1>9, <2>1, <2>3, <2>4, <3>1
    <3>3. PICK pt \in [Page -> Entry] : pt = pte
      BY <1>2
    <3> QED BY <1>1, <1>2, <3>2, <3>3, SharesReleased DEF IInv, Whole
  <2>9. Posts(work)'
    BY <1>1, <1>9 DEF IInv, Whole, Posts, Transfers
  <2>10. Faulted(pte)'
    BY <1>9, <2>4, <2>6 DEF IInv, Whole, Faulted
  <2>11. Paging(pte, work)'
    BY <1>9, <2>4, <2>5 DEF IInv, Whole, Paging
  <2>12. Marked(pte, work)'
    BY <2>1, <2>4, <2>5, <2>6 DEF IInv, Whole, Marked
  <2>13. Kept(pte, work)'
    <3>1. \A q \in Page : Saved(pte, q)' = Saved(pte, q)
      BY <1>1, <2>1, <2>4 DEF Saved
    <3>2. ASSUME NEW q \in Page \ stale'
          PROVE  /\ pte'[q].pfn # NoFrame => mem'[pte'[q].pfn] = latest'[q]
                 /\ pte'[q].pfn = NoFrame \/ (pte'[q].valid /\ ~pte'[q].modify) => Saved(pte, q)' = latest'[q]
      <4>1. CASE q = p BY <1>1, <1>9, <2>1, <2>4, <3>1, <4>1 DEF IInv, Whole, Kept
      <4>2. CASE q # p BY <1>1, <2>4, <3>1, <4>2 DEF IInv, Whole, Kept
      <4> QED BY <4>1, <4>2
    <3> QED BY <1>1, <1>9, <2>5, <3>2 DEF IInv, Whole, Kept
  <2>14. Owed(chan, work, forgotten)'
    <3>1. \A u \in Proc, q \in Page : chan'[u] = PageChan(q) => chan[u] = PageChan(q) /\ q # p
      BY <1>3, <1>9, Channels DEF Wakeup
    <3> QED BY <1>1, <1>9, <3>1 DEF IInv, Owed, AtWork
  <2>17. Stuck(work)'
    BY <1>1, <1>9 DEF IInv, Whole, Stuck
  <2>15. chan' \in [Actor -> Channel]
    BY <1>2, <1>9, WakeupTyped
  <2>16. FaultTyped' /\ OthersTyped'
    BY <1>1, <1>2, <1>9, <2>4, <2>8, <2>15 DEF IInv, Typed, FaultTyped, OthersTyped
  <2> QED BY <2>7, <2>8, <2>9, <2>10, <2>11, <2>12, <2>13, <2>14, <2>16, <2>17 DEF IInv, Whole, Typed
<1> QED
  BY <1>5, <1>6, <1>7, <1>8, <1>9 DEF DaemonScans
----------------------------------------------------------------------------
(* pmap_clean.                                                             *)

\* An entry that is marked for the host, one that is released, one that is clean.
Sent(e) == [e EXCEPT !.wired = TRUE, !.valid = FALSE]
Dropped(e) == [e EXCEPT !.valid = FALSE, !.ref = FALSE, !.pfn = NoFrame]
Cleaned(e) == [e EXCEPT !.modify = FALSE, !.backing = TRUE, !.wired = FALSE, !.valid = TRUE]

LEMMA EntryChanges ==
  ASSUME NEW e \in Entry
  PROVE  /\ Sent(e) \in Entry /\ Sent(e).wired /\ ~Sent(e).valid /\ Sent(e).pfn = e.pfn
         /\ Sent(e).backing = e.backing /\ Sent(e).allocated = e.allocated
         /\ Dropped(e) \in Entry /\ Dropped(e).wired = e.wired /\ ~Dropped(e).valid
         /\ Dropped(e).pfn = NoFrame /\ Dropped(e).backing = e.backing
         /\ Dropped(e).allocated = e.allocated
         /\ Cleaned(e) \in Entry /\ ~Cleaned(e).wired /\ Cleaned(e).valid /\ ~Cleaned(e).modify
         /\ Cleaned(e).backing /\ Cleaned(e).pfn = e.pfn /\ Cleaned(e).allocated = e.allocated
BY DEF Entry, Sent, Dropped, Cleaned, NoFrame

\* What the sweep finds: the table as the last batch left it, and nobody but t
\* with other work than before.
SweepFinds(t, w, pt, c, wk, fg) ==
  /\ pt \in [Page -> Entry] /\ w \in Call /\ c \in [Actor -> Channel] /\ wk \in [Actor -> Call]
  /\ free \subseteq Frame
  /\ pc \in [Actor -> {"run", "busy", "asleep", "scan"} \cup Faults \cup Transfers]
  /\ wk[t] = w /\ DOMAIN w.out = {} /\ \A x \in Actor \ {t} : wk[x] = work[x]
  /\ Intact(t) /\ op \in [Proc -> [page: Page, write: BOOLEAN]]
  /\ work \in [Actor -> Call] /\ pc[t] \in {"run", "cleaned"}
  /\ Whole(pt, wk) /\ Owed(c, wk, fg)
  /\ UNCHANGED <<mem, store, latest, stale, op, frame, va, torn>>
Swept == /\ pte' \in [Page -> Entry] /\ free' \subseteq Frame /\ chan' \in [Actor -> Channel]
         /\ pc' \in [Actor -> {"run", "busy", "asleep", "scan"} \cup Faults \cup Transfers]
         /\ work' \in [Actor -> Call]
         /\ Whole(pte, work)' /\ Owed(chan, work, forgotten)'

\* The next batch is marked and sent.
Sends(t, w, pt, c, b, next, wake) ==
  /\ pte' = [p \in Page |-> IF p \in b THEN Sent(pt[p]) ELSE pt[p]]
  /\ work' = [work EXCEPT ![t] = [w EXCEPT !.out = [p \in b |-> pt[p].pfn],
                                           !.next = next, !.wake = wake]]
  /\ pc' = [pc EXCEPT ![t] = "pageout"] /\ chan' = c /\ free' = free

LEMMA SweepSends ==
  ASSUME NEW t \in Proc, NEW w, NEW pt, NEW c, NEW wk, SweepFinds(t, w, pt, c, wk, forgotten'),
         NEW b \in SUBSET Page, \A p \in b : pt[p].valid /\ pt[p].modify,
         NEW next \in Nat, NEW wake \in Nat, Sends(t, w, pt, c, b, next, wake)
  PROVE  Swept
<1> DEFINE o == [p \in b |-> pt[p].pfn]
           v == [w EXCEPT !.out = o, !.next = next, !.wake = wake]
<1>0. /\ pt \in [Page -> Entry] /\ w \in Call /\ c \in [Actor -> Channel] /\ wk \in [Actor -> Call]
      /\ free \subseteq Frame
      /\ pc \in [Actor -> {"run", "busy", "asleep", "scan"} \cup Faults \cup Transfers]
      /\ wk[t] = w /\ DOMAIN w.out = {} /\ \A x \in Actor \ {t} : wk[x] = work[x]
      /\ op \in [Proc -> [page: Page, write: BOOLEAN]] /\ Intact(t)
      /\ work \in [Actor -> Call] /\ pc[t] \in {"run", "cleaned"}
      /\ Whole(pt, wk) /\ Owed(c, wk, forgotten')
      /\ UNCHANGED <<mem, store, latest, stale, op, frame, va, torn>>
  BY DEF SweepFinds
<1>1. t \in Actor /\ t # Daemon /\ Daemon \in Actor /\ \A u \in Proc : u \in Actor
  BY PagerAssumption DEF Actor
<1>2. \A p \in b : /\ p \in Page /\ ~pt[p].wired /\ pt[p].pfn # NoFrame /\ pt[p].pfn \in Frame
                   /\ pt[p].allocated
  <2>1. \A p \in Page : pt[p] \in Entry
    BY <1>0
  <2> QED BY <1>0, <2>1 DEF Whole, Entries, Entry
<1>3. v \in Call /\ v.out = o /\ DOMAIN o = b /\ \A p \in b : o[p] = pt[p].pfn
  <2>1. o \in [b -> Frame]
    BY <1>2
  <2>2. o \in UNION {[D -> Frame] : D \in SUBSET Page}
    BY <2>1
  <2>3. DOMAIN o = b /\ \A p \in b : o[p] = pt[p].pfn
    OBVIOUS
  <2> HIDE DEF o
  <2> QED BY <1>0, <2>2, <2>3 DEF Call
<1>4. /\ work' = [work EXCEPT ![t] = v] /\ pc' = [pc EXCEPT ![t] = "pageout"]
      /\ chan' = c /\ free' = free
  BY DEF Sends
<1> HIDE DEF o, v
<1>5. /\ work' \in [Actor -> Call] /\ work'[t] = v /\ DOMAIN work'[t].out = b
      /\ \A x \in Actor \ {t} : work'[x] = wk[x]
  BY <1>0, <1>1, <1>3, <1>4
<1>6. /\ pc' \in [Actor -> {"run", "busy", "asleep", "scan"} \cup Faults \cup Transfers]
      /\ pc'[t] = "pageout" /\ \A x \in Actor \ {t} : pc'[x] = pc[x]
  BY <1>0, <1>1, <1>4 DEF Transfers
<1>7. /\ pte' \in [Page -> Entry] /\ \A p \in Page \ b : pte'[p] = pt[p]
      /\ \A p \in b : /\ pte'[p].wired /\ ~pte'[p].valid /\ pte'[p].pfn = pt[p].pfn
                      /\ pte'[p].backing = pt[p].backing /\ pte'[p].allocated = pt[p].allocated
  <2>1. \A p \in b : pte'[p] = Sent(pt[p]) /\ pt[p] \in Entry
    BY <1>0 DEF Sends
  <2>2. \A p \in Page \ b : pte'[p] = pt[p]
    BY DEF Sends
  <2>3. pte' \in [Page -> Entry]
    BY <1>0, EntryChanges DEF Sends
  <2> QED BY <2>1, <2>2, <2>3, EntryChanges
<1>8. \A p \in Page : pte'[p].pfn = pt[p].pfn
  BY <1>7
<1>9. \A x \in Actor, q \in Page :
        /\ Carries(wk, x, q) => x # t /\ q \notin b
        /\ Carries(work, x, q)' <=> Carries(wk, x, q) \/ (x = t /\ q \in b)
  <2>1. \A x \in Actor, q \in b : ~Carries(wk, x, q)
    BY <1>0, <1>2 DEF Whole, Paging
  <2>2. \A q \in Page : ~Carries(wk, t, q)
    BY <1>0 DEF Carries
  <2> QED BY <1>0, <1>1, <1>5, <2>1, <2>2 DEF Carries, Intact
<1>11. ASSUME NEW u \in Proc PROVE (u # t => pc'[u] = pc[u]) /\ u \in Actor \ {Daemon}
  BY <1>1, <1>6, PagerAssumption
<1>12. Entries(pte)'
  BY <1>0, <1>2, <1>7 DEF Whole, Entries
<1>13. Shares(pte)'
  <2>1. Shares(pt) /\ free' = free /\ frame' = frame
    BY <1>0, <1>4 DEF Whole
  <2> QED BY <1>8, <2>1 DEF Shares
<1>14. Posts(work)'
  BY <1>0, <1>1, <1>5, <1>6, <1>11 DEF Whole, Posts, Transfers, Faults
<1>10. \A u \in Proc, q \in Page :
         /\ AtFault(u, q)' <=> AtFault(u, q)
         /\ AtFault(u, q) => q \notin b /\ pc'[u] = pc[u]
  <2>1. \A u \in Proc, q \in b : ~AtFault(u, q)
    BY <1>0, <1>2 DEF Whole, Faulted
  <2> QED BY <1>0, <1>6, <1>11, <2>1 DEF AtFault, Faults
<1>15. Faulted(pte)'
  BY <1>0, <1>7, <1>10 DEF Whole, Faulted
<1>16. Paging(pte, work)'
  <2> SUFFICES ASSUME NEW x \in Actor, NEW q \in Page, Carries(work, x, q)'
               PROVE  /\ pte'[q].wired /\ work'[x].out[q] = pte'[q].pfn /\ pte'[q].pfn # NoFrame
                      /\ pte'[q].allocated /\ \A y \in Actor : Carries(work, y, q)' => x = y
    BY DEF Paging
  <2>1. CASE x = t /\ q \in b
    <3>1. work'[x].out[q] = pt[q].pfn
      BY <1>3, <1>5, <2>1
    <3> QED BY <1>2, <1>7, <1>9, <2>1, <3>1
  <2>2. CASE Carries(wk, x, q)
    <3>1. x # t /\ q \notin b /\ work'[x] = wk[x]
      BY <1>5, <1>9, <2>2
    <3> QED BY <1>0, <1>7, <1>9, <2>2, <3>1 DEF Whole, Paging
  <2> QED BY <1>9, <2>1, <2>2
<1>17. Marked(pte, work)'
  BY <1>0, <1>1, <1>7, <1>9, <1>10 DEF Whole, Marked
<1>18. Kept(pte, work)'
  <2>1. \A q \in Page : Saved(pte, q)' = Saved(pt, q)
    BY <1>0, <1>7 DEF Saved
  <2>2. ASSUME NEW q \in Page \ stale'
        PROVE  /\ pte'[q].pfn # NoFrame => mem'[pte'[q].pfn] = latest'[q]
               /\ pte'[q].pfn = NoFrame \/ (pte'[q].valid /\ ~pte'[q].modify) => Saved(pte, q)' = latest'[q]
    <3>1. CASE q \in b
      <4>1. mem[pt[q].pfn] = latest[q] /\ pte'[q].pfn = pt[q].pfn /\ ~pte'[q].valid /\ pt[q].pfn # NoFrame
        BY <1>0, <1>2, <1>7, <3>1 DEF Whole, Kept
      <4> QED BY <1>0, <4>1
    <3>2. CASE q \notin b BY <1>0, <1>7, <2>1, <3>2 DEF Whole, Kept
    <3> QED BY <3>1, <3>2
  <2>3. ASSUME NEW u \in Proc, pc'[u] = "enter" PROVE mem'[frame'[u]] = store'[op'[u].page]
    BY <1>0, <1>6, <1>11, <2>3 DEF Whole, Kept
  <2>4. ASSUME NEW x \in Actor, NEW q \in Page \ stale', pc'[x] = "cleaned", Carries(work, x, q)'
        PROVE  store'[q] = latest'[q]
    <3>1. Carries(wk, x, q) /\ pc[x] = "cleaned"
      BY <1>6, <1>9, <2>4
    <3> QED BY <1>0, <2>4, <3>1 DEF Whole, Kept
  <2> QED BY <2>2, <2>3, <2>4 DEF Kept
<1>19. Owed(chan, work, forgotten)'
  <2>1. \A q \in Page : AtWork(wk, q) => AtWork(work, q)'
    BY <1>0, <1>1, <1>5, <1>6, AtWorkStep DEF Faults
  <2> QED BY <1>0, <1>4, <2>1 DEF Owed
<1>20. Stuck(work)'
  BY <1>0, <1>1, <1>5, <1>6, StuckStep DEF Whole
<1> QED
  BY <1>0, <1>4, <1>5, <1>6, <1>7, <1>12, <1>13, <1>14, <1>15, <1>16, <1>17, <1>18, <1>19, <1>20
     DEF Swept, Whole

\* The sweep ends; the pages R, which are clean, are released.
Ends(t, pt, c, R) ==
  /\ pte' = [p \in Page |-> IF p \in R THEN Dropped(pt[p]) ELSE pt[p]]
  /\ free' = free \cup {pt[p].pfn : p \in R}
  /\ chan' \in {c, Wakeup(c, CoreMap)}
  /\ pc' = [pc EXCEPT ![t] = "run"]
  /\ work' = [work EXCEPT ![t] = NoWork]

LEMMA SweepEnds ==
  ASSUME NEW t \in Proc, NEW w, NEW pt, NEW c, NEW wk, SweepFinds(t, w, pt, c, wk, forgotten'),
         NEW R \in SUBSET Page, \A p \in R : pt[p].valid /\ ~pt[p].wired /\ ~pt[p].modify,
         Ends(t, pt, c, R)
  PROVE  Swept
<1>0. /\ pt \in [Page -> Entry] /\ w \in Call /\ c \in [Actor -> Channel] /\ wk \in [Actor -> Call]
      /\ free \subseteq Frame
      /\ pc \in [Actor -> {"run", "busy", "asleep", "scan"} \cup Faults \cup Transfers]
      /\ wk[t] = w /\ DOMAIN w.out = {} /\ \A x \in Actor \ {t} : wk[x] = work[x]
      /\ op \in [Proc -> [page: Page, write: BOOLEAN]] /\ Intact(t)
      /\ work \in [Actor -> Call] /\ pc[t] \in {"run", "cleaned"}
      /\ Whole(pt, wk) /\ Owed(c, wk, forgotten')
      /\ UNCHANGED <<mem, store, latest, stale, op, frame, va, torn>>
  BY DEF SweepFinds
<1>1. t \in Actor /\ t # Daemon /\ Daemon \in Actor /\ \A u \in Proc : u \in Actor
  BY PagerAssumption DEF Actor
<1>2. \A p \in R : pt[p].pfn # NoFrame
  BY <1>0 DEF Whole, Entries
<1>3. /\ work' = [work EXCEPT ![t] = NoWork] /\ pc' = [pc EXCEPT ![t] = "run"]
      /\ chan' \in {c, Wakeup(c, CoreMap)} /\ free' = free \cup {pt[p].pfn : p \in R}
  BY DEF Ends
<1>4. /\ work' \in [Actor -> Call] /\ DOMAIN work'[t].out = {}
      /\ \A x \in Actor \ {t} : work'[x] = wk[x]
  BY <1>0, <1>1, <1>3, NoWorkTyped
<1>5. /\ pc' \in [Actor -> {"run", "busy", "asleep", "scan"} \cup Faults \cup Transfers]
      /\ pc'[t] = "run" /\ \A x \in Actor \ {t} : pc'[x] = pc[x]
  BY <1>0, <1>1, <1>3
<1>6. /\ pte' \in [Page -> Entry] /\ \A p \in Page \ R : pte'[p] = pt[p]
      /\ \A p \in R : /\ pte'[p].wired = pt[p].wired /\ ~pte'[p].valid /\ pte'[p].pfn = NoFrame
                      /\ pte'[p].backing = pt[p].backing /\ pte'[p].allocated = pt[p].allocated
  <2>1. \A p \in R : pte'[p] = Dropped(pt[p]) /\ pt[p] \in Entry
    BY <1>0 DEF Ends
  <2>2. \A p \in Page \ R : pte'[p] = pt[p]
    BY DEF Ends
  <2>3. pte' \in [Page -> Entry]
    BY <1>0, EntryChanges DEF Ends
  <2> QED BY <2>1, <2>2, <2>3, EntryChanges
<1>7. \A x \in Actor, q \in Page : /\ Carries(work, x, q)' <=> Carries(wk, x, q)
                                   /\ Carries(wk, x, q) => x # t /\ q \notin R
  <2>1. \A x \in Actor, q \in R : ~Carries(wk, x, q)
    BY <1>0 DEF Whole, Paging
  <2>2. \A q \in Page : ~Carries(wk, t, q)
    BY <1>0 DEF Carries
  <2> QED BY <1>0, <1>1, <1>4, <2>1, <2>2 DEF Carries
<1>9. ASSUME NEW u \in Proc PROVE (u # t => pc'[u] = pc[u]) /\ u \in Actor \ {Daemon}
  BY <1>1, <1>5, PagerAssumption
<1>10. \A x \in Actor : DOMAIN work'[x].out = DOMAIN wk[x].out
  BY <1>0, <1>4
<1>11. Entries(pte)'
  <2>1. \A p \in R : pt[p].allocated /\ ~pt[p].wired
    BY <1>0 DEF Whole, Entries
  <2>2. Entries(pt)
    BY <1>0 DEF Whole
  <2> QED BY <1>6, <2>1, <2>2 DEF Entries
<1>12. Shares(pte)' /\ free' \subseteq Frame
  <2>1. Shares(pt) /\ frame' = frame
    BY <1>0 DEF Whole
  <2>2. free' = free \cup ({pt[p].pfn : p \in R} \ {NoFrame})
    BY <1>2, <1>3
  <2>3. \A p \in Page : pte'[p].pfn = (IF p \in R THEN NoFrame ELSE pt[p].pfn)
    BY <1>6
  <2>4. PICK qt \in [Page -> Entry] : qt = pt
    BY <1>0
  <2> QED BY <1>0, <2>1, <2>2, <2>3, <2>4, SharesReleased
<1>13. Posts(work)'
  BY <1>0, <1>1, <1>4, <1>5, <1>9 DEF Whole, Posts, Transfers, Faults
<1>8. \A u \in Proc, q \in Page : /\ AtFault(u, q)' <=> AtFault(u, q)
                                  /\ AtFault(u, q) => q \notin R /\ pc'[u] = pc[u]
  <2>1. \A u \in Proc, q \in R : ~AtFault(u, q)
    BY <1>0 DEF Whole, Faulted
  <2> QED BY <1>0, <1>5, <1>9, <2>1 DEF AtFault, Faults
<1>14. Faulted(pte)'
  BY <1>0, <1>6, <1>8 DEF Whole, Faulted
<1>15. Paging(pte, work)'
  BY <1>0, <1>4, <1>6, <1>7 DEF Whole, Paging
<1>16. Marked(pte, work)'
  BY <1>0, <1>6, <1>7, <1>8 DEF Whole, Marked
<1>17. Kept(pte, work)'
  <2>1. \A q \in Page : Saved(pte, q)' = Saved(pt, q)
    BY <1>0, <1>6 DEF Saved
  <2>2. ASSUME NEW q \in Page \ stale'
        PROVE  /\ pte'[q].pfn # NoFrame => mem'[pte'[q].pfn] = latest'[q]
               /\ pte'[q].pfn = NoFrame \/ (pte'[q].valid /\ ~pte'[q].modify) => Saved(pte, q)' = latest'[q]
    <3>1. CASE q \in R
      <4>1. Saved(pt, q) = latest[q] /\ pte'[q].pfn = NoFrame
        BY <1>0, <1>6, <3>1 DEF Whole, Kept
      <4> QED BY <1>0, <2>1, <4>1
    <3>2. CASE q \notin R BY <1>0, <1>6, <2>1, <3>2 DEF Whole, Kept
    <3> QED BY <3>1, <3>2
  <2>3. ASSUME NEW u \in Proc, pc'[u] = "enter" PROVE mem'[frame'[u]] = store'[op'[u].page]
    BY <1>0, <1>5, <1>9, <2>3 DEF Whole, Kept
  <2>4. ASSUME NEW x \in Actor, NEW q \in Page \ stale', pc'[x] = "cleaned", Carries(work, x, q)'
        PROVE  store'[q] = latest'[q]
    <3>1. Carries(wk, x, q) /\ pc[x] = "cleaned"
      BY <1>5, <1>7, <2>4
    <3> QED BY <1>0, <2>4, <3>1 DEF Whole, Kept
  <2> QED BY <2>2, <2>3, <2>4 DEF Kept
<1>18. Owed(chan, work, forgotten)'
  <2>1. \A u \in Proc, q \in Page : chan'[u] = PageChan(q) => c[u] = PageChan(q)
    BY <1>1, <1>3, Channels DEF Wakeup
  <2>2. \A q \in Page : AtWork(wk, q) => AtWork(work, q)'
    BY <1>0, <1>1, <1>4, <1>5, AtWorkStep DEF Faults
  <2> QED BY <1>0, <2>1, <2>2 DEF Owed
<1>20. Stuck(work)'
  BY <1>0, <1>1, <1>4, <1>5, StuckStep DEF Whole
<1>19. chan' \in [Actor -> Channel]
  <2>1. PICK d \in [Actor -> Channel] : d = c
    BY <1>0
  <2>2. chan' \in {d, Wakeup(d, CoreMap)}
    BY <1>3, <2>1
  <2> QED BY <2>2, WakeupTyped
<1> QED
  BY <1>4, <1>5, <1>6, <1>11, <1>12, <1>13, <1>14, <1>15, <1>16, <1>17, <1>18, <1>19, <1>20 DEF Swept, Whole

LEMMA SweepStep ==
  ASSUME NEW t \in Proc, NEW w, NEW pt, NEW c, NEW wk, SweepFinds(t, w, pt, c, wk, forgotten'),
         Sweep(t, w, pt, c)
  PROVE  Swept
<1> DEFINE dirty == {p \in w.next..w.end-1 : pt[p].valid /\ pt[p].modify}
           b == LowestOf(dirty)
           full == Cardinality(b) = Batch
           next == IF full THEN Max(b) + 1 ELSE w.end
           wake == IF full THEN Max(b) ELSE w.end
           freed == {p \in w.first..w.end-1 : pt[p].valid /\ ~pt[p].wired /\ ~pt[p].modify}
<1>1. NPages \in Nat /\ w.next \in Nat /\ w.first \in Nat /\ w.end \in 0..NPages
  BY PagerAssumption DEF SweepFinds, Call
<1>2. w.next..w.end-1 \subseteq Page /\ w.first..w.end-1 \subseteq Page
  BY <1>1 DEF Page
<1>3. CASE /\ dirty # {}
           /\ pte' = [p \in Page |-> IF p \in b THEN [pt[p] EXCEPT !.wired = TRUE, !.valid = FALSE]
                                     ELSE pt[p]]
           /\ work' = [work EXCEPT ![t] = [w EXCEPT !.out = [p \in b |-> pt[p].pfn],
                                                    !.next = next, !.wake = wake]]
           /\ pc' = [pc EXCEPT ![t] = "pageout"]
           /\ chan' = c /\ free' = free
  <2>1. dirty \subseteq Page
    BY <1>2
  <2>2. IsFiniteSet(dirty) /\ dirty \in SUBSET Nat
    <3>1. IsFiniteSet(Page)
      BY <1>1, FS_Interval DEF Page
    <3>2. IsFiniteSet(dirty)
      BY <2>1, <3>1, FS_Subset
    <3> QED BY <2>1, <3>2 DEF Page
  <2>3. b \subseteq dirty /\ (full => b # {})
    <3> HIDE DEF dirty
    <3> QED BY <1>3, <2>2, LowestOfSubset
  <2>4. \A p \in b : pt[p].valid /\ pt[p].modify
    BY <2>3
  <2>5. b \in SUBSET Page
    BY <2>1, <2>3
  <2> HIDE DEF dirty, b
  <2>6. full => Max(b) \in Nat
    <3> SUFFICES ASSUME full PROVE Max(b) \in Nat
      OBVIOUS
    <3>1. IsFiniteSet(b) /\ b # {}
      BY <2>2, <2>3, FS_Subset
    <3>2. b \subseteq Nat
      BY <2>2, <2>3
    <3>3. b \in SUBSET Int
      BY <3>2
    <3>4. Max(b) \in b
      BY <3>1, <3>3, MinMaxIn
    <3> QED BY <3>2, <3>4
  <2>7. next \in Nat /\ wake \in Nat
    BY <1>1, <2>6
  <2> HIDE DEF next, wake
  <2>8. Sends(t, w, pt, c, b, next, wake)
    BY <1>3 DEF Sends, Sent
  <2> QED BY <2>4, <2>5, <2>7, <2>8, SweepSends
<1>4. CASE /\ pte' = [p \in Page |-> IF p \in freed
                                     THEN [pt[p] EXCEPT !.valid = FALSE, !.ref = FALSE, !.pfn = NoFrame]
                                     ELSE pt[p]]
           /\ free' = free \cup {pt[p].pfn : p \in freed}
           /\ chan' = IF freed # {} THEN Wakeup(c, CoreMap) ELSE c
           /\ pc' = [pc EXCEPT ![t] = "run"]
           /\ work' = [work EXCEPT ![t] = NoWork]
  <2>1. freed \in SUBSET Page /\ \A p \in freed : pt[p].valid /\ ~pt[p].wired /\ ~pt[p].modify
    BY <1>2
  <2> HIDE DEF freed
  <2>2. Ends(t, pt, c, freed)
    BY <1>4 DEF Ends, Dropped
  <2> QED BY <2>1, <2>2, SweepEnds
<1>5. CASE /\ pte' = pt /\ chan' = c
           /\ pc' = [pc EXCEPT ![t] = "run"]
           /\ work' = [work EXCEPT ![t] = NoWork]
           /\ free' = free
  <2>1. PICK R \in SUBSET Page : R = {}
    OBVIOUS
  <2>2. Ends(t, pt, c, R)
    <3>1. pte' = [p \in Page |-> IF p \in R THEN Dropped(pt[p]) ELSE pt[p]]
      BY <1>5, <2>1 DEF SweepFinds
    <3>2. free' = free \cup {pt[p].pfn : p \in R}
      BY <1>5, <2>1
    <3> QED BY <1>5, <3>1, <3>2 DEF Ends
  <2> QED BY <2>1, <2>2, SweepEnds
<1> QED
  BY <1>3, <1>4, <1>5 DEF Sweep

LEMMA FlushStep ==
  ASSUME IInv, NEW t \in Proc, NEW first \in Page, NEW end \in 1..NPages, NEW release \in BOOLEAN,
         Flush(t, first, end, release)
  PROVE  IInv'
<1> DEFINE w == [NoWork EXCEPT !.first = first, !.next = first, !.end = end, !.release = release]
<1>1. /\ pc[t] = "run" /\ ops < MaxOps /\ ops' = ops + 1 /\ tlb' \in {{}, tlb}
      /\ Sweep(t, w, pte, chan)
      /\ UNCHANGED <<mem, store, latest, stale, op, frame, va, startva, needed, forgotten, torn>>
  BY DEF Flush, memory, scan, gone
<1>2. w \in Call /\ DOMAIN w.out = {}
  <2>1. first \in Nat /\ end \in 0..NPages
    BY PagerAssumption DEF Page
  <2> QED BY <2>1, NoWorkTyped DEF Call
<1> HIDE DEF w
<1>3. t \in Actor /\ t # Daemon
  BY PagerAssumption DEF Actor
<1>4. /\ pte \in [Page -> Entry] /\ free \subseteq Frame /\ chan \in [Actor -> Channel]
      /\ pc \in [Actor -> {"run", "busy", "asleep", "scan"} \cup Faults \cup Transfers]
      /\ op \in [Proc -> [page: Page, write: BOOLEAN]] /\ work \in [Actor -> Call]
  BY DEF IInv, Typed, FaultTyped, OthersTyped
<1>5. DOMAIN work[t].out = {} /\ Intact(t)
  BY <1>1, <1>3, IntactThere DEF IInv, Whole, Posts, Transfers
<1>6. PICK wk : wk = [work EXCEPT ![t] = w]
  OBVIOUS
<1>7. wk \in [Actor -> Call] /\ wk[t] = w /\ \A x \in Actor \ {t} : wk[x] = work[x]
  BY <1>2, <1>3, <1>4, <1>6
<1>8. \A x \in Actor : DOMAIN wk[x].out = DOMAIN work[x].out /\ (DOMAIN wk[x].out # {} => wk[x] = work[x])
  BY <1>2, <1>5, <1>7
<1>9. Whole(pte, wk)
  <2>1. Daemon \in Actor
    BY DEF Actor
  <2>2. Posts(wk)
    BY <1>8, <2>1 DEF IInv, Whole, Posts
  <2>3. Paging(pte, wk)
    BY <1>8 DEF IInv, Whole, Paging, Carries
  <2>4. Marked(pte, wk)
    BY <1>8 DEF IInv, Whole, Marked, Carries
  <2>5. Kept(pte, wk)
    BY <1>8 DEF IInv, Whole, Kept, Carries
  <2>6. Stuck(wk)
    BY <1>8 DEF IInv, Whole, Stuck
  <2> QED BY <2>2, <2>3, <2>4, <2>5, <2>6 DEF IInv, Whole
<1>16. Owed(chan, wk, forgotten)
  <2>1. \A p \in Page : AtWork(work, p) => AtWork(wk, p)
    BY <1>8 DEF AtWork
  <2> QED BY <2>1 DEF IInv, Owed
<1>10. PICK pt, c : pt = pte /\ c = chan
  OBVIOUS
<1>11. SweepFinds(t, w, pt, c, wk, forgotten')
  BY <1>1, <1>2, <1>4, <1>5, <1>7, <1>9, <1>10, <1>16 DEF SweepFinds
<1>12. Sweep(t, w, pt, c)
  BY <1>1, <1>10
<1>13. PICK v : v = w
  OBVIOUS
<1>14. Swept
  BY <1>11, <1>12, <1>13, SweepStep
<1>15. FaultTyped' /\ OthersTyped'
  BY <1>1, <1>14, PagerAssumption DEF Swept, IInv, Typed, FaultTyped, OthersTyped
<1> QED
  BY <1>14, <1>15 DEF Swept, IInv, Typed

\* The batch that comes back is clean, and those who sleep for another of its
\* pages than the one that is announced are forgotten.
LEMMA BatchCleanedStep ==
  ASSUME IInv, NEW t \in Proc, BatchCleaned(t)
  PROVE  IInv'
<1> DEFINE b == DOMAIN work[t].out
           qt == [p \in Page |-> IF p \in b
                                 THEN [pte[p] EXCEPT !.modify = FALSE, !.backing = TRUE,
                                                     !.wired = FALSE, !.valid = TRUE]
                                 ELSE pte[p]]
           d == Wakeup(chan, PageChan(work[t].wake))
           w == [work[t] EXCEPT !.out = <<>>]
<1>1. /\ pc[t] = "cleaned" /\ Sweep(t, w, qt, d) /\ tlb' = {}
      /\ forgotten' = forgotten \cup {u \in Proc : \E p \in b : d[u] = PageChan(p)}
      /\ UNCHANGED <<mem, store, latest, stale, op, frame, va, startva, needed, ops, torn>>
  BY DEF BatchCleaned, memory, scan, gone
<1>2. /\ pte \in [Page -> Entry] /\ free \subseteq Frame /\ chan \in [Actor -> Channel]
      /\ pc \in [Actor -> {"run", "busy", "asleep", "scan"} \cup Faults \cup Transfers]
      /\ op \in [Proc -> [page: Page, write: BOOLEAN]] /\ work \in [Actor -> Call]
      /\ \A p \in Page : pte[p] \in Entry
  BY DEF IInv, Typed, FaultTyped, OthersTyped
<1>3. t \in Actor /\ t # Daemon /\ Daemon \in Actor /\ \A u \in Proc : u \in Actor
  BY PagerAssumption DEF Actor
<1>4. w \in Call /\ DOMAIN w.out = {}
  <2>1. work[t] \in Call
    BY <1>2, <1>3
  <2>2. <<>> \in UNION {[D -> Frame] : D \in SUBSET Page} /\ DOMAIN <<>> = {}
    BY NoWorkTyped DEF NoWork, Call
  <2> QED BY <2>1, <2>2 DEF Call
<1>5. b \subseteq Page
  BY <1>2, <1>3 DEF Call
<1>25. Intact(t) /\ \A p \in b : Carries(work, t, p)
  BY <1>1, <1>3, <1>5, IntactThere DEF IInv, Whole, Carries, Intact
<1>6. \A p \in b : pte[p].wired /\ pte[p].pfn # NoFrame /\ ~pte[p].valid /\ pte[p].allocated
  BY <1>3, <1>5, <1>25 DEF IInv, Whole, Paging, Entries
<1>7. PICK pt, c, wk, v : pt = qt /\ c = d /\ wk = [work EXCEPT ![t] = w] /\ v = w
  OBVIOUS
<1>8. /\ pt \in [Page -> Entry] /\ \A p \in Page \ b : pt[p] = pte[p]
      /\ \A p \in b : /\ pt[p].valid /\ ~pt[p].wired /\ ~pt[p].modify /\ pt[p].backing
                      /\ pt[p].pfn = pte[p].pfn /\ pt[p].allocated = pte[p].allocated
  <2>1. \A p \in b : pt[p] = Cleaned(pte[p]) /\ pte[p] \in Entry
    BY <1>2, <1>5, <1>7 DEF Cleaned
  <2>2. \A p \in Page \ b : pt[p] = pte[p]
    BY <1>7
  <2>3. pt = [p \in Page |-> IF p \in b THEN Cleaned(pte[p]) ELSE pte[p]]
    BY <1>7 DEF Cleaned
  <2>4. pt \in [Page -> Entry]
    BY <1>2, <2>3, EntryChanges
  <2> QED BY <2>1, <2>2, <2>4, EntryChanges
<1>9. /\ wk \in [Actor -> Call] /\ wk[t] = v /\ v \in Call /\ DOMAIN v.out = {}
      /\ \A x \in Actor \ {t} : wk[x] = work[x]
  BY <1>2, <1>3, <1>4, <1>7
<1>10. c \in [Actor -> Channel]
  BY <1>2, <1>7, WakeupTyped
<1>11. Sweep(t, v, pt, c) /\ forgotten' = forgotten \cup {u \in Proc : \E p \in b : c[u] = PageChan(p)}
  BY <1>1, <1>7
<1>12. Owed(c, wk, forgotten')
  <2> SUFFICES ASSUME NEW u \in Proc, NEW p \in Page, c[u] = PageChan(p), ~AtWork(wk, p)
               PROVE  u \in forgotten'
    BY DEF Owed
  <2>1. chan[u] = PageChan(p)
    BY <1>3, <1>7, Channels DEF Wakeup
  <2>2. CASE p \in b BY <1>11, <2>2
  <2>3. CASE p \notin b
    <3>1. ~AtWork(work, p)
      BY <1>9, <2>3 DEF AtWork
    <3> QED BY <1>11, <2>1, <3>1 DEF IInv, Owed
  <2> QED BY <2>2, <2>3
<1> HIDE DEF b, qt, d, w
<1>13. \A x \in Actor, q \in Page :
         Carries(wk, x, q) <=> Carries(work, x, q) /\ x # t /\ q \notin b
  <2>1. \A x \in Actor, q \in b : Carries(work, x, q) => x = t
    BY <1>3, <1>5, <1>25 DEF IInv, Whole, Paging
  <2> QED BY <1>9, <2>1 DEF Carries
<1>14. \A u \in Proc, q \in Page : AtFault(u, q) => q \notin b
  BY <1>6 DEF IInv, Whole, Faulted
<1>15. Entries(pt)
  BY <1>6, <1>8 DEF IInv, Whole, Entries
<1>16. Shares(pt)
  <2>1. \A p \in Page : pt[p].pfn = pte[p].pfn
    BY <1>8
  <2> QED BY <2>1 DEF IInv, Whole, Shares
<1>17. Posts(wk)
  BY <1>1, <1>3, <1>9 DEF IInv, Whole, Posts
<1>18. Faulted(pt)
  BY <1>8, <1>14 DEF IInv, Whole, Faulted
<1>19. Paging(pt, wk)
  BY <1>8, <1>9, <1>13 DEF IInv, Whole, Paging
<1>20. Marked(pt, wk)
  <2>1. \A q \in Page : pt[q].wired => q \notin b /\ pte[q].wired
    BY <1>8
  <2>2. \A q \in Page : Carries(work, t, q) => q \in b
    BY DEF Carries, b
  <2> QED BY <1>13, <2>1, <2>2 DEF IInv, Whole, Marked
<1>26. Stuck(wk)
  BY <1>9, <1>25 DEF IInv, Whole, Stuck, Intact
<1>21. Kept(pt, wk)
  <2>1. \A q \in Page \ b : Saved(pt, q) = Saved(pte, q)
    BY <1>8 DEF Saved
  <2>2. ASSUME NEW q \in Page \ stale
        PROVE  /\ pt[q].pfn # NoFrame => mem[pt[q].pfn] = latest[q]
               /\ pt[q].pfn = NoFrame \/ (pt[q].valid /\ ~pt[q].modify) => Saved(pt, q) = latest[q]
    <3>1. CASE q \in b
      <4>1. store[q] = latest[q]
        BY <1>1, <1>3, <1>25, <3>1 DEF IInv, Whole, Kept
      <4>2. Saved(pt, q) = latest[q]
        BY <1>8, <3>1, <4>1 DEF Saved
      <4>3. pt[q].pfn = pte[q].pfn /\ mem[pte[q].pfn] = latest[q]
        BY <1>6, <1>8, <3>1 DEF IInv, Whole, Kept
      <4> QED BY <4>2, <4>3
    <3>2. CASE q \notin b BY <1>8, <2>1, <3>2 DEF IInv, Whole, Kept
    <3> QED BY <3>1, <3>2
  <2>3. ASSUME NEW x \in Actor, NEW q \in Page \ stale, pc[x] = "cleaned", Carries(wk, x, q)
        PROVE  store[q] = latest[q]
    BY <1>13, <2>3 DEF IInv, Whole, Kept
  <2> QED BY <2>2, <2>3 DEF Kept, IInv, Whole
<1>22. SweepFinds(t, v, pt, c, wk, forgotten')
  BY <1>1, <1>2, <1>8, <1>9, <1>10, <1>12, <1>15, <1>16, <1>17, <1>18, <1>19, <1>20, <1>21,
     <1>25, <1>26 DEF SweepFinds, Whole
<1>23. Swept
  BY <1>11, <1>22, SweepStep
<1>24. FaultTyped' /\ OthersTyped'
  <2>1. forgotten' \subseteq Proc
    BY <1>11 DEF IInv, Typed, OthersTyped
  <2> QED BY <1>1, <1>23, <2>1 DEF Swept, IInv, Typed, FaultTyped, OthersTyped
<1> QED
  BY <1>23, <1>24 DEF Swept, IInv, Typed
----------------------------------------------------------------------------
(* The specification.                                                      *)

LEMMA InitIInv == Init => IInv
<1> SUFFICES ASSUME Init PROVE IInv
  OBVIOUS
<1>1. /\ NPages \in Nat \ {0} /\ NFrames \in Nat \ {0} /\ 0 \in Page
      /\ Daemon \in Actor /\ Daemon \notin Proc /\ \A t \in Proc : t \in Actor
  BY PagerAssumption DEF Page, Actor
<1>2. AddedPTE \in Entry /\ AddedPTE.allocated /\ ~AddedPTE.valid /\ ~AddedPTE.wired
      /\ AddedPTE.pfn = NoFrame /\ ~AddedPTE.backing
  BY DEF AddedPTE, ZeroPTE, Entry
<1>3. pte \in [Page -> Entry] /\ \A p \in Page : pte[p] = AddedPTE
  BY <1>2 DEF Init
<1>4. work \in [Actor -> Call] /\ \A x \in Actor : DOMAIN work[x].out = {}
  BY NoWorkTyped DEF Init
<1>5. /\ pc \in [Actor -> {"run", "busy", "asleep", "scan"} \cup Faults \cup Transfers]
      /\ pc[Daemon] = "asleep" /\ \A t \in Proc : pc[t] = "run"
  BY <1>1 DEF Init
<1>6. /\ frame \in [Proc -> Frame \cup {NoFrame}] /\ \A t \in Proc : frame[t] = NoFrame
      /\ free = Frame /\ NoFrame \notin Frame
  BY DEF Init, NoFrame, Frame
<1>7. chan \in [Actor -> Channel] /\ \A t \in Proc : chan[t] = Awake
  BY <1>1 DEF Init, Channel
<1>8. /\ mem \in [Frame \cup {NoFrame} -> Nat] /\ store \in [Page -> Nat] /\ latest \in [Page -> Nat]
      /\ \A p \in Page : latest[p] = 0
  BY DEF Init
<1>9. op \in [Proc -> [page: Page, write: BOOLEAN]]
  BY NoOpTyped DEF Init
<1>10. Typed
  <2>1. /\ tlb = {} /\ va = 0 /\ startva = 0 /\ needed = 0 /\ stale = {} /\ forgotten = {} /\ ops = 0
        /\ 0 \in 0..2*NFrames /\ 0 \in 0..MaxOps
    BY <1>1, PagerAssumption DEF Init
  <2> QED BY <1>1, <1>3, <1>4, <1>5, <1>6, <1>7, <1>8, <1>9, <2>1 DEF Typed, FaultTyped, OthersTyped
<1>11. Entries(pte) /\ Shares(pte) /\ Marked(pte, work)
  BY <1>2, <1>3, <1>6 DEF Entries, Shares, Marked
<1>12. Posts(work)
  BY <1>1, <1>4, <1>5, <1>6 DEF Posts, Transfers
<1>13. Faulted(pte) /\ Paging(pte, work)
  BY <1>4, <1>5 DEF Faulted, AtFault, Paging, Carries, Faults
<1>14. Kept(pte, work)
  BY <1>2, <1>3, <1>4, <1>5, <1>8 DEF Kept, Saved, Carries
<1>15. Owed(chan, work, forgotten)
  BY <1>7, Channels DEF Owed
<1>16. Stuck(work)
  BY DEF Init, Stuck
<1> QED
  BY <1>10, <1>11, <1>12, <1>13, <1>14, <1>15, <1>16 DEF IInv, Whole

\* Where the model stops nothing is changed.
LEMMA StopsStep ==
  ASSUME IInv, \E how \in {"panic", "collision"} : Stops(how)
  PROVE  IInv'
<1>1. UNCHANGED <<pte, tlb, free, mem, store, latest, stale, pc, chan, op, frame, work, va, startva,
                  needed, forgotten, torn, ops>>
  BY DEF Stops, memory, scan
<1>2. Whole(pte, work)'
  BY <1>1, Untouched DEF IInv, memory
<1> QED
  BY <1>1, <1>2 DEF IInv, Typed, FaultTyped, OthersTyped, Owed, AtWork

LEMMA NextIInv ==
  ASSUME IInv, [Next]_vars
  PROVE  IInv'
<1>1. ASSUME NEW t \in Proc, NEW p \in Page, NEW write \in BOOLEAN, Access(t, p, write) PROVE IInv'
  BY <1>1, AccessStep
<1>2. ASSUME NEW t \in Proc, NEW p \in Page, StaleWrite(t, p) PROVE IInv'
  BY <1>2, StaleWriteStep
<1>3. ASSUME NEW t \in Proc, NEW p \in Page, Allocate(t, p) PROVE IInv'
  BY <1>3, AllocateStep
<1>4. ASSUME NEW t \in Proc, NEW p \in Page, Deallocate(t, p) PROVE IInv'
  BY <1>4, DeallocateStep
<1>5. ASSUME NEW t \in Proc, NEW first \in Page, NEW end \in 1..NPages, NEW release \in BOOLEAN,
             Flush(t, first, end, release)
      PROVE  IInv'
  BY <1>5, FlushStep
<1>6. ASSUME NEW t \in Proc, ProcStep(t) PROVE IInv'
  BY <1>6, PageWaitedStep, FrameWaitedStep, PagedInStep, BatchCleanedStep, StopsStep
     DEF ProcStep, FrameUnwanted
<1>7. ASSUME HostStep PROVE IInv'
  BY <1>7, HostPagesInStep, HostPagesOutStep, StopsStep DEF HostStep, Refused, Collides
<1>8. ASSUME DaemonStep PROVE IInv'
  BY <1>8, DaemonWakesStep, DaemonScansStep, DaemonCleanedStep DEF DaemonStep
<1>9. ASSUME Clock \/ \E p \in Page : TLBReplaces(p) PROVE IInv'
  BY <1>9, ClockStep
<1>10. ASSUME UNCHANGED vars PROVE IInv'
  <2>1. UNCHANGED <<pte, tlb, free, mem, store, latest, stale, pc, chan, op, frame, work, va, startva,
                    needed, forgotten, torn, ops>>
    BY <1>10 DEF vars, memory, scan, gone
  <2>2. Whole(pte, work)'
    BY <2>1, Untouched DEF IInv, memory
  <2>3. Typed' /\ Owed(chan, work, forgotten)'
    BY <2>1 DEF IInv, Typed, FaultTyped, OthersTyped, Owed, AtWork
  <2> QED BY <2>2, <2>3 DEF IInv
<1> QED
  BY <1>1, <1>2, <1>3, <1>4, <1>5, <1>6, <1>7, <1>8, <1>9, <1>10 DEF Next

\* The variables of memory that was given up.
GoneTyped == /\ hosted \subseteq Page /\ torn \subseteq Actor \X Page
             /\ fate \in {"running", "panic", "collision"}

LEMMA GoneTypedStep ==
  ASSUME GoneTyped, [Next]_vars
  PROVE  GoneTyped'
<1>1. \A p \in Page : Workers(p) \subseteq Actor
  BY DEF Workers, Actor
<1>2. ASSUME NEW t \in Proc, NEW p \in Page, Allocate(t, p) \/ Deallocate(t, p) PROVE GoneTyped'
  <2>1. torn' \subseteq torn \cup (Workers(p) \X {p})
    BY <1>2 DEF Allocate, Deallocate
  <2>2. torn' \subseteq Actor \X Page
    BY <1>1, <2>1 DEF GoneTyped
  <2>3. hosted' \subseteq Page /\ fate' = fate
    BY <1>2 DEF Allocate, Deallocate, GoneTyped
  <2> QED BY <2>2, <2>3 DEF GoneTyped
<1>3. CASE \E how \in {"panic", "collision"} : Stops(how)
  BY <1>3 DEF Stops, GoneTyped
<1>4. CASE UNCHANGED gone
  BY <1>4 DEF gone, GoneTyped
<1>5. ASSUME NEW t \in Proc, ProcStep(t) PROVE GoneTyped'
  BY <1>3, <1>4, <1>5 DEF ProcStep, PageWaited, FrameWaited, FrameUnwanted, PagedIn, BatchCleaned
<1>6. CASE HostStep
  BY <1>3, <1>4, <1>6 DEF HostStep, HostPagesIn, HostPagesOut, Refused, Collides
<1>7. CASE DaemonStep
  BY <1>4, <1>7 DEF DaemonStep, DaemonWakes, DaemonScans, DaemonCleaned
<1>8. CASE Clock \/ \E p \in Page : TLBReplaces(p)
  BY <1>4, <1>8 DEF Clock, TLBReplaces
<1>9. ASSUME NEW t \in Proc, NEW p \in Page, NEW write \in BOOLEAN, Access(t, p, write) \/ StaleWrite(t, p)
      PROVE  GoneTyped'
  BY <1>4, <1>9 DEF Access, StaleWrite
<1>10. ASSUME NEW t \in Proc, NEW first \in Page, NEW end \in 1..NPages, NEW release \in BOOLEAN,
              Flush(t, first, end, release)
       PROVE  GoneTyped'
  BY <1>4, <1>10 DEF Flush
<1>11. CASE UNCHANGED vars
  BY <1>4, <1>11 DEF vars
<1> QED
  BY <1>2, <1>5, <1>6, <1>7, <1>8, <1>9, <1>10, <1>11 DEF Next

\* Every place, frame, mark and page content agrees with who is at work, and who
\* was torn from his work does not go on with it.
THEOREM IInvCorrect == Spec => [](IInv /\ GoneTyped)
<1>1. Init => IInv
  BY InitIInv
<1>2. IInv /\ [Next]_vars => IInv'
  BY NextIInv
<1>3. Init => GoneTyped
  BY DEF Init, GoneTyped
<1>4. GoneTyped /\ [Next]_vars => GoneTyped'
  BY GoneTypedStep
<1> QED
  BY <1>1, <1>2, <1>3, <1>4, PTL DEF Spec

\* Page-in, page-out, flush and release, and memory given up and allocated in
\* between, keep what the program wrote last, but for writes through an outdated
\* TLB entry (pmap_clean, PageOutDaemon, vm_fault, vm_deallocate).
THEOREM LatestKeptCorrect == Spec => []LatestKept
<1>1. IInv => LatestKept
  BY DEF IInv, Whole, Kept, LatestKept, Found, Saved
<1> QED
  BY <1>1, IInvCorrect, PTL

\* Whoever sleeps for a page has somebody at work on it, though it was given up
\* meanwhile, or pmap_clean has forgotten him.
THEOREM SleeperIsOwedCorrect == Spec => []SleeperIsOwed
<1>1. IInv => SleeperIsOwed
  <2> SUFFICES ASSUME IInv, NEW t \in Proc, NEW p \in Page, chan[t] = PageChan(p), t \notin forgotten
               PROVE  Workers(p) # {}
    BY DEF SleeperIsOwed
  <2>1. AtWork(work, p)
    BY DEF IInv, Owed
  <2> QED BY <2>1 DEF AtWork, Workers, Faults
<1> QED
  BY <1>1, IInvCorrect, PTL

\* A frame has one holder and a page in transit one who is at work on it.
LEMMA OneHolder == ASSUME IInv PROVE FramesConserved
<1> SUFFICES ASSUME NEW f \in Frame PROVE Cardinality(Holders(f)) = 1
  BY DEF FramesConserved
<1>1. f # NoFrame
  BY DEF Frame, NoFrame
<1>2. CASE f \in free
  <2>1. Holders(f) = {CoreMap}
    BY <1>2 DEF Holders, IInv, Whole, Shares
  <2> QED BY <2>1, FS_Singleton
<1>3. CASE f \notin free /\ \E p \in Page : pte[p].pfn = f
  <2>1. PICK p \in Page : pte[p].pfn = f
    BY <1>3
  <2>2. \A q \in Page : pte[q].pfn = f => q = p
    BY <1>1, <2>1 DEF IInv, Whole, Shares
  <2>3. \A t \in Proc : frame[t] # f
    BY <1>1, <2>1 DEF IInv, Whole, Shares
  <2>4. Holders(f) = {PageChan(p)}
    BY <1>3, <2>1, <2>2, <2>3 DEF Holders
  <2> QED BY <2>4, FS_Singleton
<1>4. CASE f \notin free /\ ~\E p \in Page : pte[p].pfn = f
  <2>1. PICK t \in Proc : frame[t] = f
    BY <1>4 DEF IInv, Whole, Shares
  <2>2. \A u \in Proc : frame[u] = f => u = t
    BY <1>1, <2>1 DEF IInv, Whole, Shares
  <2>3. Holders(f) = {<<"fault", t>>}
    BY <1>4, <2>1, <2>2 DEF Holders
  <2> QED BY <2>3, FS_Singleton
<1> QED
  BY <1>2, <1>3, <1>4

LEMMA OneWorker == ASSUME IInv PROVE OneTransfer
<1> DEFINE Live(p) == {x \in Workers(p) : <<x, p>> \notin torn}
<1> SUFFICES ASSUME NEW p \in Page PROVE Cardinality(Live(p)) = (IF Busy(pte, p) THEN 1 ELSE 0)
  BY DEF OneTransfer
<1>1. Live(p) = {t \in Proc : AtFault(t, p)} \cup {x \in Actor : Carries(work, x, p)}
  BY DEF Workers, AtFault, Carries, Faults
<1> HIDE DEF Live
<1>2. Busy(pte, p) <=> pte[p].wired
  BY DEF IInv, Whole, Entries, Busy
<1>3. \A x \in Live(p) : pte[p].wired
  BY <1>1 DEF IInv, Whole, Faulted, Paging
<1>4. \A x, y \in Live(p) : x = y
  <2>1. \A t, u \in Proc : AtFault(t, p) /\ AtFault(u, p) => t = u
    BY DEF IInv, Whole, Faulted
  <2>2. \A x, y \in Actor : Carries(work, x, p) /\ Carries(work, y, p) => x = y
    BY DEF IInv, Whole, Paging
  <2>3. ~((\E t \in Proc : AtFault(t, p)) /\ (\E x \in Actor : Carries(work, x, p)))
    BY DEF IInv, Whole, Faulted, Paging
  <2> QED BY <1>1, <2>1, <2>2, <2>3
<1>5. CASE Busy(pte, p)
  <2>1. PICK x \in Live(p) : TRUE
    BY <1>1, <1>2, <1>5 DEF IInv, Whole, Marked
  <2>2. Live(p) = {x}
    BY <1>4, <2>1
  <2> QED BY <1>5, <2>2, FS_Singleton
<1>6. CASE ~Busy(pte, p)
  <2>1. Live(p) = {}
    BY <1>2, <1>3, <1>6
  <2> QED BY <1>6, <2>1, FS_EmptySet
<1> QED
  BY <1>5, <1>6

\* No frame is lost or used twice and no page is moved by two at once, over every
\* sleep of a fault, a sweep or the daemon (vm_fault, pmap_clean, PageOutDaemon),
\* though memory is given up under a transfer (vm_deallocate), until the transfer
\* comes to its turn.
THEOREM PagesSoundCorrect == Spec => []PagesSound
<1>1. IInv /\ GoneTyped => PagesSound
  <2> SUFFICES ASSUME IInv, GoneTyped PROVE PagesSound
    OBVIOUS
  <2>1. TypeOK
    <3>1. \A x \in Actor : DOMAIN work[x].out \subseteq Page
      BY DEF IInv, Typed, OthersTyped, Call
    <3>2. \A x \in Actor : chan[x] \in {Awake, CoreMap, DaemonName} \cup {PageChan(p) : p \in Page}
      BY DEF IInv, Typed, FaultTyped, Channel
    <3> QED BY <3>1, <3>2 DEF TypeOK, IInv, Typed, GoneTyped, FaultTyped, OthersTyped, Entry, Faults, Transfers
  <2> QED BY <2>1, OneHolder, OneWorker DEF PagesSound
<1> QED
  BY <1>1, IInvCorrect, PTL
=============================================================================
