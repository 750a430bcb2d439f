---------------------------- MODULE ResourceMap -----------------------------
(***************************************************************************)
(* The resource maps of kern_map.c.  A map is the sequence of its nonempty *)
(* entries, sorted by address; the array has one entry more for the header *)
(* and one for the terminator.                                             *)
(***************************************************************************)
EXTENDS Integers, Sequences, FiniteSets, SequencesExt

CONSTANT MapSize          \* nentries of rminit

ASSUME MapSizeAssumption == MapSize \in Nat /\ MapSize > 2

\* Entries that fit without an overflow.
Usable == MapSize - 2

Block(addr, size) == [addr |-> addr, size |-> size]
UnitsOf(b) == b.addr .. b.addr + b.size - 1
Units(m) == UNION {UnitsOf(m[i]) : i \in 1..Len(m)}

\* What rminit leaves, and every operation keeps: sorted, nothing empty, no two
\* entries that could be one, and room for the terminator.
WellFormed(m) == /\ Len(m) <= Usable
                 /\ \A i \in 1..Len(m) : m[i].size > 0
                 /\ \A i \in 1..Len(m)-1 : m[i].addr + m[i].size < m[i+1].addr

----------------------------------------------------------------------------
Fits(m, size) == {i \in 1..Len(m) : m[i].size >= size}

\* rmalloc: first fit, from the front of the entry; the address is 0 when
\* nothing fits.
RmallocAddr(m, size) == IF Fits(m, size) = {} THEN 0 ELSE m[Min(Fits(m, size))].addr

\* Mistake: an entry that becomes empty stays, and ends the map for the others.
RmallocMapKeeps(m, size) ==
  LET i == Min(Fits(m, size))
  IN IF Fits(m, size) = {} THEN m
     ELSE IF m[i].size = size THEN SubSeq(m, 1, i - 1)
     ELSE [m EXCEPT ![i] = Block(@.addr + size, @.size - size)]

RmallocMap(m, size) ==
  LET i == Min(Fits(m, size))
  IN IF Fits(m, size) = {} THEN m
     ELSE IF m[i].size = size THEN RemoveAt(m, i)
     ELSE [m EXCEPT ![i] = Block(@.addr + size, @.size - size)]

----------------------------------------------------------------------------
\* The entries that do not lie above address a.
Below(m, a) == Cardinality({i \in 1..Len(m) : m[i].addr <= a})

GrowsUp(m, a) == Below(m, a) > 0 /\ m[Below(m, a)].addr + m[Below(m, a)].size = a
GrowsDown(m, size, a) == Below(m, a) < Len(m) /\ a + size = m[Below(m, a) + 1].addr

\* rmfree's insertion fills the last entry of the array.
Overflows(m, size, a) ==
  ~GrowsUp(m, a) /\ ~GrowsDown(m, size, a) /\ Len(m) = Usable

\* Mistake: a block between two entries grows the lower one only.
RmfreeMapGap(m, size, a) ==
  LET i == Below(m, a)
  IN IF GrowsUp(m, a) THEN [m EXCEPT ![i].size = @ + size]
     ELSE IF GrowsDown(m, size, a) THEN [m EXCEPT ![i + 1] = Block(a, @.size + size)]
     ELSE SubSeq(InsertAt(m, i + 1, Block(a, size)), 1,
                 IF Overflows(m, size, a) THEN Usable ELSE Len(m) + 1)

\* rmfree: merged with the neighbours it abuts, or inserted, and then the last
\* entry of a map that has become too long is cut off.
RmfreeMap(m, size, a) ==
  LET i == Below(m, a)
  IN IF GrowsUp(m, a) /\ GrowsDown(m, size, a)
       THEN RemoveAt([m EXCEPT ![i].size = @ + size + m[i + 1].size], i + 1)
     ELSE IF GrowsUp(m, a) THEN [m EXCEPT ![i].size = @ + size]
     ELSE IF GrowsDown(m, size, a) THEN [m EXCEPT ![i + 1] = Block(a, @.size + size)]
     ELSE SubSeq(InsertAt(m, i + 1, Block(a, size)), 1,
                 IF Overflows(m, size, a) THEN Usable ELSE Len(m) + 1)
=============================================================================
