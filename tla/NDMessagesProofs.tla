-------------------------- MODULE NDMessagesProofs --------------------------
(***************************************************************************)
(* The message emulation of the i860 kernel, for any ports, readers and    *)
(* messages: Messages() hands no message out twice and loses none, but to  *)
(* a port that was deleted while kmalloc slept for it; and a port for      *)
(* which kmalloc has not slept is served in order, with no reader waiting  *)
(* while a message lies unclaimed.                                         *)
(***************************************************************************)
EXTENDS NDMessages, SequenceTheorems, FiniteSetTheorems, TLAPS

\* How often message m is in one of the places it can be in.
Places(m) == Occurs(m, toND) + Occurs(m, unclaimed[PortOf[m]]) + Cardinality({held} \cap {m})
               + Cardinality(skipped \cap {m}) + Cardinality(gave[m]) + Cardinality(lost \cap {m})

\* What has been sent is somewhere, and what has not been sent is nowhere.
Accounted == \A m \in Msgs : /\ Places(m) = IF m < next THEN 1 ELSE 0
                             /\ IsFiniteSet(gave[m])

AtHome == \A p \in Ports : \A i \in 1..Len(unclaimed[p]) : PortOf[unclaimed[p][i]] = p

\* Who is inside kmalloc, and that slept knows it.
Asleep == /\ mpc = "alloc" <=> held # None
          /\ held # None => PortOf[held] \in slept
          /\ \A r \in Readers : rpc[r] = "alloc" => rport[r] \in slept

Increasing(s) == \A i, j \in 1..Len(s) : i < j => s[i] < s[j]
Before(s, t) == \A i \in 1..Len(s), j \in 1..Len(t) : s[i] < t[j]
Below(s, n) == \A i \in 1..Len(s) : s[i] < n
Above(s, n) == \A i \in 1..Len(s) : n < s[i]

\* What Messages() has taken was sent before what is on the queue.
QueueLast ==
  /\ Increasing(toND) /\ Below(toND, next)
  /\ held < next /\ Above(toND, held)
  /\ \A p \in Ports : /\ Below(claimed[p], next) /\ Before(claimed[p], toND)
                      /\ Below(unclaimed[p], next) /\ Before(unclaimed[p], toND)

\* The queues of a port for which kmalloc has not slept.
Served(p) == /\ pending[p] = <<>> \/ unclaimed[p] = <<>>
             /\ Increasing(claimed[p]) /\ Increasing(unclaimed[p])
             /\ Before(claimed[p], unclaimed[p])

IInv == /\ TypeOK /\ Accounted /\ AtHome /\ Asleep /\ QueueLast /\ LostWithPort
        /\ \A p \in Ports \ slept : Served(p)
----------------------------------------------------------------------------
LEMMA Appended ==
  ASSUME NEW S, NEW s \in Seq(S), NEW x \in S
  PROVE  /\ Append(s, x) \in Seq(S) /\ Len(s) \in Nat /\ Len(Append(s, x)) = Len(s) + 1
         /\ \A i \in 1..Len(s) : Append(s, x)[i] = s[i]
         /\ Append(s, x)[Len(s) + 1] = x
         /\ DOMAIN s = 1..Len(s) /\ DOMAIN Append(s, x) = 1..Len(s) + 1
BY AppendProperties, LenProperties

LEMMA Tailed ==
  ASSUME NEW S, NEW s \in Seq(S), s # <<>>
  PROVE  /\ Tail(s) \in Seq(S) /\ Len(s) \in Nat \ {0} /\ Len(Tail(s)) = Len(s) - 1
         /\ Head(s) = s[1] /\ Head(s) \in S
         /\ \A i \in 1..Len(s)-1 : Tail(s)[i] = s[i + 1]
         /\ DOMAIN s = 1..Len(s) /\ DOMAIN Tail(s) = 1..Len(s)-1
BY HeadTailProperties, LenProperties

LEMMA TailAt ==
  ASSUME NEW S, NEW s \in Seq(S), s # <<>>, NEW i \in 1..Len(Tail(s))
  PROVE  Tail(s)[i] = s[i + 1] /\ i + 1 \in 1..Len(s) /\ i \in Nat
<1> DEFINE t == Tail(s)
<1>1. /\ Len(s) \in Nat \ {0} /\ Len(t) = Len(s) - 1 /\ i \in 1..Len(t)
      /\ \A j \in 1..Len(s)-1 : t[j] = s[j + 1]
  BY Tailed
<1> HIDE DEF t
<1> QED
  BY <1>1 DEF t

\* 1 if m is message h.
Is(m, h) == IF m = h THEN 1 ELSE 0

LEMMA OccursType ==
  ASSUME NEW S, NEW s \in Seq(S), NEW m
  PROVE  /\ IsFiniteSet({i \in DOMAIN s : s[i] = m}) /\ Occurs(m, s) \in Nat
<1>1. DOMAIN s = 1..Len(s) /\ Len(s) \in Nat
  BY LenProperties
<1>2. IsFiniteSet(1..Len(s))
  BY <1>1, FS_Interval
<1>3. {i \in DOMAIN s : s[i] = m} \in SUBSET (1..Len(s))
  BY <1>1
<1>4. IsFiniteSet({i \in DOMAIN s : s[i] = m})
  BY <1>2, <1>3, FS_Subset
<1> QED BY <1>4, FS_CardinalityType DEF Occurs

LEMMA OccursAppend ==
  ASSUME NEW S, NEW s \in Seq(S), NEW x \in S, NEW m
  PROVE  Occurs(m, Append(s, x)) = Occurs(m, s) + Is(m, x)
<1> DEFINE t == Append(s, x)
           A == {i \in DOMAIN s : s[i] = m}
           B == {i \in DOMAIN t : t[i] = m}
           n == Len(s) + 1
<1>1. /\ Len(s) \in Nat /\ DOMAIN s = 1..Len(s) /\ DOMAIN t = 1..n
      /\ \A i \in 1..Len(s) : t[i] = s[i]
      /\ t[n] = x
  BY Appended
<1>2. IsFiniteSet(A) /\ Cardinality(A) \in Nat
  BY OccursType DEF Occurs
<1> HIDE DEF t
<1>3. n \notin A
  BY <1>1
<1>4. CASE x = m
  <2>1. B = A \cup {n}
    BY <1>1, <1>4
  <2>2. Cardinality(B) = Cardinality(A) + 1
    BY <1>2, <1>3, <2>1, FS_AddElement
  <2> QED BY <1>4, <2>2 DEF Occurs, Is, t
<1>5. CASE x # m
  <2>1. B = A
    BY <1>1, <1>5
  <2>2. Cardinality(B) = Cardinality(A) + Is(m, x)
    <3> HIDE DEF A, B
    <3> QED BY <1>2, <1>5, <2>1 DEF Is
  <2> QED BY <2>2 DEF Occurs, t
<1> QED BY <1>4, <1>5

LEMMA OccursTail ==
  ASSUME NEW S, NEW s \in Seq(S), s # <<>>, NEW m
  PROVE  Occurs(m, Tail(s)) = Occurs(m, s) - Is(m, Head(s))
<1> DEFINE t == Tail(s)
           A == {i \in DOMAIN s : s[i] = m}
           B == {i \in DOMAIN t : t[i] = m}
           C == A \ {1}
           f == [i \in C |-> i - 1]
<1>1. /\ Len(s) \in Nat \ {0} /\ DOMAIN s = 1..Len(s) /\ DOMAIN t = 1..Len(s)-1
      /\ \A i \in 1..Len(s)-1 : t[i] = s[i + 1]
      /\ Head(s) = s[1]
  BY Tailed
<1>2. IsFiniteSet(A) /\ Cardinality(A) \in Nat
  BY OccursType DEF Occurs
<1> HIDE DEF t
<1>3. IsFiniteSet(C) /\ Cardinality(C) = Cardinality(A) - Is(m, Head(s))
  <2>1. 1 \in A <=> Head(s) = m
    BY <1>1
  <2>2. IsFiniteSet(C) /\ Cardinality(C) = IF 1 \in A THEN Cardinality(A) - 1 ELSE Cardinality(A)
    BY <1>2, FS_RemoveElement
  <2> HIDE DEF A, C
  <2> QED BY <1>2, <2>1, <2>2 DEF Is
<1>4. f \in Bijection(C, B)
  <2>1. ASSUME NEW i \in C PROVE f[i] \in B /\ f[i] = i - 1 /\ i \in Int
    BY <1>1
  <2>2. ASSUME NEW b \in B PROVE \E i \in C : f[i] = b
    <3>1. b + 1 \in C /\ (b + 1) - 1 = b
      BY <1>1
    <3> QED BY <3>1
  <2>3. f \in [C -> B] /\ \A i, j \in C : f[i] = f[j] => i = j
    BY <2>1
  <2> QED BY <2>2, <2>3 DEF Bijection, Injection, Surjection, IsInjective
<1>5. Cardinality(B) = Cardinality(C)
  BY <1>3, <1>4, FS_Bijection DEF ExistsBijection
<1> QED
  BY <1>3, <1>5 DEF Occurs, t
----------------------------------------------------------------------------
LEMMA Constants ==
  /\ NMsgs \in Nat /\ Msgs \subseteq Nat \ {0} /\ None \notin Msgs
  /\ \A m \in Msgs : PortOf[m] \in Ports
BY MessagesAssumption DEF Msgs, None

LEMMA EndsStep ==
  hung \in BOOLEAN /\ astray \in BOOLEAN /\ [Next]_vars => hung' \in BOOLEAN /\ astray' \in BOOLEAN
BY Zenon DEF vars, ends, Next, HostSends, Messages, MessagesWakes, MessagesSleeps, KeepResumes,
             KeepAstray, Discard, Deliver, Keep, KeepSleeps, AddPortToList, DeletePortFromList,
             Awake, ReceiveResumes, ReceiveAstray, ReceiveReturns, ReceiveNow, ReceiveWaits,
             ReceiveSleeps

\* A message that leaves the queue, and one that is given to a reader.
LEMMA QueueTyped ==
  ASSUME TypeOK, toND # <<>>
  PROVE  Head(toND) \in Msgs /\ Tail(toND) \in Seq(Msgs) /\ PortOf[Head(toND)] \in Ports
BY Tailed, Constants DEF TypeOK

LEMMA GiveTyped ==
  ASSUME TypeOK, NEW m \in Msgs, NEW r \in Readers, Give(m, r)
  PROVE  claimed' \in [Ports -> Seq(Msgs)] /\ gave' \in [Msgs -> SUBSET Readers]
<1>1. PortOf[m] \in Ports /\ Append(claimed[PortOf[m]], m) \in Seq(Msgs)
  BY Constants, Appended DEF TypeOK
<1> QED BY <1>1 DEF TypeOK, Give

LEMMA TypeStep == IInv /\ [Next]_vars => TypeOK'
<1> SUFFICES ASSUME IInv, [Next]_vars PROVE TypeOK'
  OBVIOUS
<1> USE DEF TypeOK, queues, msgs, procs, hist
<1>0. TypeOK /\ hung' \in BOOLEAN /\ astray' \in BOOLEAN
  BY EndsStep DEF IInv
<1>1. CASE UNCHANGED vars
  BY <1>0, <1>1 DEF vars
<1>2. CASE HostSends
  <2>1. next \in Msgs /\ next + 1 \in 1..(NMsgs + 1)
    BY <1>0, <1>2, Constants DEF HostSends, Msgs
  <2>2. Append(toND, next) \in Seq(Msgs)
    BY <1>0, <2>1, Appended
  <2> QED BY <1>0, <1>2, <2>1, <2>2 DEF HostSends
<1>3. CASE MessagesWakes \/ MessagesSleeps
  BY <1>0, <1>3 DEF MessagesWakes, MessagesSleeps
<1>4. CASE KeepResumes
  <2>1. held \in Msgs /\ PortOf[held] \in Ports
    BY <1>0, <1>4, Constants DEF KeepResumes, IInv, Asleep
  <2>2. Append(unclaimed[PortOf[held]], held) \in Seq(Msgs)
    BY <1>0, <2>1, Appended
  <2> QED BY <1>0, <1>4, <2>1, <2>2 DEF KeepResumes
<1>14. CASE KeepAstray
  <2>1. held \in Msgs
    BY <1>0, <1>14, Constants DEF KeepAstray, IInv, Asleep
  <2> QED BY <1>0, <1>14, <2>1 DEF KeepAstray
<1>5. ASSUME NEW p \in Ports, Discard(p) PROVE TypeOK'
  BY <1>0, <1>5, QueueTyped DEF Discard, Incoming
<1>6. ASSUME NEW p \in Ports, Deliver(p) PROVE TypeOK'
  <2>1. Head(toND) \in Msgs /\ Tail(toND) \in Seq(Msgs)
    BY <1>0, <1>6, QueueTyped DEF Deliver, Incoming
  <2>2. pending[p] \in Seq(Readers) /\ pending[p] # <<>>
    BY <1>0, <1>6 DEF Deliver
  <2>3. Head(pending[p]) \in Readers /\ Tail(pending[p]) \in Seq(Readers)
    BY <2>2, Tailed
  <2>4. claimed' \in [Ports -> Seq(Msgs)] /\ gave' \in [Msgs -> SUBSET Readers]
    BY <1>0, <1>6, <2>1, <2>3, GiveTyped DEF Deliver
  <2> QED BY <1>0, <1>6, <2>1, <2>3, <2>4 DEF Deliver, Give
<1>7. ASSUME NEW p \in Ports, Keep(p) PROVE TypeOK'
  <2>1. Head(toND) \in Msgs /\ Tail(toND) \in Seq(Msgs)
    BY <1>0, <1>7, QueueTyped DEF Keep, Incoming
  <2>2. Append(unclaimed[p], Head(toND)) \in Seq(Msgs)
    BY <1>0, <2>1, Appended
  <2> QED BY <1>0, <1>7, <2>1, <2>2 DEF Keep
<1>8. ASSUME NEW p \in Ports, KeepSleeps(p) PROVE TypeOK'
  <2>1. Head(toND) \in Msgs /\ Tail(toND) \in Seq(Msgs)
    BY <1>0, <1>8, QueueTyped DEF KeepSleeps, Incoming
  <2> QED BY <1>0, <1>8, <2>1 DEF KeepSleeps, Sleeps
<1>9. ASSUME NEW p \in Ports, AddPortToList(p) \/ DeletePortFromList(p) PROVE TypeOK'
  <2>1. CASE AddPortToList(p)
    BY <1>0, <2>1 DEF AddPortToList
  <2>2. CASE DeletePortFromList(p)
    <3>1. /\ listed' = listed \ {p} /\ dead' = dead \cup {p}
          /\ pending' = [pending EXCEPT ![p] = <<>>]
          /\ tab' = [r \in Readers |-> IF \E i \in DOMAIN pending[p] : pending[p][i] = r
                                       THEN PortDeath ELSE tab[r]]
          /\ UNCHANGED <<next, toND, unclaimed, msgs, rpc, rport, hist>>
      BY <2>2 DEF DeletePortFromList
    <3>2. tab' \in [Readers -> Msgs \cup {None, PortDeath}]
      BY <1>0, <3>1
    <3>3. pending' \in [Ports -> Seq(Readers)]
      BY <1>0, <3>1
    <3> QED BY <1>0, <3>1, <3>2, <3>3
  <2> QED BY <1>9, <2>1, <2>2
<1>10. ASSUME NEW r \in Readers, Awake(r) PROVE TypeOK'
  <2>1. CASE ReceiveResumes(r)
    <3>1. rport[r] \in Ports /\ Append(pending[rport[r]], r) \in Seq(Readers)
      BY <1>0, Appended
    <3> QED BY <1>0, <2>1, <3>1 DEF ReceiveResumes
  <2>2. CASE ReceiveReturns(r)
    BY <1>0, <2>2 DEF ReceiveReturns
  <2>3. CASE ReceiveAstray(r)
    BY <1>0, <2>3 DEF ReceiveAstray
  <2> QED BY <1>10, <2>1, <2>2, <2>3 DEF Awake
<1>11. ASSUME NEW r \in Readers, NEW p \in Ports, ReceiveNow(r, p) PROVE TypeOK'
  <2>1. unclaimed[p] \in Seq(Msgs) /\ unclaimed[p] # <<>>
    BY <1>0, <1>11 DEF ReceiveNow
  <2>2. Head(unclaimed[p]) \in Msgs /\ Tail(unclaimed[p]) \in Seq(Msgs)
    BY <2>1, Tailed
  <2>3. claimed' \in [Ports -> Seq(Msgs)] /\ gave' \in [Msgs -> SUBSET Readers]
    BY <1>0, <1>11, <2>2, GiveTyped DEF ReceiveNow
  <2> QED BY <1>0, <1>11, <2>2, <2>3 DEF ReceiveNow, Give
<1>12. ASSUME NEW r \in Readers, NEW p \in Ports, ReceiveWaits(r, p) PROVE TypeOK'
  <2>1. Append(pending[p], r) \in Seq(Readers)
    BY <1>0, Appended
  <2> QED BY <1>0, <1>12, <2>1 DEF ReceiveWaits
<1>13. ASSUME NEW r \in Readers, NEW p \in Ports, ReceiveSleeps(r, p) PROVE TypeOK'
  BY <1>0, <1>13 DEF ReceiveSleeps, Sleeps
<1> QED
  BY <1>1, <1>2, <1>3, <1>4, <1>5, <1>6, <1>7, <1>8, <1>9, <1>10, <1>11, <1>12, <1>13, <1>14
  DEF Next, Messages
----------------------------------------------------------------------------
\* How often m is on the queue, unclaimed, held, discarded, given out and lost.
OnQueue(m) == Occurs(m, toND)
Unclaimed(m) == Occurs(m, unclaimed[PortOf[m]])
Held(m) == Cardinality({held} \cap {m})
Skipped(m) == Cardinality(skipped \cap {m})
Given(m) == Cardinality(gave[m])
Lost(m) == Cardinality(lost \cap {m})

LEMMA PlacesSum ==
  ASSUME NEW m
  PROVE  /\ Places(m) = OnQueue(m) + Unclaimed(m) + Held(m) + Skipped(m) + Given(m) + Lost(m)
         /\ Places(m)' = OnQueue(m)' + Unclaimed(m)' + Held(m)' + Skipped(m)' + Given(m)' + Lost(m)'
BY DEF Places, OnQueue, Unclaimed, Held, Skipped, Given, Lost

\* A set holds m once or not at all.
LEMMA OnceOrNot ==
  ASSUME NEW S, NEW m
  PROVE  Cardinality(S \cap {m}) = IF m \in S THEN 1 ELSE 0
<1>1. CASE m \in S
  <2>1. S \cap {m} = {m}
    BY <1>1
  <2> QED BY <1>1, <2>1, FS_Singleton
<1>2. CASE m \notin S
  <2>1. S \cap {m} = {}
    BY <1>2
  <2> QED BY <1>2, <2>1, FS_EmptySet
<1> QED BY <1>1, <1>2

LEMMA PlacesTyped ==
  ASSUME TypeOK, Accounted, NEW m \in Msgs
  PROVE  /\ OnQueue(m) \in Nat /\ Unclaimed(m) \in Nat /\ Held(m) \in Nat
         /\ Skipped(m) \in Nat /\ Given(m) \in Nat /\ Lost(m) \in Nat
         /\ OnQueue(m) + Unclaimed(m) + Held(m) + Skipped(m) + Given(m) + Lost(m) = IF m < next THEN 1 ELSE 0
         /\ IsFiniteSet(gave[m])
<1>1. OnQueue(m) \in Nat
  BY OccursType DEF TypeOK, OnQueue
<1>2. Unclaimed(m) \in Nat
  BY OccursType, Constants DEF TypeOK, Unclaimed
<1>3. Held(m) \in Nat /\ Skipped(m) \in Nat /\ Lost(m) \in Nat
  BY OnceOrNot DEF Held, Skipped, Lost
<1>4. Given(m) \in Nat /\ IsFiniteSet(gave[m])
  BY FS_CardinalityType DEF Accounted, Given
<1>5. Places(m) = IF m < next THEN 1 ELSE 0
  BY DEF Accounted
<1> QED BY <1>1, <1>2, <1>3, <1>4, <1>5, PlacesSum

LEMMA QueueTaken ==
  ASSUME TypeOK, toND # <<>>, toND' = Tail(toND), NEW m
  PROVE  OnQueue(m)' = OnQueue(m) - Is(m, Head(toND))
BY OccursTail DEF TypeOK, OnQueue

LEMMA UnclaimedAdded ==
  ASSUME TypeOK, AtHome, NEW x \in Msgs,
         unclaimed' = [unclaimed EXCEPT ![PortOf[x]] = Append(@, x)]
  PROVE  AtHome' /\ \A m \in Msgs : Unclaimed(m)' = Unclaimed(m) + Is(m, x)
<1> DEFINE p == PortOf[x]
           u == unclaimed[p]
<1>1. p \in Ports /\ unclaimed \in [Ports -> Seq(Msgs)] /\ u \in Seq(Msgs)
  BY Constants DEF TypeOK
<1>2. unclaimed'[p] = Append(u, x) /\ \A o \in Ports \ {p} : unclaimed'[o] = unclaimed[o]
  BY <1>1
<1>3. ASSUME NEW o \in Ports, NEW i \in 1..Len(unclaimed'[o]) PROVE PortOf[unclaimed'[o][i]] = o
  <2>1. CASE o = p
    BY <1>1, <1>2, <1>3, <2>1, Appended DEF AtHome
  <2>2. CASE o # p
    BY <1>2, <1>3, <2>2 DEF AtHome
  <2> QED BY <2>1, <2>2
<1>4. ASSUME NEW m \in Msgs PROVE Unclaimed(m)' = Unclaimed(m) + Is(m, x)
  <2>0. PortOf[m] \in Ports
    BY Constants
  <2>1. CASE PortOf[m] = p
    BY <1>1, <1>2, <2>1, OccursAppend DEF Unclaimed
  <2>2. CASE PortOf[m] # p
    <3>1. unclaimed'[PortOf[m]] = unclaimed[PortOf[m]] /\ Is(m, x) = 0
      BY <1>2, <2>0, <2>2 DEF Is
    <3>2. Occurs(m, unclaimed[PortOf[m]]) \in Nat
      BY <1>1, <2>0, OccursType
    <3> QED BY <3>1, <3>2 DEF Unclaimed
  <2> QED BY <2>1, <2>2
<1> QED BY <1>3, <1>4 DEF AtHome

LEMMA UnclaimedTaken ==
  ASSUME TypeOK, AtHome, NEW p \in Ports, unclaimed[p] # <<>>,
         unclaimed' = [unclaimed EXCEPT ![p] = Tail(@)]
  PROVE  /\ AtHome' /\ Head(unclaimed[p]) \in Msgs /\ PortOf[Head(unclaimed[p])] = p
         /\ \A m \in Msgs : Unclaimed(m)' = Unclaimed(m) - Is(m, Head(unclaimed[p]))
<1> DEFINE u == unclaimed[p]
           x == Head(u)
<1>1. unclaimed \in [Ports -> Seq(Msgs)] /\ u \in Seq(Msgs)
  BY DEF TypeOK
<1>2. unclaimed'[p] = Tail(u) /\ \A o \in Ports \ {p} : unclaimed'[o] = unclaimed[o]
  BY <1>1
<1>3. /\ x \in Msgs /\ x = u[1] /\ Len(u) \in Nat \ {0} /\ Len(Tail(u)) = Len(u) - 1
      /\ \A i \in 1..Len(u)-1 : Tail(u)[i] = u[i + 1]
  BY <1>1, Tailed
<1>4. PortOf[x] = p
  BY <1>3 DEF AtHome
<1>5. ASSUME NEW o \in Ports, NEW i \in 1..Len(unclaimed'[o]) PROVE PortOf[unclaimed'[o][i]] = o
  <2>1. CASE o = p
    <3>1. unclaimed'[o] = Tail(u) /\ i \in 1..Len(Tail(u))
      BY <1>2, <1>5, <2>1
    <3>2. unclaimed'[o][i] = u[i + 1] /\ i + 1 \in 1..Len(u)
      BY <1>1, <3>1, TailAt
    <3> QED BY <2>1, <3>2 DEF AtHome
  <2>2. CASE o # p
    BY <1>2, <1>5, <2>2 DEF AtHome
  <2> QED BY <2>1, <2>2
<1>6. ASSUME NEW m \in Msgs PROVE Unclaimed(m)' = Unclaimed(m) - Is(m, x)
  <2>0. PortOf[m] \in Ports
    BY Constants
  <2>1. CASE PortOf[m] = p
    BY <1>1, <1>2, <2>1, OccursTail DEF Unclaimed
  <2>2. CASE PortOf[m] # p
    <3>1. unclaimed'[PortOf[m]] = unclaimed[PortOf[m]] /\ Is(m, x) = 0
      BY <1>2, <1>4, <2>0, <2>2 DEF Is
    <3>2. Occurs(m, unclaimed[PortOf[m]]) \in Nat
      BY <1>1, <2>0, OccursType
    <3> QED BY <3>1, <3>2 DEF Unclaimed
  <2> QED BY <2>1, <2>2
<1> QED BY <1>3, <1>4, <1>5, <1>6 DEF AtHome

\* x is given to one more reader, when nobody had it.
LEMMA GivenOnce ==
  ASSUME TypeOK, Accounted, NEW x \in Msgs, NEW r \in Readers, Given(x) = 0,
         gave' = [gave EXCEPT ![x] = @ \cup {r}]
  PROVE  \A m \in Msgs : IsFiniteSet(gave'[m]) /\ Given(m)' = Given(m) + Is(m, x)
<1> SUFFICES ASSUME NEW m \in Msgs PROVE IsFiniteSet(gave'[m]) /\ Given(m)' = Given(m) + Is(m, x)
  OBVIOUS
<1>1. IsFiniteSet(gave[m]) /\ Given(m) \in Nat /\ IsFiniteSet(gave[x]) /\ gave \in [Msgs -> SUBSET Readers]
  BY PlacesTyped DEF TypeOK
<1>2. CASE m = x
  <2>1. gave[x] = {}
    BY <1>1, FS_EmptySet DEF Given
  <2>2. gave'[m] = gave[x] \cup {r} /\ r \notin gave[x]
    BY <1>1, <1>2, <2>1
  <2>3. IsFiniteSet(gave'[m]) /\ Cardinality(gave'[m]) = Cardinality(gave[x]) + 1
    BY <1>1, <2>2, FS_AddElement, ZenonT(60)
  <2> QED BY <1>2, <2>3 DEF Given, Is
<1>3. CASE m # x
  <2>1. gave'[m] = gave[m] /\ Is(m, x) = 0
    BY <1>1, <1>3 DEF Is
  <2> QED BY <1>1, <2>1 DEF Given
<1> QED BY <1>2, <1>3

\* Where x was, the others were not.
LEMMA OnlyThere ==
  ASSUME TypeOK, Accounted, NEW x \in Msgs
  PROVE  /\ OnQueue(x) # 0 => /\ x < next /\ Unclaimed(x) = 0 /\ Held(x) = 0
                              /\ Skipped(x) = 0 /\ Given(x) = 0 /\ Lost(x) = 0
         /\ Unclaimed(x) # 0 => x < next /\ Given(x) = 0
         /\ Held(x) # 0 => Lost(x) = 0
<1> DEFINE a == OnQueue(x)
           b == Unclaimed(x)
           c == Held(x)
           d == Skipped(x)
           e == Given(x)
           f == Lost(x)
<1>1. /\ a \in Nat /\ b \in Nat /\ c \in Nat /\ d \in Nat /\ e \in Nat /\ f \in Nat
      /\ a + b + c + d + e + f = IF x < next THEN 1 ELSE 0
  BY PlacesTyped
<1> HIDE DEF a, b, c, d, e, f
<1>2. a + b + c + d + e + f = 0 \/ (x < next /\ a + b + c + d + e + f = 1)
  BY <1>1
<1>3. /\ (a # 0 => x < next /\ b = 0 /\ c = 0 /\ d = 0 /\ e = 0 /\ f = 0)
      /\ (b # 0 => x < next /\ e = 0)
      /\ (c # 0 => f = 0)
  BY <1>1, <1>2
<1> QED
  BY <1>3 DEF a, b, c, d, e, f

LEMMA Leads ==
  ASSUME NEW S, NEW s \in Seq(S), s # <<>>
  PROVE  Occurs(Head(s), s) # 0
<1>1. Occurs(Head(s), Tail(s)) \in Nat
  BY Tailed, OccursType
<1>2. Occurs(Head(s), Tail(s)) = Occurs(Head(s), s) - 1
  BY OccursTail DEF Is
<1>3. Occurs(Head(s), s) \in Nat
  BY OccursType
<1> QED BY <1>1, <1>2, <1>3

\* Moving x from one place to another keeps the account.
LEMMA Balanced ==
  ASSUME TypeOK, Accounted, next' = next,
         \A m \in Msgs : /\ Places(m)' = Places(m)
                         /\ IsFiniteSet(gave'[m])
  PROVE  Accounted'
BY DEF Accounted

LEMMA Is01 == \A m, x : Is(m, x) \in {0, 1} /\ (Is(m, x) = 1 <=> m = x)
BY DEF Is

LEMMA AccountedStep == IInv /\ [Next]_vars => Accounted' /\ AtHome'
<1> SUFFICES ASSUME IInv, [Next]_vars PROVE Accounted' /\ AtHome'
  OBVIOUS
<1>0. TypeOK /\ Accounted /\ AtHome /\ (mpc = "alloc" <=> held # None)
  BY DEF IInv, Asleep
<1>1. ASSUME UNCHANGED <<next, toND, unclaimed, held, skipped, gave, lost>>
      PROVE  Accounted' /\ AtHome'
  BY <1>0, <1>1 DEF Accounted, Places, AtHome
<1>2. CASE HostSends
  <2>1. next \in Msgs /\ toND' = Append(toND, next) /\ next' = next + 1
        /\ UNCHANGED <<unclaimed, held, skipped, gave, lost>>
    BY <1>0, <1>2 DEF HostSends, TypeOK, Msgs, queues, msgs, hist
  <2>2. ASSUME NEW m \in Msgs
        PROVE  Places(m)' = (IF m < next' THEN 1 ELSE 0) /\ IsFiniteSet(gave'[m])
    <3>1. OnQueue(m)' = OnQueue(m) + Is(m, next)
      BY <1>0, <2>1, OccursAppend DEF TypeOK, OnQueue
    <3>2. /\ Unclaimed(m)' = Unclaimed(m) /\ Held(m)' = Held(m) /\ Skipped(m)' = Skipped(m)
          /\ Given(m)' = Given(m) /\ Lost(m)' = Lost(m)
      BY <2>1 DEF Unclaimed, Held, Skipped, Given, Lost
    <3>3. m \in Nat /\ next \in Nat
      BY <2>1, Constants
    <3>4. Places(m)' = Places(m) + Is(m, next)
      BY <1>0, <3>1, <3>2, PlacesTyped, PlacesSum, Is01
    <3>5. Places(m) = (IF m < next THEN 1 ELSE 0) /\ IsFiniteSet(gave[m])
      BY <1>0 DEF Accounted
    <3> QED BY <2>1, <3>3, <3>4, <3>5 DEF Is
  <2>3. AtHome'
    BY <1>0, <2>1 DEF AtHome
  <2> QED BY <2>2, <2>3 DEF Accounted
<1>3. CASE KeepResumes
  <2> PICK x : x = held
    OBVIOUS
  <2>1. x \in Msgs /\ unclaimed' = [unclaimed EXCEPT ![PortOf[x]] = Append(@, x)] /\ held' = None
        /\ UNCHANGED <<next, toND, skipped, gave, lost>>
    BY <1>0, <1>3 DEF KeepResumes, TypeOK, hist
  <2>2. AtHome' /\ \A m \in Msgs : Unclaimed(m)' = Unclaimed(m) + Is(m, x)
    BY <1>0, <2>1, UnclaimedAdded
  <2>3. ASSUME NEW m \in Msgs PROVE Places(m)' = Places(m) /\ IsFiniteSet(gave'[m])
    <3>1. /\ OnQueue(m)' = OnQueue(m) /\ Skipped(m)' = Skipped(m) /\ Given(m)' = Given(m)
          /\ gave' = gave /\ Lost(m)' = Lost(m)
      BY <2>1 DEF OnQueue, Skipped, Given, Lost
    <3>2. Held(m) = Is(m, x) /\ Held(m)' = 0
      BY <2>1, OnceOrNot, Constants DEF Held, Is
    <3> QED BY <1>0, <2>2, <3>1, <3>2, PlacesTyped, PlacesSum, Is01
  <2> QED BY <1>0, <2>1, <2>2, <2>3, Balanced
<1>4. ASSUME NEW p \in Ports, Incoming(p), toND' = Tail(toND),
             Discard(p) \/ Deliver(p) \/ Keep(p) \/ KeepSleeps(p)
      PROVE  Accounted' /\ AtHome'
  <2> PICK x : x = Head(toND)
    OBVIOUS
  <2>1. /\ toND # <<>> /\ x \in Msgs /\ PortOf[x] = p /\ mpc # "alloc" /\ held = None
        /\ OnQueue(x) # 0 /\ \A m : OnQueue(m)' = OnQueue(m) - Is(m, x)
    BY <1>0, <1>4, QueueTyped, QueueTaken, Leads DEF Incoming, TypeOK, OnQueue
  <2>2. Unclaimed(x) = 0 /\ Held(x) = 0 /\ Skipped(x) = 0 /\ Given(x) = 0
    BY <1>0, <2>1, OnlyThere
  <2>3. CASE Discard(p)
    <3>1. skipped' = skipped \cup {x} /\ UNCHANGED <<next, unclaimed, held, gave, lost>>
      BY <2>3 DEF Discard, queues, msgs
    <3>2. ASSUME NEW m \in Msgs PROVE Places(m)' = Places(m) /\ IsFiniteSet(gave'[m])
      <4>1. /\ Unclaimed(m)' = Unclaimed(m) /\ Held(m)' = Held(m) /\ Given(m)' = Given(m)
            /\ gave' = gave /\ Lost(m)' = Lost(m)
        BY <3>1 DEF Unclaimed, Held, Given, Lost
      <4>2. Skipped(m)' = Skipped(m) + Is(m, x)
        BY <2>2, <3>1, OnceOrNot DEF Skipped, Is
      <4>3. OnQueue(m)' = OnQueue(m) - Is(m, x)
        BY <2>1
      <4> QED BY <1>0, <4>1, <4>2, <4>3, PlacesTyped, PlacesSum, Is01
    <3> QED BY <1>0, <3>1, <3>2, Balanced DEF AtHome
  <2>4. CASE Deliver(p)
    <3>1. PICK r \in Readers : Give(x, r)
      <4>1. pending[p] \in Seq(Readers) /\ pending[p] # <<>>
        BY <1>0, <2>4 DEF Deliver, TypeOK
      <4>2. Head(pending[p]) \in Readers
        BY <4>1, Tailed
      <4> QED BY <2>4, <4>2 DEF Deliver
    <3>2. UNCHANGED <<next, unclaimed, held, skipped, lost>>
      BY <2>4 DEF Deliver, Give, msgs
    <3>3. \A m \in Msgs : IsFiniteSet(gave'[m]) /\ Given(m)' = Given(m) + Is(m, x)
      BY <1>0, <2>1, <2>2, <3>1, GivenOnce DEF Give
    <3>4. ASSUME NEW m \in Msgs PROVE Places(m)' = Places(m) /\ IsFiniteSet(gave'[m])
      <4>1. /\ Unclaimed(m)' = Unclaimed(m) /\ Held(m)' = Held(m) /\ Skipped(m)' = Skipped(m)
            /\ Lost(m)' = Lost(m)
        BY <3>2 DEF Unclaimed, Held, Skipped, Lost
      <4>3. OnQueue(m)' = OnQueue(m) - Is(m, x)
        BY <2>1
      <4> QED BY <1>0, <3>3, <4>1, <4>3, PlacesTyped, PlacesSum, Is01
    <3> QED BY <1>0, <3>2, <3>4, Balanced DEF AtHome
  <2>5. CASE Keep(p)
    <3>1. /\ unclaimed' = [unclaimed EXCEPT ![PortOf[x]] = Append(@, x)]
          /\ UNCHANGED <<next, held, skipped, gave, lost>>
      BY <2>1, <2>5 DEF Keep, msgs, hist
    <3>2. AtHome' /\ \A m \in Msgs : Unclaimed(m)' = Unclaimed(m) + Is(m, x)
      BY <1>0, <2>1, <3>1, UnclaimedAdded
    <3>3. ASSUME NEW m \in Msgs PROVE Places(m)' = Places(m) /\ IsFiniteSet(gave'[m])
      <4>1. /\ Held(m)' = Held(m) /\ Skipped(m)' = Skipped(m) /\ Given(m)' = Given(m)
            /\ gave' = gave /\ Lost(m)' = Lost(m)
        BY <3>1 DEF Held, Skipped, Given, Lost
      <4>3. OnQueue(m)' = OnQueue(m) - Is(m, x)
        BY <2>1
      <4> QED BY <1>0, <3>2, <4>1, <4>3, PlacesTyped, PlacesSum, Is01
    <3> QED BY <1>0, <3>1, <3>2, <3>3, Balanced
  <2>6. CASE KeepSleeps(p)
    <3>1. held' = x /\ UNCHANGED <<next, unclaimed, skipped, gave, lost>>
      BY <2>6 DEF KeepSleeps, queues
    <3>2. ASSUME NEW m \in Msgs PROVE Places(m)' = Places(m) /\ IsFiniteSet(gave'[m])
      <4>1. /\ Unclaimed(m)' = Unclaimed(m) /\ Skipped(m)' = Skipped(m) /\ Given(m)' = Given(m)
            /\ gave' = gave /\ Lost(m)' = Lost(m)
        BY <3>1 DEF Unclaimed, Skipped, Given, Lost
      <4>2. Held(m) = 0 /\ Held(m)' = Is(m, x)
        BY <2>1, <3>1, OnceOrNot, Constants DEF Held, Is
      <4>3. OnQueue(m)' = OnQueue(m) - Is(m, x)
        BY <2>1
      <4> QED BY <1>0, <4>1, <4>2, <4>3, PlacesTyped, PlacesSum, Is01
    <3> QED BY <1>0, <3>1, <3>2, Balanced DEF AtHome
  <2> QED BY <1>4, <2>3, <2>4, <2>5, <2>6
<1>5. ASSUME NEW r \in Readers, NEW p \in Ports, ReceiveNow(r, p) PROVE Accounted' /\ AtHome'
  <2> PICK x : x = Head(unclaimed[p])
    OBVIOUS
  <2>1. /\ unclaimed[p] # <<>> /\ unclaimed' = [unclaimed EXCEPT ![p] = Tail(@)]
        /\ Give(x, r) /\ UNCHANGED <<next, toND, held, skipped, lost>>
    BY <1>5 DEF ReceiveNow, Give, msgs
  <2>2. AtHome' /\ x \in Msgs /\ PortOf[x] = p /\ \A m \in Msgs : Unclaimed(m)' = Unclaimed(m) - Is(m, x)
    BY <1>0, <2>1, UnclaimedTaken
  <2>3. Unclaimed(x) # 0
    BY <1>0, <2>1, <2>2, Leads DEF TypeOK, Unclaimed
  <2>4. \A m \in Msgs : IsFiniteSet(gave'[m]) /\ Given(m)' = Given(m) + Is(m, x)
    BY <1>0, <2>1, <2>2, <2>3, OnlyThere, GivenOnce DEF Give
  <2>5. ASSUME NEW m \in Msgs PROVE Places(m)' = Places(m) /\ IsFiniteSet(gave'[m])
    <3>1. /\ OnQueue(m)' = OnQueue(m) /\ Held(m)' = Held(m) /\ Skipped(m)' = Skipped(m)
          /\ Lost(m)' = Lost(m)
      BY <2>1 DEF OnQueue, Held, Skipped, Lost
    <3> QED BY <1>0, <2>2, <2>4, <3>1, PlacesTyped, PlacesSum, Is01
  <2> QED BY <1>0, <2>1, <2>2, <2>5, Balanced
<1>11. CASE KeepAstray
  <2> PICK x : x = held
    OBVIOUS
  <2>1. /\ x \in Msgs /\ lost' = lost \cup {x} /\ held' = None
        /\ UNCHANGED <<next, toND, unclaimed, skipped, gave>>
    BY <1>0, <1>11 DEF KeepAstray, TypeOK, queues
  <2>2. Held(x) # 0 /\ Lost(x) = 0
    <3>1. Held(x) # 0
      BY OnceOrNot DEF Held
    <3> QED BY <1>0, <2>1, <3>1, OnlyThere
  <2>3. ASSUME NEW m \in Msgs PROVE Places(m)' = Places(m) /\ IsFiniteSet(gave'[m])
    <3>1. /\ OnQueue(m)' = OnQueue(m) /\ Unclaimed(m)' = Unclaimed(m)
          /\ Skipped(m)' = Skipped(m) /\ Given(m)' = Given(m) /\ gave' = gave
      BY <2>1 DEF OnQueue, Unclaimed, Skipped, Given
    <3>2. Held(m) = Is(m, x) /\ Held(m)' = 0
      BY <2>1, OnceOrNot, Constants DEF Held, Is
    <3>3. Lost(m)' = Lost(m) + Is(m, x)
      BY <2>1, <2>2, OnceOrNot DEF Lost, Is
    <3> QED BY <1>0, <3>1, <3>2, <3>3, PlacesTyped, PlacesSum, Is01
  <2> QED BY <1>0, <2>1, <2>3, Balanced DEF AtHome
<1>6. ASSUME NEW p \in Ports, Discard(p) \/ Deliver(p) \/ Keep(p) \/ KeepSleeps(p)
      PROVE  Accounted' /\ AtHome'
  BY <1>4, <1>6 DEF Discard, Deliver, Keep, KeepSleeps
<1>7. CASE UNCHANGED vars \/ MessagesWakes \/ MessagesSleeps
  BY <1>1, <1>7 DEF vars, queues, msgs, procs, hist, MessagesWakes, MessagesSleeps
<1>8. ASSUME NEW p \in Ports, AddPortToList(p) \/ DeletePortFromList(p) PROVE Accounted' /\ AtHome'
  BY <1>1, <1>8 DEF queues, msgs, procs, hist, AddPortToList, DeletePortFromList
<1>9. ASSUME NEW r \in Readers, Awake(r) PROVE Accounted' /\ AtHome'
  BY <1>1, <1>9 DEF queues, msgs, procs, hist, Awake, ReceiveResumes, ReceiveAstray, ReceiveReturns
<1>10. ASSUME NEW r \in Readers, NEW p \in Ports, ReceiveWaits(r, p) \/ ReceiveSleeps(r, p)
       PROVE  Accounted' /\ AtHome'
  BY <1>1, <1>10 DEF queues, msgs, procs, hist, ReceiveWaits, ReceiveSleeps
<1> QED
  BY <1>2, <1>3, <1>5, <1>6, <1>7, <1>8, <1>9, <1>10, <1>11 DEF Next, Messages
----------------------------------------------------------------------------
LEMMA LostStep == IInv /\ [Next]_vars => LostWithPort'
<1> SUFFICES ASSUME IInv, [Next]_vars PROVE LostWithPort'
  OBVIOUS
<1>0. LostWithPort /\ Asleep /\ TypeOK
  BY DEF IInv
<1>1. ASSUME dead \subseteq dead', slept \subseteq slept', UNCHANGED <<lost, astray>>
      PROVE  LostWithPort'
  BY <1>0, <1>1 DEF LostWithPort
<1> USE DEF queues, msgs, procs, hist, ends
<1>2. CASE UNCHANGED vars \/ HostSends \/ MessagesWakes \/ MessagesSleeps \/ KeepResumes
  BY <1>1, <1>2 DEF vars, HostSends, MessagesWakes, MessagesSleeps, KeepResumes
<1>3. CASE KeepAstray
  <2>1. /\ PortOf[held] \in dead \cap slept /\ lost' = lost \cup {held} /\ astray'
        /\ UNCHANGED <<dead, slept>>
    BY <1>0, <1>3 DEF KeepAstray, Asleep
  <2> QED BY <1>0, <2>1 DEF LostWithPort
<1>4. ASSUME NEW p \in Ports, Discard(p) \/ Deliver(p) \/ Keep(p) \/ KeepSleeps(p)
      PROVE  LostWithPort'
  BY <1>1, <1>4 DEF Discard, Deliver, Give, Keep, KeepSleeps, Sleeps
<1>5. ASSUME NEW p \in Ports, AddPortToList(p) \/ DeletePortFromList(p) PROVE LostWithPort'
  BY <1>1, <1>5 DEF AddPortToList, DeletePortFromList
<1>6. ASSUME NEW r \in Readers, ReceiveResumes(r) \/ ReceiveReturns(r) PROVE LostWithPort'
  BY <1>1, <1>6 DEF ReceiveResumes, ReceiveReturns
<1>7. ASSUME NEW r \in Readers, ReceiveAstray(r) PROVE LostWithPort'
  <2>1. rport[r] \in dead \cap slept /\ astray' /\ UNCHANGED <<dead, slept, lost>>
    BY <1>0, <1>7 DEF ReceiveAstray, Asleep
  <2> QED BY <1>0, <2>1 DEF LostWithPort
<1>8. ASSUME NEW r \in Readers, NEW p \in Ports,
             ReceiveNow(r, p) \/ ReceiveWaits(r, p) \/ ReceiveSleeps(r, p)
      PROVE  LostWithPort'
  BY <1>1, <1>8 DEF ReceiveNow, Give, ReceiveWaits, ReceiveSleeps, Sleeps
<1> QED
  BY <1>2, <1>3, <1>4, <1>5, <1>6, <1>7, <1>8 DEF Next, Messages, Awake
----------------------------------------------------------------------------
LEMMA AsleepStep == IInv /\ [Next]_vars => Asleep'
<1> SUFFICES ASSUME IInv, [Next]_vars PROVE Asleep'
  OBVIOUS
<1> USE DEF Asleep, queues, msgs, procs, hist
<1>0. TypeOK /\ Asleep /\ None \notin Msgs
  BY Constants DEF IInv
<1>1. CASE UNCHANGED vars \/ HostSends \/ MessagesWakes \/ MessagesSleeps
  BY <1>0, <1>1 DEF vars, HostSends, MessagesWakes, MessagesSleeps
<1>2. CASE KeepResumes \/ KeepAstray
  BY <1>0, <1>2 DEF KeepResumes, KeepAstray
<1>3. ASSUME NEW p \in Ports, Discard(p) \/ Deliver(p) \/ Keep(p) PROVE Asleep'
  BY <1>0, <1>3 DEF Discard, Deliver, Keep, Give
<1>4. ASSUME NEW p \in Ports, KeepSleeps(p) PROVE Asleep'
  <2>1. Head(toND) \in Msgs /\ PortOf[Head(toND)] = p
    BY <1>0, <1>4, QueueTyped DEF KeepSleeps, Incoming
  <2> QED BY <1>0, <1>4, <2>1 DEF KeepSleeps, Sleeps
<1>5. ASSUME NEW p \in Ports, AddPortToList(p) \/ DeletePortFromList(p) PROVE Asleep'
  BY <1>0, <1>5 DEF AddPortToList, DeletePortFromList
<1>6. ASSUME NEW r \in Readers, Awake(r) PROVE Asleep'
  BY <1>0, <1>6 DEF Awake, ReceiveResumes, ReceiveAstray, ReceiveReturns, TypeOK
<1>7. ASSUME NEW r \in Readers, NEW p \in Ports, ReceiveNow(r, p) PROVE Asleep'
  BY <1>0, <1>7 DEF ReceiveNow, Give
<1>8. ASSUME NEW r \in Readers, NEW p \in Ports, ReceiveWaits(r, p) \/ ReceiveSleeps(r, p) PROVE Asleep'
  BY <1>0, <1>8 DEF ReceiveWaits, ReceiveSleeps, Sleeps, TypeOK
<1> QED
  BY <1>1, <1>2, <1>3, <1>4, <1>5, <1>6, <1>7, <1>8 DEF Next, Messages
----------------------------------------------------------------------------
\* What Append and Tail do to the order of sequences of numbers.
LEMMA AppendOrder ==
  ASSUME NEW S, NEW s \in Seq(S), NEW x \in S
  PROVE  /\ Increasing(s) /\ Below(s, x) => Increasing(Append(s, x))
         /\ \A n : Below(s, n) /\ x < n => Below(Append(s, x), n)
         /\ \A n : Above(s, n) /\ n < x => Above(Append(s, x), n)
         /\ \A t : Before(s, t) /\ Above(t, x) => Before(Append(s, x), t)
         /\ \A t : Before(t, s) /\ Below(t, x) => Before(t, Append(s, x))
<1> DEFINE a == Append(s, x)
<1>1. /\ Len(s) \in Nat /\ Len(a) = Len(s) + 1
      /\ \A i \in 1..Len(s) : a[i] = s[i]
      /\ a[Len(s) + 1] = x
  BY Appended
<1> HIDE DEF a
<1>2. \A i \in 1..Len(a) : (i \in 1..Len(s) /\ a[i] = s[i]) \/ (i = Len(s) + 1 /\ a[i] = x)
  BY <1>1
<1>3. \A i, j \in 1..Len(a) : i < j => i \in 1..Len(s) /\ a[i] = s[i]
  BY <1>1
<1>4. Increasing(s) /\ Below(s, x) => Increasing(a)
  BY <1>2, <1>3 DEF Increasing, Below
<1>5. \A n : Below(s, n) /\ x < n => Below(a, n)
  BY <1>2 DEF Below
<1>6. \A n : Above(s, n) /\ n < x => Above(a, n)
  BY <1>2 DEF Above
<1>7. \A t : Before(s, t) /\ Above(t, x) => Before(a, t)
  BY <1>2 DEF Before, Above
<1>8. \A t : Before(t, s) /\ Below(t, x) => Before(t, a)
  BY <1>2 DEF Before, Below
<1> QED
  BY <1>4, <1>5, <1>6, <1>7, <1>8 DEF a

LEMMA TailOrder ==
  ASSUME NEW S, NEW s \in Seq(S), s # <<>>
  PROVE  /\ Increasing(s) => Increasing(Tail(s)) /\ Above(Tail(s), Head(s))
         /\ \A n : Below(s, n) => Below(Tail(s), n) /\ Head(s) < n
         /\ \A n : Above(s, n) => Above(Tail(s), n) /\ n < Head(s)
         /\ \A t : Before(s, t) => Before(Tail(s), t) /\ Above(t, Head(s))
         /\ \A t : Before(t, s) => Before(t, Tail(s)) /\ Below(t, Head(s))
<1> DEFINE a == Tail(s)
           h == Head(s)
<1>1. Len(s) \in Nat \ {0} /\ h = s[1] /\ 1 \in 1..Len(s) /\ Len(a) = Len(s) - 1
  BY Tailed
<1>2. \A i \in 1..Len(a) : i + 1 \in 1..Len(s) /\ a[i] = s[i + 1] /\ i \in Nat
  BY TailAt
<1> HIDE DEF a, h
<1>3. Increasing(s) => Increasing(a)
  <2> SUFFICES ASSUME Increasing(s), NEW i \in 1..Len(a), NEW j \in 1..Len(a), i < j PROVE a[i] < a[j]
    BY DEF Increasing
  <2>1. i + 1 < j + 1 /\ i + 1 \in 1..Len(s) /\ j + 1 \in 1..Len(s)
    BY <1>2
  <2> QED BY <1>2, <2>1 DEF Increasing
<1>4. Increasing(s) => Above(a, h)
  <2> SUFFICES ASSUME Increasing(s), NEW i \in 1..Len(a) PROVE h < a[i]
    BY DEF Above
  <2>1. 1 < i + 1 /\ i + 1 \in 1..Len(s)
    BY <1>1, <1>2
  <2> QED BY <1>1, <1>2, <2>1 DEF Increasing
<1>5. \A n : Below(s, n) => Below(a, n) /\ h < n
  BY <1>1, <1>2 DEF Below
<1>6. \A n : Above(s, n) => Above(a, n) /\ n < h
  BY <1>1, <1>2 DEF Above
<1>7. \A t : Before(s, t) => Before(a, t) /\ Above(t, h)
  BY <1>1, <1>2 DEF Before, Above
<1>8. \A t : Before(t, s) => Before(t, a) /\ Below(t, h)
  BY <1>1, <1>2 DEF Before, Below
<1> QED
  BY <1>3, <1>4, <1>5, <1>6, <1>7, <1>8 DEF a, h

LEMMA EmptyOrder ==
  /\ Increasing(<<>>) /\ \A n : Below(<<>>, n) /\ Above(<<>>, n)
  /\ \A s : Before(s, <<>>) /\ Before(<<>>, s)
BY DEF Increasing, Below, Above, Before

LEMMA BelowNext ==
  ASSUME NEW s \in Seq(Msgs), Below(s, next), next \in Nat PROVE Below(s, next + 1)
<1>1. ASSUME NEW i \in 1..Len(s) PROVE s[i] < next + 1
  <2>1. s[i] \in Nat
    BY ElementOfSeq, Constants
  <2> QED BY <2>1 DEF Below
<1> QED BY <1>1 DEF Below

LEMMA MsgsAbove ==
  ASSUME NEW s \in Seq(Msgs) PROVE Above(s, None)
<1>1. ASSUME NEW i \in 1..Len(s) PROVE None < s[i]
  <2>1. s[i] \in Nat \ {0}
    BY ElementOfSeq, Constants
  <2> QED BY <2>1 DEF None
<1> QED BY <1>1 DEF Above

\* What x, given to a reader, does to the order of what was given out.
LEMMA GiveOrder ==
  ASSUME TypeOK, NEW x \in Msgs, NEW r \in Readers, Give(x, r)
  PROVE  /\ claimed'[PortOf[x]] = Append(claimed[PortOf[x]], x) /\ PortOf[x] \in Ports
         /\ \A o \in Ports : o # PortOf[x] => claimed'[o] = claimed[o]
         /\ slept' = slept
BY Constants DEF TypeOK, Give

LEMMA QueueLastStep == IInv /\ [Next]_vars => QueueLast'
<1> SUFFICES ASSUME IInv, [Next]_vars PROVE QueueLast'
  OBVIOUS
<1>0. /\ TypeOK /\ AtHome /\ (mpc = "alloc" <=> held # None)
      /\ Increasing(toND) /\ Below(toND, next) /\ held < next /\ Above(toND, held)
      /\ toND \in Seq(Msgs) /\ next \in Nat
  BY Constants DEF IInv, Asleep, QueueLast, TypeOK
<1>01. ASSUME NEW o \in Ports
       PROVE  /\ Below(claimed[o], next) /\ Before(claimed[o], toND) /\ claimed[o] \in Seq(Msgs)
              /\ Below(unclaimed[o], next) /\ Before(unclaimed[o], toND) /\ unclaimed[o] \in Seq(Msgs)
  BY DEF IInv, QueueLast, TypeOK
<1>1. ASSUME UNCHANGED <<next, toND, claimed, unclaimed, held>> PROVE QueueLast'
  BY <1>1 DEF IInv, QueueLast, Increasing, Below, Above, Before
<1>2. CASE HostSends
  <2>1. next \in Msgs /\ toND' = Append(toND, next) /\ next' = next + 1
        /\ UNCHANGED <<claimed, unclaimed, held>>
    BY <1>0, <1>2 DEF HostSends, TypeOK, Msgs, queues, msgs, hist
  <2>2. held < next + 1 /\ next < next + 1
    BY <1>0, Constants DEF TypeOK, None
  <2>3. Increasing(toND') /\ Below(toND', next') /\ Above(toND', held)
    BY <1>0, <2>1, <2>2, BelowNext, AppendOrder
  <2>4. ASSUME NEW o \in Ports
        PROVE  /\ Below(claimed[o], next') /\ Before(claimed[o], toND')
               /\ Below(unclaimed[o], next') /\ Before(unclaimed[o], toND')
    BY <1>0, <1>01, <2>1, BelowNext, AppendOrder
  <2> QED BY <2>1, <2>2, <2>3, <2>4 DEF QueueLast, Increasing, Below, Above, Before
<1>3. CASE KeepResumes
  <2> PICK x : x = held
    OBVIOUS
  <2>1. /\ x \in Msgs /\ held' = None
        /\ unclaimed' = [unclaimed EXCEPT ![PortOf[x]] = Append(@, x)]
        /\ UNCHANGED <<next, toND, claimed>>
    BY <1>0, <1>3 DEF KeepResumes, TypeOK, hist
  <2>2. PortOf[x] \in Ports /\ None < next /\ Above(toND, None)
    BY <1>0, <2>1, Constants, MsgsAbove DEF TypeOK, None
  <2>3. Below(Append(unclaimed[PortOf[x]], x), next) /\ Before(Append(unclaimed[PortOf[x]], x), toND)
    BY <1>0, <1>01, <2>1, <2>2, AppendOrder
  <2>4. ASSUME NEW o \in Ports PROVE Below(unclaimed'[o], next) /\ Before(unclaimed'[o], toND)
    BY <1>0, <1>01, <2>1, <2>3 DEF TypeOK
  <2>5. /\ Increasing(toND') /\ Below(toND', next') /\ held' < next' /\ Above(toND', held')
        /\ \A o \in Ports : /\ Below(claimed'[o], next') /\ Before(claimed'[o], toND')
                            /\ Below(unclaimed'[o], next') /\ Before(unclaimed'[o], toND')
    BY <1>0, <1>01, <2>1, <2>2, <2>4
  <2> QED BY <2>5 DEF QueueLast, Increasing, Below, Above, Before
<1>11. CASE KeepAstray
  <2>1. held' = None /\ UNCHANGED <<next, toND, claimed, unclaimed>>
    BY <1>11 DEF KeepAstray, queues
  <2>2. None < next /\ Above(toND, None)
    BY <1>0, MsgsAbove DEF TypeOK, None
  <2> QED BY <1>0, <1>01, <2>1, <2>2 DEF QueueLast, Increasing, Below, Above, Before
<1>4. ASSUME NEW p \in Ports, Incoming(p), Discard(p) \/ Deliver(p) \/ Keep(p) \/ KeepSleeps(p)
      PROVE  QueueLast'
  <2> PICK x : x = Head(toND)
    OBVIOUS
  <2>1. toND # <<>> /\ x \in Msgs /\ PortOf[x] = p /\ toND' = Tail(toND) /\ next' = next /\ mpc # "alloc"
    BY <1>0, <1>4, QueueTyped DEF Incoming, Discard, Deliver, Keep, KeepSleeps
  <2>2. Increasing(toND') /\ Below(toND', next) /\ Above(toND', x) /\ x < next /\ Above(toND', held)
    BY <1>0, <2>1, TailOrder
  <2>3. ASSUME NEW o \in Ports PROVE Before(claimed[o], toND') /\ Before(unclaimed[o], toND')
    BY <1>0, <1>01, <2>1, TailOrder
  <2>4. ASSUME NEW s \in Seq(Msgs), Below(s, next), Before(s, toND')
        PROVE  Below(Append(s, x), next) /\ Before(Append(s, x), toND')
    BY <2>1, <2>2, <2>4, AppendOrder
  <2>5. /\ held' = held \/ held' = x
        /\ \A o \in Ports : /\ claimed'[o] = claimed[o] \/ claimed'[o] = Append(claimed[o], x)
                            /\ unclaimed'[o] = unclaimed[o] \/ unclaimed'[o] = Append(unclaimed[o], x)
    <3>1. CASE Discard(p)
      BY <3>1 DEF Discard, queues, msgs
    <3>2. CASE Deliver(p)
      <4>1. pending[p] \in Seq(Readers) /\ pending[p] # <<>> /\ Give(x, Head(pending[p]))
        BY <1>0, <3>2 DEF Deliver, TypeOK
      <4>2. Head(pending[p]) \in Readers
        BY <4>1, Tailed
      <4>3. \A o \in Ports : claimed'[o] = claimed[o] \/ claimed'[o] = Append(claimed[o], x)
        BY <1>0, <2>1, <4>1, <4>2, GiveOrder
      <4> QED BY <3>2, <4>3 DEF Deliver, msgs
    <3>3. CASE Keep(p)
      BY <1>0, <3>3 DEF Keep, TypeOK, msgs, hist
    <3>4. CASE KeepSleeps(p)
      BY <3>4 DEF KeepSleeps, queues
    <3> QED BY <1>4, <3>1, <3>2, <3>3, <3>4
  <2>6. ASSUME NEW o \in Ports
        PROVE  /\ Below(claimed'[o], next) /\ Before(claimed'[o], toND')
               /\ Below(unclaimed'[o], next) /\ Before(unclaimed'[o], toND')
    <3>1. /\ claimed[o] \in Seq(Msgs) /\ Below(claimed[o], next) /\ Before(claimed[o], toND')
          /\ unclaimed[o] \in Seq(Msgs) /\ Below(unclaimed[o], next) /\ Before(unclaimed[o], toND')
      BY <1>01, <2>3
    <3>2. /\ Below(Append(claimed[o], x), next) /\ Before(Append(claimed[o], x), toND')
          /\ Below(Append(unclaimed[o], x), next) /\ Before(Append(unclaimed[o], x), toND')
      BY <2>4, <3>1
    <3>3. /\ claimed'[o] = claimed[o] \/ claimed'[o] = Append(claimed[o], x)
          /\ unclaimed'[o] = unclaimed[o] \/ unclaimed'[o] = Append(unclaimed[o], x)
      BY <2>5
    <3> QED BY <3>1, <3>2, <3>3
  <2>7. held' < next' /\ Above(toND', held')
    BY <1>0, <2>1, <2>2, <2>5
  <2> QED BY <2>1, <2>2, <2>6, <2>7 DEF QueueLast, Increasing, Below, Above, Before
<1>5. ASSUME NEW r \in Readers, NEW p \in Ports, ReceiveNow(r, p) PROVE QueueLast'
  <2> PICK x : x = Head(unclaimed[p])
    OBVIOUS
  <2>1. /\ unclaimed[p] # <<>> /\ unclaimed' = [unclaimed EXCEPT ![p] = Tail(@)]
        /\ Give(x, r) /\ UNCHANGED <<next, toND, held>> /\ unclaimed[p] \in Seq(Msgs)
    BY <1>0, <1>5 DEF ReceiveNow, msgs, TypeOK
  <2>2. x \in Msgs /\ PortOf[x] = p
    BY <1>0, <2>1, UnclaimedTaken
  <2>3. /\ Below(Tail(unclaimed[p]), next) /\ Before(Tail(unclaimed[p]), toND)
        /\ x < next /\ Above(toND, x)
    BY <1>01, <2>1, TailOrder
  <2>4. Below(Append(claimed[p], x), next) /\ Before(Append(claimed[p], x), toND)
    BY <1>01, <2>2, <2>3, AppendOrder
  <2>5. ASSUME NEW o \in Ports
        PROVE  /\ Below(claimed'[o], next) /\ Before(claimed'[o], toND)
               /\ Below(unclaimed'[o], next) /\ Before(unclaimed'[o], toND)
    <3>1. claimed'[o] = claimed[o] \/ (o = p /\ claimed'[o] = Append(claimed[p], x))
      BY <1>0, <2>1, <2>2, GiveOrder
    <3>2. unclaimed'[o] = unclaimed[o] \/ unclaimed'[o] = Tail(unclaimed[p])
      BY <1>0, <2>1 DEF TypeOK
    <3> QED BY <1>01, <2>3, <2>4, <3>1, <3>2
  <2>6. Increasing(toND') /\ Below(toND', next') /\ held' < next' /\ Above(toND', held')
    BY <1>0, <2>1
  <2> QED BY <2>1, <2>5, <2>6 DEF QueueLast, Increasing, Below, Above, Before
<1>6. ASSUME NEW p \in Ports, Discard(p) \/ Deliver(p) \/ Keep(p) \/ KeepSleeps(p)
      PROVE  QueueLast'
  BY <1>4, <1>6 DEF Discard, Deliver, Keep, KeepSleeps
<1>7. CASE UNCHANGED vars \/ MessagesWakes \/ MessagesSleeps
  BY <1>1, <1>7 DEF vars, queues, msgs, procs, hist, MessagesWakes, MessagesSleeps
<1>8. ASSUME NEW p \in Ports, AddPortToList(p) \/ DeletePortFromList(p) PROVE QueueLast'
  BY <1>1, <1>8 DEF queues, msgs, procs, hist, AddPortToList, DeletePortFromList
<1>9. ASSUME NEW r \in Readers, Awake(r) PROVE QueueLast'
  BY <1>1, <1>9 DEF queues, msgs, procs, hist, Awake, ReceiveResumes, ReceiveAstray, ReceiveReturns
<1>10. ASSUME NEW r \in Readers, NEW p \in Ports, ReceiveWaits(r, p) \/ ReceiveSleeps(r, p)
       PROVE  QueueLast'
  BY <1>1, <1>10 DEF queues, msgs, procs, hist, ReceiveWaits, ReceiveSleeps
<1> QED
  BY <1>2, <1>3, <1>5, <1>6, <1>7, <1>8, <1>9, <1>10, <1>11 DEF Next, Messages

LEMMA ServedStep == IInv /\ [Next]_vars => \A p \in Ports \ slept' : Served(p)'
<1> SUFFICES ASSUME IInv, [Next]_vars, NEW o \in Ports \ slept' PROVE Served(o)'
  OBVIOUS
<1> DEFINE c == claimed[o]
           u == unclaimed[o]
<1>0. /\ TypeOK /\ AtHome /\ (held # None => PortOf[held] \in slept) /\ (mpc = "alloc" <=> held # None)
      /\ \A r \in Readers : rpc[r] = "alloc" => rport[r] \in slept
      /\ c \in Seq(Msgs) /\ u \in Seq(Msgs)
  BY DEF IInv, Asleep, TypeOK
<1>01. Below(c, next) /\ Before(c, toND) /\ Below(u, next) /\ Before(u, toND)
  BY DEF IInv, QueueLast
<1>02. Served(o)' <=> /\ pending'[o] = <<>> \/ unclaimed'[o] = <<>>
                      /\ Increasing(claimed'[o]) /\ Increasing(unclaimed'[o])
                      /\ Before(claimed'[o], unclaimed'[o])
  BY DEF Served, Increasing, Before
<1>03. ASSUME o \notin slept
       PROVE  /\ pending[o] = <<>> \/ u = <<>>
              /\ Increasing(c) /\ Increasing(u) /\ Before(c, u)
  BY <1>03 DEF IInv, Served
<1> HIDE DEF c, u
<1>1. ASSUME slept' = slept, claimed'[o] = c, unclaimed'[o] = u,
             pending'[o] = pending[o] \/ pending'[o] = <<>> \/ u = <<>>
      PROVE  Served(o)'
  BY <1>02, <1>03, <1>1
<1>2. CASE UNCHANGED vars \/ HostSends \/ MessagesWakes \/ MessagesSleeps
  <2>1. UNCHANGED <<slept, claimed, unclaimed, pending>>
    BY <1>2 DEF vars, HostSends, MessagesWakes, MessagesSleeps, queues, hist
  <2> QED BY <1>1, <2>1 DEF c, u
<1>3. CASE KeepResumes
  <2>1. /\ UNCHANGED <<slept, claimed, pending>> /\ o # PortOf[held]
        /\ unclaimed' = [unclaimed EXCEPT ![PortOf[held]] = Append(@, held)]
    BY <1>0, <1>3 DEF KeepResumes, hist
  <2>2. unclaimed'[o] = u
    BY <1>0, <2>1 DEF TypeOK, u
  <2> QED BY <1>1, <2>1, <2>2 DEF c
<1>14. CASE KeepAstray
  <2>1. UNCHANGED <<slept, claimed, unclaimed, pending>>
    BY <1>14 DEF KeepAstray, queues
  <2> QED BY <1>1, <2>1 DEF c, u
<1>4. ASSUME NEW p \in Ports, Discard(p) PROVE Served(o)'
  BY <1>1, <1>4 DEF Discard, queues, c, u
<1>5. ASSUME NEW p \in Ports, Deliver(p) PROVE Served(o)'
  <2> PICK x : x = Head(toND)
    OBVIOUS
  <2>1. toND \in Seq(Msgs) /\ toND # <<>> /\ x \in Msgs /\ PortOf[x] = p
    BY <1>0, <1>5, QueueTyped DEF Deliver, Incoming, TypeOK
  <2>2. pending[p] \in Seq(Readers) /\ pending[p] # <<>> /\ Give(x, Head(pending[p]))
    BY <1>0, <1>5 DEF Deliver, TypeOK
  <2>3. Head(pending[p]) \in Readers
    BY <2>2, Tailed
  <2>4. /\ claimed'[p] = Append(claimed[p], x) /\ slept' = slept
        /\ \A z \in Ports : z # p => claimed'[z] = claimed[z]
    BY <1>0, <2>1, <2>2, <2>3, GiveOrder
  <2>5. unclaimed'[o] = u
    BY <1>5 DEF Deliver, u
  <2>6. CASE o = p
    <3>1. u = <<>> /\ Increasing(c)
      BY <1>03, <2>2, <2>4, <2>6
    <3>2. Below(c, x)
      BY <1>01, <2>1, TailOrder
    <3>3. Increasing(Append(c, x))
      BY <1>0, <2>1, <3>1, <3>2, AppendOrder
    <3> QED BY <1>02, <2>4, <2>5, <2>6, <3>1, <3>3, EmptyOrder DEF c
  <2>7. CASE o # p
    <3>1. pending'[o] = pending[o]
      BY <1>0, <1>5, <2>7 DEF Deliver, TypeOK
    <3> QED BY <1>1, <2>4, <2>5, <2>7, <3>1 DEF c
  <2> QED BY <2>6, <2>7
<1>6. ASSUME NEW p \in Ports, Keep(p) PROVE Served(o)'
  <2> PICK x : x = Head(toND)
    OBVIOUS
  <2>1. toND \in Seq(Msgs) /\ toND # <<>> /\ x \in Msgs
    BY <1>0, <1>6, QueueTyped DEF Keep, Incoming, TypeOK
  <2>2. /\ unclaimed' = [unclaimed EXCEPT ![p] = Append(@, x)] /\ pending[p] = <<>>
        /\ UNCHANGED <<pending, claimed, slept>>
    BY <1>6 DEF Keep, hist
  <2>3. CASE o = p
    <3>1. unclaimed'[o] = Append(u, x) /\ pending'[o] = <<>>
      BY <1>0, <2>2, <2>3 DEF TypeOK, u
    <3>2. Below(u, x) /\ Below(c, x)
      BY <1>01, <2>1, TailOrder
    <3>3. Increasing(Append(u, x)) /\ Before(c, Append(u, x))
      BY <1>0, <1>03, <2>1, <2>2, <3>2, AppendOrder
    <3> QED BY <1>02, <1>03, <2>2, <3>1, <3>3 DEF c
  <2>4. CASE o # p
    <3>1. unclaimed'[o] = u
      BY <1>0, <2>2, <2>4 DEF TypeOK, u
    <3> QED BY <1>1, <2>2, <3>1 DEF c
  <2> QED BY <2>3, <2>4
<1>7. ASSUME NEW p \in Ports, KeepSleeps(p) PROVE Served(o)'
  <2>1. UNCHANGED <<claimed, unclaimed, pending>> /\ o \notin slept
    BY <1>7 DEF KeepSleeps, Sleeps, queues
  <2> QED BY <1>02, <1>03, <2>1 DEF c, u
<1>8. ASSUME NEW p \in Ports, AddPortToList(p) PROVE Served(o)'
  BY <1>1, <1>8 DEF AddPortToList, hist, c, u
<1>9. ASSUME NEW p \in Ports, DeletePortFromList(p) PROVE Served(o)'
  <2>1. pending'[o] = pending[o] \/ pending'[o] = <<>>
    BY <1>0, <1>9 DEF DeletePortFromList, TypeOK
  <2> QED BY <1>1, <1>9, <2>1 DEF DeletePortFromList, hist, c, u
<1>10. ASSUME NEW r \in Readers, Awake(r) PROVE Served(o)'
  <2>1. CASE ReceiveResumes(r)
    <3>1. rport[r] # o /\ pending' = [pending EXCEPT ![rport[r]] = Append(@, r)]
          /\ UNCHANGED <<unclaimed, claimed, slept>>
      BY <1>0, <2>1 DEF ReceiveResumes, hist
    <3>2. pending'[o] = pending[o]
      BY <1>0, <3>1 DEF TypeOK
    <3> QED BY <1>1, <3>1, <3>2 DEF c, u
  <2>2. CASE ReceiveReturns(r)
    BY <1>1, <2>2 DEF ReceiveReturns, queues, hist, c, u
  <2>3. CASE ReceiveAstray(r)
    BY <1>1, <2>3 DEF ReceiveAstray, queues, hist, c, u
  <2> QED BY <1>10, <2>1, <2>2, <2>3 DEF Awake
<1>11. ASSUME NEW r \in Readers, NEW p \in Ports, ReceiveNow(r, p) PROVE Served(o)'
  <2> PICK x : x = Head(unclaimed[p])
    OBVIOUS
  <2>1. /\ unclaimed[p] # <<>> /\ unclaimed' = [unclaimed EXCEPT ![p] = Tail(@)]
        /\ Give(x, r) /\ UNCHANGED pending
    BY <1>11 DEF ReceiveNow
  <2>2. x \in Msgs /\ PortOf[x] = p
    BY <1>0, <2>1, UnclaimedTaken
  <2>3. /\ claimed'[p] = Append(claimed[p], x) /\ slept' = slept
        /\ \A z \in Ports : z # p => claimed'[z] = claimed[z]
    BY <1>0, <2>1, <2>2, GiveOrder
  <2>4. CASE o = p
    <3>1. u # <<>> /\ x = Head(u) /\ unclaimed'[o] = Tail(u) /\ claimed'[o] = Append(c, x)
      BY <1>0, <2>1, <2>3, <2>4 DEF TypeOK, u, c
    <3>2. pending'[o] = <<>> /\ Increasing(c) /\ Increasing(u) /\ Before(c, u)
      BY <1>03, <2>1, <2>3, <3>1
    <3>3. /\ Increasing(Tail(u)) /\ Above(Tail(u), x) /\ Before(c, Tail(u)) /\ Below(c, x)
      BY <1>0, <3>1, <3>2, TailOrder
    <3>4. Increasing(Append(c, x)) /\ Before(Append(c, x), Tail(u))
      BY <1>0, <2>2, <3>2, <3>3, AppendOrder
    <3> QED BY <1>02, <3>1, <3>2, <3>3, <3>4
  <2>5. CASE o # p
    <3>1. unclaimed'[o] = u
      BY <1>0, <2>1, <2>5 DEF TypeOK, u
    <3> QED BY <1>1, <2>1, <2>3, <2>5, <3>1 DEF c
  <2> QED BY <2>4, <2>5
<1>12. ASSUME NEW r \in Readers, NEW p \in Ports, ReceiveWaits(r, p) PROVE Served(o)'
  <2>1. /\ unclaimed[p] = <<>> /\ pending' = [pending EXCEPT ![p] = Append(@, r)]
        /\ UNCHANGED <<unclaimed, claimed, slept>>
    BY <1>12 DEF ReceiveWaits, hist
  <2>2. pending'[o] = pending[o] \/ u = <<>>
    BY <1>0, <2>1 DEF TypeOK, u
  <2> QED BY <1>1, <2>1, <2>2 DEF c, u
<1>13. ASSUME NEW r \in Readers, NEW p \in Ports, ReceiveSleeps(r, p) PROVE Served(o)'
  <2>1. UNCHANGED <<claimed, unclaimed, pending>> /\ o \notin slept
    BY <1>13 DEF ReceiveSleeps, Sleeps, queues
  <2> QED BY <1>02, <1>03, <2>1 DEF c, u
<1> QED
  BY <1>2, <1>3, <1>4, <1>5, <1>6, <1>7, <1>8, <1>9, <1>10, <1>11, <1>12, <1>13, <1>14 DEF Next, Messages
----------------------------------------------------------------------------
LEMMA IInvInit == Init => IInv
<1> SUFFICES ASSUME Init PROVE IInv
  OBVIOUS
<1>1. TypeOK
  <2>1. next = 1 /\ 1 \in 1..(NMsgs + 1)
    BY Constants DEF Init
  <2>2. hung \in BOOLEAN /\ astray \in BOOLEAN
    BY DEF Init
  <2>3. toND = <<>> /\ claimed = [p \in Ports |-> <<>>] /\ unclaimed = [p \in Ports |-> <<>>]
        /\ pending = [p \in Ports |-> <<>>]
    BY DEF Init
  <2>4. toND \in Seq(Msgs) /\ claimed \in [Ports -> Seq(Msgs)] /\ unclaimed \in [Ports -> Seq(Msgs)]
        /\ pending \in [Ports -> Seq(Readers)]
    BY <2>3, EmptySeq
  <2> QED BY <2>1, <2>2, <2>4 DEF Init, TypeOK
<1>2. Accounted
  <2> SUFFICES ASSUME NEW m \in Msgs
               PROVE  Places(m) = (IF m < next THEN 1 ELSE 0) /\ IsFiniteSet(gave[m])
    BY DEF Accounted
  <2>1. next = 1 /\ m \in Nat \ {0} /\ PortOf[m] \in Ports
    BY Constants DEF Init
  <2>2. toND = <<>> /\ unclaimed[PortOf[m]] = <<>> /\ held = None /\ skipped = {} /\ gave[m] = {} /\ lost = {}
    BY <2>1 DEF Init
  <2>3. Occurs(m, <<>>) = 0
    <3>1. {i \in DOMAIN <<>> : <<>>[i] = m} = {}
      OBVIOUS
    <3> QED BY <3>1, FS_EmptySet DEF Occurs
  <2>4. /\ Held(m) = 0 /\ Skipped(m) = 0 /\ Given(m) = 0 /\ OnQueue(m) = 0 /\ Unclaimed(m) = 0
        /\ Lost(m) = 0
    BY <2>1, <2>2, <2>3, OnceOrNot, FS_EmptySet DEF Held, Skipped, Given, OnQueue, Unclaimed, Lost, None
  <2> QED BY <2>1, <2>2, <2>4, PlacesSum, FS_EmptySet
<1>3. AtHome /\ Asleep /\ LostWithPort
  BY DEF Init, AtHome, Asleep, LostWithPort
<1>4. /\ toND = <<>> /\ held = None /\ next = 1
      /\ \A p \in Ports : claimed[p] = <<>> /\ unclaimed[p] = <<>> /\ pending[p] = <<>>
  BY DEF Init
<1>5. QueueLast
  BY <1>4, EmptyOrder DEF QueueLast, None
<1>6. \A p \in Ports : Served(p)
  BY <1>4, EmptyOrder DEF Served
<1> QED
  BY <1>1, <1>2, <1>3, <1>5, <1>6 DEF IInv

\* Every message of msg_receive and Messages() is where its history says, and
\* every reader asleep is one its port knows of, as long as kmalloc lets them.
THEOREM IInvCorrect == Spec => []IInv
<1>1. IInv /\ [Next]_vars => IInv'
  BY TypeStep, AccountedStep, LostStep, AsleepStep, QueueLastStep, ServedStep DEF IInv
<1> QED
  BY IInvInit, <1>1, PTL DEF Spec

\* Messages() neither hands out a message twice nor loses one, wherever kmalloc
\* slept, except to a port deleted while kmalloc slept for it: for any ports,
\* readers and messages.
THEOREM MessagesSoundCorrect == Spec => []MessagesSound
<1>1. IInv => MessagesSound
  <2> SUFFICES ASSUME IInv, NEW m \in 1..(next - 1) PROVE Places(m) = 1
    BY DEF MessagesSound, Conserved, IInv, Places
  <2>1. m \in Msgs /\ m < next
    BY Constants DEF IInv, TypeOK, Msgs
  <2> QED BY <2>1 DEF IInv, Accounted
<1> QED
  BY IInvCorrect, <1>1, PTL

\* A port for which kmalloc has not slept gives out its messages in the order
\* they were sent, and no reader waits there while a message lies unclaimed.
THEOREM AwakePortsServedCorrect == Spec => []AwakePortsServed
<1>1. IInv => AwakePortsServed
  <2> SUFFICES ASSUME IInv, NEW p \in Ports \ slept PROVE InOrder(p) /\ ~Stranded(p)
    BY DEF AwakePortsServed
  <2>1. Served(p) /\ claimed[p] \in Seq(Msgs)
    BY DEF IInv, TypeOK
  <2>2. DOMAIN claimed[p] = 1..Len(claimed[p])
    BY <2>1, LenProperties
  <2> QED BY <2>1, <2>2 DEF Served, InOrder, Stranded, Increasing
<1> QED
  BY IInvCorrect, <1>1, PTL
=============================================================================
