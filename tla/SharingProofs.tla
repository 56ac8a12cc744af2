---------------------------- MODULE SharingProofs ----------------------------
(***************************************************************************)
(* What threads and libraries share without a lock of their own: an entity *)
(* id that threads compare, the singleton that they ask for, and the code  *)
(* of component libraries, for any number of each and any ids.             *)
(***************************************************************************)
EXTENDS MCSharing, FiniteSetTheorems, WellFoundedInduction, TLAPS

(***************************************************************************)
(* What overlapping comparisons can do to an EntityId: the octets stay in  *)
(* their pairs.  IInv adds what the two octets on their way are: those of  *)
(* the pair being swapped.                                                 *)
(***************************************************************************)
Pair(i) == {assigned[i], assigned[5 - i]}

\* The octets that thread t holds belong to the pair it swaps.
HeldInPair(t) ==
    InReverse(t) => /\ Step(t) \in 1..3 => oaux[t] \in Pair(Upper(t))
                    /\ Step(t) \in 2..3 => reg[t] \in Pair(Upper(t))

IInv == TypeOK /\ OctetsStayInPairs /\ \A t \in Thread : HeldInPair(t)

\* Where the counter points to, in a reverse.
LEMMA Places ==
    ASSUME NEW t \in Thread, TypeOK, InReverse(t)
    PROVE  /\ Upper(t) \in 3..4 /\ Lower(t) \in 1..2 /\ Lower(t) = 5 - Upper(t)
           /\ Step(t) \in 0..3
<1>1. pc[t] \in 1..8 \cup 10..17 BY DEF InReverse
<1>2. ((pc[t] - 1) % 9) \in 0..7 BY <1>1
<1> QED BY <1>2 DEF Upper, Lower, Step

\* In the middle of a swap the next step is of the same swap.
LEMMA SameSwap ==
    ASSUME NEW t \in Thread, TypeOK, InReverse(t), Advance(t), Step(t) < 3
    PROVE  InReverse(t)' /\ Step(t)' = Step(t) + 1 /\ Upper(t)' = Upper(t)
<1>1. pc[t] \in 1..8 \cup 10..17 BY DEF InReverse
<1>2. ((pc[t] - 1) % 4 # 3 /\ pc[t] \in 1..8) \/ ((pc[t] - 10) % 4 # 3 /\ pc[t] \in 10..17)
  BY <1>1 DEF Step
<1>3. pc'[t] = pc[t] + 1 BY <1>1, <1>2 DEF Advance, TypeOK
<1> QED BY <1>1, <1>2, <1>3 DEF InReverse, Step, Upper

\* The first step of a swap holds nothing yet.
LEMMA NextSwap ==
    ASSUME NEW t \in Thread, TypeOK, InReverse(t), Advance(t), Step(t) = 3
    PROVE  InReverse(t)' => Step(t)' = 0
<1>1. pc[t] \in {4, 8, 13, 17} BY DEF InReverse, Step
<1>2. pc'[t] \in {5, 9, 14, 0} BY <1>1 DEF Advance, TypeOK
<1> QED BY <1>2 DEF InReverse, Step

\* A step of t leaves what the other threads hold.
LEMMA OthersHold ==
    ASSUME NEW t \in Thread, NEW u \in Thread, u # t, HeldInPair(u), TypeOK,
           pc'[u] = pc[u], oaux'[u] = oaux[u], reg'[u] = reg[u], assigned' = assigned
    PROVE  HeldInPair(u)'
BY DEF HeldInPair, InReverse, Step, Upper, Pair

\* The initial states satisfy IInv.
LEMMA Initially == Init => IInv
<1> SUFFICES ASSUME Init PROVE IInv OBVIOUS
<1>1. value \in [1..4 -> Octet] BY IdsAssumption DEF Init
<1>2. 0 \in Octet /\ 0 \in 0..17 BY DEF Octet
<1>3. TypeOK BY <1>1, <1>2 DEF Init, TypeOK
<1>4. OctetsStayInPairs BY DEF Init, OctetsStayInPairs
<1> QED BY <1>3, <1>4 DEF Init, IInv, HeldInPair, InReverse

\* Every step of a thread, and every other step, keeps the types.
LEMMA TypesStay == TypeOK /\ [Next]_vars => TypeOK'
<1> SUFFICES ASSUME TypeOK, [Next]_vars PROVE TypeOK' OBVIOUS
<1>1. ASSUME NEW id \in Ids, Assign(id) PROVE TypeOK'
  BY <1>1, IdsAssumption DEF TypeOK, Assign
<1>2. ASSUME NEW t \in Thread, NEW id \in Ids, Compare(t, id) PROVE TypeOK'
  <2>1. id \in [1..4 -> Octet] BY IdsAssumption
  <2> QED BY <1>2, <2>1 DEF TypeOK, Compare
<1>3. ASSUME NEW t \in Thread, Advance(t), pc[t] # 0 PROVE pc' \in [Thread -> 0..17]
  BY <1>3 DEF TypeOK, Advance
<1>4. ASSUME NEW t \in Thread, LoadUpper(t) PROVE TypeOK'
  <2>1. value[Upper(t)] \in Octet BY <1>4, Places DEF LoadUpper, TypeOK
  <2> QED BY <1>3, <1>4, <2>1 DEF TypeOK, LoadUpper, InReverse
<1>5. ASSUME NEW t \in Thread, LoadLower(t) PROVE TypeOK'
  <2>1. value[Lower(t)] \in Octet BY <1>5, Places DEF LoadLower, TypeOK
  <2> QED BY <1>3, <1>5, <2>1 DEF TypeOK, LoadLower, InReverse
<1>6. ASSUME NEW t \in Thread, StoreUpper(t) PROVE TypeOK'
  <2>1. pc' \in [Thread -> 0..17] BY <1>3, <1>6 DEF StoreUpper, InReverse
  <2>2. value' \in [1..4 -> Octet] BY <1>6, Places DEF StoreUpper, TypeOK
  <2> QED BY <1>6, <2>1, <2>2 DEF TypeOK, StoreUpper
<1>7. ASSUME NEW t \in Thread, StoreLower(t) PROVE TypeOK'
  <2>1. pc' \in [Thread -> 0..17] BY <1>3, <1>7 DEF StoreLower, InReverse
  <2>2. value' \in [1..4 -> Octet] BY <1>7, Places DEF StoreLower, TypeOK
  <2> QED BY <1>7, <2>1, <2>2 DEF TypeOK, StoreLower
<1>8. ASSUME NEW t \in Thread, Test(t) PROVE TypeOK'
  BY <1>3, <1>8 DEF TypeOK, Test
<1>9. CASE UNCHANGED vars BY <1>9 DEF TypeOK, vars
<1> QED BY <1>1, <1>2, <1>4, <1>5, <1>6, <1>7, <1>8, <1>9 DEF Next

\* The octets stay in their pairs, those in the id and those on their way.
LEMMA PairsStay == IInv /\ [Next]_vars => OctetsStayInPairs' /\ \A t \in Thread : HeldInPair(t)'
<1> SUFFICES ASSUME IInv, [Next]_vars PROVE OctetsStayInPairs' /\ \A t \in Thread : HeldInPair(t)'
  OBVIOUS
<1> USE DEF IInv
<1>1. ASSUME NEW id \in Ids, Assign(id) PROVE OctetsStayInPairs' /\ \A t \in Thread : HeldInPair(t)'
  <2>1. \A t \in Thread : pc'[t] = 0 BY <1>1 DEF Assign
  <2> QED BY <1>1, <2>1 DEF Assign, OctetsStayInPairs, HeldInPair, InReverse
<1>2. ASSUME NEW t \in Thread, NEW id \in Ids, Compare(t, id)
      PROVE  OctetsStayInPairs' /\ \A u \in Thread : HeldInPair(u)'
  <2>1. OctetsStayInPairs' BY <1>2 DEF Compare, OctetsStayInPairs
  <2>2. pc'[t] = 1 BY <1>2 DEF Compare, TypeOK
  <2>3. HeldInPair(t)' BY <2>2 DEF HeldInPair, Step
  <2>4. \A u \in Thread \ {t} : HeldInPair(u)'
    BY <1>2, OthersHold DEF Compare, TypeOK
  <2> QED BY <2>1, <2>3, <2>4
<1>3. ASSUME NEW t \in Thread, LoadUpper(t) PROVE OctetsStayInPairs' /\ \A u \in Thread : HeldInPair(u)'
  <2>1. OctetsStayInPairs' BY <1>3 DEF LoadUpper, OctetsStayInPairs
  <2>2. Step(t)' = 1 /\ Upper(t)' = Upper(t) BY <1>3, SameSwap DEF LoadUpper
  <2>3. oaux'[t] \in Pair(Upper(t))
    BY <1>3, Places DEF LoadUpper, TypeOK, OctetsStayInPairs, Pair
  <2>4. HeldInPair(t)' BY <1>3, <2>2, <2>3 DEF HeldInPair, Pair, LoadUpper
  <2>5. \A u \in Thread \ {t} : HeldInPair(u)'
    BY <1>3, OthersHold DEF LoadUpper, Advance, TypeOK
  <2> QED BY <2>1, <2>4, <2>5
<1>4. ASSUME NEW t \in Thread, LoadLower(t) PROVE OctetsStayInPairs' /\ \A u \in Thread : HeldInPair(u)'
  <2>1. OctetsStayInPairs' BY <1>4 DEF LoadLower, OctetsStayInPairs
  <2>2. Step(t)' = 2 /\ Upper(t)' = Upper(t) BY <1>4, SameSwap DEF LoadLower
  <2>3. reg'[t] \in Pair(Upper(t))
    BY <1>4, Places DEF LoadLower, TypeOK, OctetsStayInPairs, Pair
  <2>4. oaux'[t] \in Pair(Upper(t)) BY <1>4 DEF LoadLower, HeldInPair
  <2>5. HeldInPair(t)' BY <1>4, <2>2, <2>3, <2>4 DEF HeldInPair, Pair, LoadLower
  <2>6. \A u \in Thread \ {t} : HeldInPair(u)'
    BY <1>4, OthersHold DEF LoadLower, Advance, TypeOK
  <2> QED BY <2>1, <2>5, <2>6
<1>5. ASSUME NEW t \in Thread, StoreUpper(t) PROVE OctetsStayInPairs' /\ \A u \in Thread : HeldInPair(u)'
  <2>1. reg[t] \in Pair(Upper(t)) /\ oaux[t] \in Pair(Upper(t)) BY <1>5 DEF StoreUpper, HeldInPair
  <2>2. OctetsStayInPairs'
    BY <1>5, <2>1, Places DEF StoreUpper, TypeOK, OctetsStayInPairs, Pair
  <2>3. Step(t)' = 3 /\ Upper(t)' = Upper(t) BY <1>5, SameSwap DEF StoreUpper
  <2>4. HeldInPair(t)' BY <1>5, <2>1, <2>3 DEF HeldInPair, Pair, StoreUpper
  <2>5. \A u \in Thread \ {t} : HeldInPair(u)'
    BY <1>5, OthersHold DEF StoreUpper, Advance, TypeOK
  <2> QED BY <2>2, <2>4, <2>5
<1>6. ASSUME NEW t \in Thread, StoreLower(t) PROVE OctetsStayInPairs' /\ \A u \in Thread : HeldInPair(u)'
  <2>1. oaux[t] \in Pair(Upper(t)) BY <1>6 DEF StoreLower, HeldInPair
  <2>2. OctetsStayInPairs'
    BY <1>6, <2>1, Places DEF StoreLower, TypeOK, OctetsStayInPairs, Pair
  <2>3. HeldInPair(t)' BY <1>6, NextSwap DEF HeldInPair, StoreLower
  <2>4. \A u \in Thread \ {t} : HeldInPair(u)'
    BY <1>6, OthersHold DEF StoreLower, Advance, TypeOK
  <2> QED BY <2>2, <2>3, <2>4
<1>7. ASSUME NEW t \in Thread, Test(t) PROVE OctetsStayInPairs' /\ \A u \in Thread : HeldInPair(u)'
  <2>1. OctetsStayInPairs' BY <1>7 DEF Test, OctetsStayInPairs
  <2>2. pc'[t] = 10 BY <1>7 DEF Test, Advance, TypeOK
  <2>3. HeldInPair(t)' BY <2>2 DEF HeldInPair, Step
  <2>4. \A u \in Thread \ {t} : HeldInPair(u)'
    BY <1>7, OthersHold DEF Test, Advance, TypeOK
  <2> QED BY <2>1, <2>3, <2>4
<1>8. CASE UNCHANGED vars
  BY <1>8 DEF vars, OctetsStayInPairs, HeldInPair, InReverse, Step, Upper, Pair
<1> QED BY <1>1, <1>2, <1>3, <1>4, <1>5, <1>6, <1>7, <1>8 DEF Next

\* However many threads compare an entity id at the same time, each of its octets
\* is one of the two that were assigned to its pair.
THEOREM OctetsKept == Spec => []OctetsStayInPairs
<1>1. Init => IInv BY Initially
<1>2. IInv /\ [Next]_vars => IInv' BY TypesStay, PairsStay DEF IInv
<1>3. IInv => OctetsStayInPairs BY DEF IInv
<1> QED BY <1>1, <1>2, <1>3, PTL DEF Spec

\* The id stays four octets and the counters stay in the comparison.
THEOREM EntityIdTypes == Spec => []TypeOK
<1>1. Init => TypeOK BY Initially DEF IInv
<1>2. TypeOK /\ [Next]_vars => TypeOK' BY TypesStay
<1> QED BY <1>1, <1>2, PTL DEF Spec

-----------------------------------------------------------------------------
(***************************************************************************)
(* A comparison that runs alone.  What it has done to the id by then       *)
(* follows from its counter: in the first reverse from the id assigned, in *)
(* the second from that id reversed.                                       *)
(***************************************************************************)
Base(p) == IF p <= 9 THEN assigned ELSE Reversed(assigned)
Done(p) == IF p <= 9 THEN p - 1 ELSE p - 10     \* steps of this reverse

\* The octets v after k steps of a reverse of id b ...
Halfway(v, b, k) ==
    /\ v[4] = IF k >= 3 THEN b[1] ELSE b[4]
    /\ v[1] = IF k >= 4 THEN b[4] ELSE b[1]
    /\ v[3] = IF k >= 7 THEN b[2] ELSE b[3]
    /\ v[2] = IF k >= 8 THEN b[3] ELSE b[2]
\* ... and those on their way then, o in the local and r in the register.
OnTheWay(o, r, b, k) ==
    /\ k \in 1..3 => o = b[4]
    /\ k \in 5..7 => o = b[3]
    /\ k = 2 => r = b[1]
    /\ k = 6 => r = b[2]

Follows(t) ==
    pc[t] # 0 => /\ Halfway(value, Base(pc[t]), Done(pc[t]))
                 /\ OnTheWay(oaux[t], reg[t], Base(pc[t]), Done(pc[t]))

OneRuns == \A t, u \in Thread : pc[t] # 0 /\ pc[u] # 0 => t = u

AloneInv ==
    /\ TypeOK
    /\ ~overlapped => OneRuns /\ \A t \in Thread : Follows(t)
    /\ HarmlessAlone

\* Where each of the four kinds of steps is in the two reverses.
LEMMA Turns ==
    ASSUME NEW t \in Thread, TypeOK, InReverse(t)
    PROVE  /\ Step(t) = 0 => pc[t] \in {1, 5, 10, 14}
           /\ Step(t) = 1 => pc[t] \in {2, 6, 11, 15}
           /\ Step(t) = 2 => pc[t] \in {3, 7, 12, 16}
           /\ Step(t) = 3 => pc[t] \in {4, 8, 13, 17}
           /\ pc[t] \in 1..4 \cup 10..13 => Upper(t) = 4 /\ Lower(t) = 1
           /\ pc[t] \in 5..8 \cup 14..17 => Upper(t) = 3 /\ Lower(t) = 2
<1>1. pc[t] \in 1..8 \cup 10..17 BY DEF InReverse
<1> QED BY <1>1 DEF Step, Upper, Lower

\* What reversing does to the octets, and that it loses nothing.
LEMMA ReversedOctets ==
    ASSUME NEW a \in [1..4 -> Octet]
    PROVE  /\ Reversed(a) \in [1..4 -> Octet]
           /\ Reversed(a)[1] = a[4] /\ Reversed(a)[2] = a[3] /\ Reversed(a)[3] = a[2]
           /\ Reversed(a)[4] = a[1]
BY DEF Reversed

\* Two ids are equal when their four octets are.
LEMMA SameOctets ==
    ASSUME NEW a \in [1..4 -> Octet], NEW b \in [1..4 -> Octet],
           a[1] = b[1], a[2] = b[2], a[3] = b[3], a[4] = b[4]
    PROVE  a = b
<1>1. ASSUME NEW i \in 1..4 PROVE a[i] = b[i]
  <2>1. i = 1 \/ i = 2 \/ i = 3 \/ i = 4 OBVIOUS
  <2> QED BY <2>1
<1> QED BY <1>1

LEMMA ReversedIsInjective ==
    ASSUME NEW a \in [1..4 -> Octet], NEW b \in [1..4 -> Octet]
    PROVE  Reversed(a) = Reversed(b) <=> a = b
<1>1. Reversed(a) = Reversed(b) => a[1] = b[1] /\ a[2] = b[2] /\ a[3] = b[3] /\ a[4] = b[4]
  BY ReversedOctets
<1> QED BY <1>1, SameOctets

\* Before the first call nothing has been done to the id.
LEMMA AloneAtFirst == Init => AloneInv
<1> SUFFICES ASSUME Init PROVE AloneInv OBVIOUS
<1>1. TypeOK BY Initially DEF IInv
<1>2. \A t \in Thread : pc[t] = 0 BY DEF Init
<1>3. OneRuns /\ \A t \in Thread : Follows(t) BY <1>2 DEF OneRuns, Follows
<1>4. HarmlessAlone BY DEF Init, HarmlessAlone, RestoredAlone, AnsweredAlone
<1> QED BY <1>1, <1>3, <1>4 DEF AloneInv

Reverses(t) == LoadUpper(t) \/ LoadLower(t) \/ StoreUpper(t) \/ StoreLower(t)

\* One step of a reverse that nobody disturbs.
LEMMA OneStepFurther ==
    ASSUME NEW t \in Thread, TypeOK, Reverses(t), NEW b \in [1..4 -> Octet], NEW k \in 0..7,
           k = Done(pc[t]), Halfway(value, b, k), OnTheWay(oaux[t], reg[t], b, k)
    PROVE  Halfway(value', b, k + 1) /\ OnTheWay(oaux'[t], reg'[t], b, k + 1)
<1>1. value \in [1..4 -> Octet] /\ oaux \in [Thread -> Octet] /\ reg \in [Thread -> Octet]
  BY DEF TypeOK
<1>2. pc[t] \in 1..8 \cup 10..17
  BY DEF Reverses, LoadUpper, LoadLower, StoreUpper, StoreLower, InReverse
<1>3. InReverse(t) BY <1>2 DEF InReverse
<1>4. CASE LoadUpper(t)
  <2>1. value' = value /\ reg' = reg /\ oaux'[t] = value[Upper(t)] BY <1>4, <1>1 DEF LoadUpper
  <2>2. (k = 0 /\ Upper(t) = 4) \/ (k = 4 /\ Upper(t) = 3) BY <1>3, <1>4, Turns DEF LoadUpper, Done
  <2> QED BY <2>1, <2>2 DEF Halfway, OnTheWay
<1>5. CASE LoadLower(t)
  <2>1. value' = value /\ oaux' = oaux /\ reg'[t] = value[Lower(t)] BY <1>5, <1>1 DEF LoadLower
  <2>2. (k = 1 /\ Lower(t) = 1) \/ (k = 5 /\ Lower(t) = 2) BY <1>3, <1>5, Turns DEF LoadLower, Done
  <2> QED BY <2>1, <2>2 DEF Halfway, OnTheWay
<1>6. CASE StoreUpper(t)
  <2>1. value' = [value EXCEPT ![Upper(t)] = reg[t]] /\ oaux' = oaux BY <1>6 DEF StoreUpper
  <2>2. (k = 2 /\ Upper(t) = 4) \/ (k = 6 /\ Upper(t) = 3) BY <1>3, <1>6, Turns DEF StoreUpper, Done
  <2> QED BY <1>1, <2>1, <2>2 DEF Halfway, OnTheWay
<1>7. CASE StoreLower(t)
  <2>1. value' = [value EXCEPT ![Lower(t)] = oaux[t]] BY <1>7 DEF StoreLower
  <2>2. (k = 3 /\ Lower(t) = 1) \/ (k = 7 /\ Lower(t) = 2) BY <1>3, <1>7, Turns DEF StoreLower, Done
  <2> QED BY <1>1, <2>1, <2>2 DEF Halfway, OnTheWay
<1> QED BY <1>4, <1>5, <1>6, <1>7 DEF Reverses

\* A step of a reverse is the step of the one thread that runs.
LEMMA ReverseAlone ==
    ASSUME AloneInv, NEW t \in Thread, ~overlapped, Reverses(t)
    PROVE  OneRuns' /\ (\A u \in Thread : Follows(u)') /\ HarmlessAlone'
<1> USE DEF Reverses, LoadUpper, LoadLower, StoreUpper, StoreLower
<1>1. /\ TypeOK /\ OneRuns /\ Follows(t) /\ pc[t] \in 1..8 \cup 10..17
      /\ assigned' = assigned /\ wanted' = wanted /\ result' = result /\ ~overlapped'
  BY DEF AloneInv, InReverse
<1>2. pc' = [pc EXCEPT ![t] = IF @ = 17 THEN 0 ELSE @ + 1] BY DEF Advance
<1>3. /\ pc'[t] = IF pc[t] = 17 THEN 0 ELSE pc[t] + 1
      /\ \A u \in Thread \ {t} : pc[u] = 0 /\ pc'[u] = 0
  BY <1>1, <1>2 DEF TypeOK, OneRuns
<1>4. assigned \in [1..4 -> Octet] BY <1>1 DEF TypeOK
<1>5. Base(pc[t]) \in [1..4 -> Octet] BY <1>4, ReversedOctets DEF Base
<1>6. Done(pc[t]) \in 0..7 BY <1>1 DEF Done
<1>7. /\ Halfway(value', Base(pc[t]), Done(pc[t]) + 1)
      /\ OnTheWay(oaux'[t], reg'[t], Base(pc[t]), Done(pc[t]) + 1)
  BY <1>1, <1>5, <1>6, OneStepFurther DEF Follows
<1>8. pc'[t] # 0 => Base(pc[t])' = Base(pc[t]) /\ Done(pc[t])' = Done(pc[t]) + 1
  BY <1>1, <1>3 DEF Base, Done
<1>9. \A u \in Thread : Follows(u)' BY <1>3, <1>7, <1>8 DEF Follows
<1>10. OneRuns' BY <1>3 DEF OneRuns
<1>11. RestoredAlone'
  <2> SUFFICES ASSUME pc'[t] = 0 PROVE value' = assigned BY <1>1 DEF RestoredAlone
  <2>1. pc[t] = 17 BY <1>1, <1>3
  <2>2. Base(pc[t]) = Reversed(assigned) /\ Done(pc[t]) + 1 = 8 BY <2>1 DEF Base, Done
  <2>3. /\ value'[1] = assigned[1] /\ value'[2] = assigned[2]
        /\ value'[3] = assigned[3] /\ value'[4] = assigned[4]
    BY <1>7, <2>2, <1>4, ReversedOctets DEF Halfway
  <2>4. value' \in [1..4 -> Octet] BY <1>1, TypesStay DEF Next, TypeOK
  <2> QED BY <1>4, <2>3, <2>4, SameOctets
<1>12. AnsweredAlone'
  BY <1>1, <1>3 DEF AloneInv, HarmlessAlone, AnsweredAlone
<1> QED BY <1>9, <1>10, <1>11, <1>12 DEF HarmlessAlone

\* memcmp looks at the id reversed, and finds what was asked.
LEMMA TestAlone ==
    ASSUME AloneInv, NEW t \in Thread, ~overlapped, Test(t)
    PROVE  OneRuns' /\ (\A u \in Thread : Follows(u)') /\ HarmlessAlone'
<1>1. TypeOK /\ OneRuns /\ Follows(t) /\ pc[t] = 9 BY DEF AloneInv, Test
<1>2. pc'[t] = 10 /\ \A u \in Thread \ {t} : pc[u] = 0 /\ pc'[u] = 0
  BY <1>1 DEF Test, Advance, TypeOK, OneRuns
<1>3. /\ value' = value /\ oaux' = oaux /\ reg' = reg /\ wanted' = wanted /\ assigned' = assigned
      /\ ~overlapped'
  BY DEF Test
<1>4. assigned \in [1..4 -> Octet] /\ value \in [1..4 -> Octet] /\ wanted[t] \in [1..4 -> Octet]
  BY <1>1 DEF TypeOK
<1>5. value = Reversed(assigned)
  <2>1. Halfway(value, assigned, 8) BY <1>1 DEF Follows, Base, Done
  <2>2. /\ value[1] = assigned[4] /\ value[2] = assigned[3]
        /\ value[3] = assigned[2] /\ value[4] = assigned[1]
    BY <2>1 DEF Halfway
  <2> QED BY <1>4, <2>2, ReversedOctets, SameOctets
<1>6. \A u \in Thread : Follows(u)'
  <2>1. Base(pc[t])' = Reversed(assigned) /\ Done(pc[t])' = 0 BY <1>2, <1>3 DEF Base, Done
  <2>2. Follows(t)' BY <1>3, <1>5, <2>1 DEF Follows, Halfway, OnTheWay
  <2> QED BY <1>2, <2>2 DEF Follows
<1>7. OneRuns' BY <1>2 DEF OneRuns
<1>8. AnsweredAlone'
  <2>1. result'[t] = (value = Reversed(wanted[t])) /\ \A u \in Thread \ {t} : result'[u] = result[u]
    BY <1>1 DEF Test, TypeOK
  <2>2. result'[t] = (assigned = wanted[t]) BY <2>1, <1>5, <1>4, ReversedIsInjective
  <2>3. \A u \in Thread \ {t} : result[u] = (assigned = wanted[u])
    BY <1>2 DEF AloneInv, HarmlessAlone, AnsweredAlone
  <2> QED BY <1>3, <2>1, <2>2, <2>3 DEF AnsweredAlone
<1>9. RestoredAlone' BY <1>2 DEF RestoredAlone
<1> QED BY <1>6, <1>7, <1>8, <1>9 DEF HarmlessAlone

\* A comparison begins beside none, or overlaps from now on.
LEMMA CompareAlone ==
    ASSUME AloneInv, NEW t \in Thread, NEW id \in Ids, Compare(t, id), ~overlapped'
    PROVE  OneRuns' /\ (\A u \in Thread : Follows(u)') /\ HarmlessAlone'
<1>1. TypeOK /\ ~overlapped /\ \A u \in Thread : pc[u] = 0
  BY DEF AloneInv, Compare
<1>2. pc'[t] = 1 /\ \A u \in Thread \ {t} : pc'[u] = 0 BY <1>1 DEF Compare, TypeOK
<1>3. value' = assigned' /\ assigned' = assigned
  BY <1>1 DEF AloneInv, HarmlessAlone, RestoredAlone, Compare
<1>4. Base(pc[t])' = assigned' /\ Done(pc[t])' = 0 BY <1>2 DEF Base, Done
<1>5. Follows(t)' BY <1>3, <1>4 DEF Follows, Halfway, OnTheWay
<1>6. \A u \in Thread : Follows(u)' BY <1>2, <1>5 DEF Follows
<1>7. OneRuns' BY <1>2 DEF OneRuns
<1>8. RestoredAlone' BY <1>2 DEF RestoredAlone
<1>9. AnsweredAlone'
  <2>1. result' = result /\ \A u \in Thread \ {t} : wanted'[u] = wanted[u]
    BY <1>1 DEF Compare, TypeOK
  <2> QED BY <1>1, <1>2, <1>3, <2>1 DEF AloneInv, HarmlessAlone, AnsweredAlone
<1> QED BY <1>6, <1>7, <1>8, <1>9 DEF HarmlessAlone

\* Every step keeps AloneInv; nothing is to be shown of comparisons that overlap.
LEMMA AloneStays == AloneInv /\ [Next]_vars => AloneInv'
<1> SUFFICES ASSUME AloneInv, [Next]_vars PROVE AloneInv' OBVIOUS
<1>1. TypeOK' BY TypesStay DEF AloneInv
<1>2. overlapped' => HarmlessAlone'
  BY DEF HarmlessAlone, RestoredAlone, AnsweredAlone
<1> SUFFICES ASSUME ~overlapped'
             PROVE  OneRuns' /\ (\A t \in Thread : Follows(t)') /\ HarmlessAlone'
  BY <1>1, <1>2 DEF AloneInv
<1>3. ASSUME NEW id \in Ids, Assign(id)
      PROVE  OneRuns' /\ (\A t \in Thread : Follows(t)') /\ HarmlessAlone'
  <2>1. \A t \in Thread : pc'[t] = 0 BY <1>3 DEF Assign
  <2>2. \A t \in Thread : result'[t] = TRUE /\ wanted'[t] = assigned' BY <1>3 DEF Assign
  <2>3. value' = assigned' BY <1>3 DEF Assign
  <2> QED BY <2>1, <2>2, <2>3 DEF OneRuns, Follows, HarmlessAlone, RestoredAlone, AnsweredAlone
<1>4. ASSUME NEW t \in Thread, Reverses(t)
      PROVE  OneRuns' /\ (\A u \in Thread : Follows(u)') /\ HarmlessAlone'
  <2>1. ~overlapped BY <1>4 DEF Reverses, LoadUpper, LoadLower, StoreUpper, StoreLower
  <2> QED BY <1>4, <2>1, ReverseAlone
<1>5. ASSUME NEW t \in Thread, Test(t)
      PROVE  OneRuns' /\ (\A u \in Thread : Follows(u)') /\ HarmlessAlone'
  <2>1. ~overlapped BY <1>5 DEF Test
  <2> QED BY <1>5, <2>1, TestAlone
<1>6. CASE UNCHANGED vars
 
    BY <1>6
       DEF AloneInv, vars, OneRuns, Follows, Base, Done, HarmlessAlone, RestoredAlone, AnsweredAlone
<1> QED BY <1>3, <1>4, <1>5, <1>6, CompareAlone DEF Next, Reverses

\* However long the id, a comparison that runs alone gives the right answer and
\* puts back every octet.
THEOREM AloneIsHarmless == Spec => []HarmlessAlone
<1>1. AloneInv => HarmlessAlone BY DEF AloneInv
<1> QED BY <1>1, AloneAtFirst, AloneStays, PTL DEF Spec

-----------------------------------------------------------------------------
(***************************************************************************)
(* Instance: one object, a finished one for who came through call_once,    *)
(* and none after a failure.  SingleInv adds what the once_flag says about *)
(* the pointer and about who executes the function.                        *)
(***************************************************************************)
Inside(t) == stage[t] \in {"new", "build"}

\* What the flag says.
FlagSays ==
    /\ flag = "running" => \E t \in Callers : Inside(t)
    /\ flag = "done" => instance = ~failed /\ built = ~failed
    /\ flag = "unset" => ~instance /\ ~built

\* What is known of a thread at its place.
PlaceSays(t) ==
    /\ Inside(t) => flag = "running" /\ ~failed
    /\ stage[t] = "new" => ~instance /\ ~built
    /\ passed[t] => flag = "done"
    /\ passed[t] => stage[t] \in {"return", "out"}
    /\ passed[t] /\ stage[t] = "out" => given[t] = IF failed THEN "null" ELSE "whole"

SingleInv ==
    /\ Single!TypeOK /\ FlagSays
    /\ \A t \in Callers : PlaceSays(t)
    /\ \A t, u \in Callers : Inside(t) /\ Inside(u) => t = u
    /\ made = 1 <=> (\E t \in Callers : stage[t] = "build") \/ instance
    /\ failed => flag = "done"
    /\ shutdown => instance

\* The initial states satisfy SingleInv.
LEMMA SingleInitially == Single!Init => SingleInv
<1> SUFFICES ASSUME Single!Init PROVE SingleInv OBVIOUS
<1>1. Single!TypeOK
  <2>1. throws \in Nat BY DEF Single!Init
  <2>2. made \in 0..1 BY DEF Single!Init
  <2> QED BY <2>1, <2>2 DEF Single!Init, Single!TypeOK
<1>2. \A t \in Callers : stage[t] = "out" /\ ~passed[t] BY DEF Single!Init
<1>3. made # 1 BY DEF Single!Init
<1> QED BY <1>1, <1>2, <1>3 DEF Single!Init, SingleInv, FlagSays, PlaceSays, Inside

\* The counter of a thread after a jump.
LEMMA Jump ==
    ASSUME NEW t \in Callers, NEW to, Single!TypeOK, Single!Goto(t, to)
    PROVE  stage'[t] = to /\ \A u \in Callers \ {t} : stage'[u] = stage[u]
BY DEF Single!Goto, Single!TypeOK

\* Every action keeps SingleInv.
LEMMA CallsKeep ==
    ASSUME SingleInv, NEW t \in Callers, NEW create \in BOOLEAN, Single!Instance(t, create)
    PROVE  SingleInv'
<1>1. Single!TypeOK' BY DEF SingleInv, Single!TypeOK, Single!Instance, Single!Goto
<1>2. stage'[t] \in {"once", "return"} /\ \A u \in Callers \ {t} : stage'[u] = stage[u]
  BY Jump DEF SingleInv, Single!Instance
<1>3. ~passed'[t] /\ \A u \in Callers \ {t} : passed'[u] = passed[u]
  BY DEF SingleInv, Single!TypeOK, Single!Instance
<1> QED BY <1>1, <1>2, <1>3 DEF SingleInv, Single!Instance, FlagSays, PlaceSays, Inside

\* A thread enters the function.
LEMMA EnterKeeps == ASSUME SingleInv, NEW t \in Callers, Single!Enter(t) PROVE SingleInv'
<1>1. Single!TypeOK' BY DEF SingleInv, Single!TypeOK, Single!Enter, Single!Goto
<1>2. stage'[t] = "new" /\ \A u \in Callers \ {t} : stage'[u] = stage[u]
  BY Jump DEF SingleInv, Single!Enter
<1>3. \A u \in Callers : ~Inside(u) BY DEF SingleInv, Single!Enter, PlaceSays
<1> QED BY <1>1, <1>2, <1>3 DEF SingleInv, Single!Enter, FlagSays, PlaceSays, Inside

\* A thread finds the function done.
LEMMA PassKeeps == ASSUME SingleInv, NEW t \in Callers, Single!Pass(t) PROVE SingleInv'
<1>1. Single!TypeOK' BY DEF SingleInv, Single!TypeOK, Single!Pass, Single!Goto
<1>2. stage'[t] = "return" /\ \A u \in Callers \ {t} : stage'[u] = stage[u]
  BY Jump DEF SingleInv, Single!Pass
<1>3. passed'[t] /\ \A u \in Callers \ {t} : passed'[u] = passed[u]
  BY DEF SingleInv, Single!TypeOK, Single!Pass
<1>4. ~Inside(t) /\ stage[t] # "build" BY DEF Single!Pass, Inside
<1> QED BY <1>1, <1>2, <1>3, <1>4 DEF SingleInv, Single!Pass, FlagSays, PlaceSays, Inside

\* There is no memory.
LEMMA NoMemoryKeeps == ASSUME SingleInv, NEW t \in Callers, Single!NoMemory(t) PROVE SingleInv'
<1>1. Single!TypeOK' BY DEF SingleInv, Single!TypeOK, Single!NoMemory, Single!Goto
<1>2. stage'[t] = "return" /\ \A u \in Callers \ {t} : stage'[u] = stage[u]
  BY Jump DEF SingleInv, Single!NoMemory
<1>3. passed'[t] /\ \A u \in Callers \ {t} : passed'[u] = passed[u]
  BY DEF SingleInv, Single!TypeOK, Single!NoMemory
<1>4. \A u \in Callers \ {t} : ~Inside(u) BY DEF SingleInv, Single!NoMemory, Inside
<1>5. \A u \in Callers : ~passed[u] BY DEF SingleInv, Single!NoMemory, PlaceSays, Inside
<1>6. ~instance /\ ~built /\ made # 1
  BY <1>4 DEF SingleInv, Single!NoMemory, PlaceSays, Inside
<1>7. FlagSays' BY <1>6 DEF Single!NoMemory, FlagSays, SingleInv, Single!TypeOK
<1>8. \A u \in Callers : PlaceSays(u)'
  BY <1>2, <1>3, <1>4, <1>5 DEF Single!NoMemory, PlaceSays, Inside
<1>9. \A u \in Callers : ~Inside(u)' BY <1>2, <1>4 DEF Inside
<1> QED BY <1>1, <1>6, <1>7, <1>8, <1>9 DEF SingleInv, Single!NoMemory, Inside

\* There is.
LEMMA NewKeeps == ASSUME SingleInv, NEW t \in Callers, Single!New(t) PROVE SingleInv'
<1>1. ~instance /\ ~built BY DEF SingleInv, Single!New, PlaceSays
<1>2. \A u \in Callers \ {t} : ~Inside(u) BY DEF SingleInv, Single!New, Inside
<1>3. made = 0
  BY <1>1, <1>2 DEF SingleInv, Single!TypeOK, Single!New, Inside
<1>4. Single!TypeOK' BY <1>3 DEF SingleInv, Single!TypeOK, Single!New, Single!Goto
<1>5. stage'[t] = "build" /\ \A u \in Callers \ {t} : stage'[u] = stage[u]
  BY Jump DEF SingleInv, Single!New
<1>6. Inside(t) BY DEF Single!New, Inside
<1> QED BY <1>1, <1>2, <1>3, <1>4, <1>5, <1>6 DEF SingleInv, Single!New, FlagSays, PlaceSays, Inside

\* The constructor and the assignment.
LEMMA BuildKeeps ==
    ASSUME SingleInv, NEW t \in Callers, Single!Construct(t) \/ Single!Store(t)
    PROVE  SingleInv'
<1>1. Single!TypeOK' BY DEF SingleInv, Single!TypeOK, Single!Construct, Single!Store
<1>2. Inside(t) /\ flag = "running"
  BY DEF SingleInv, Single!Construct, Single!Store, PlaceSays, Inside
<1>3. \A u \in Callers \ {t} : ~Inside(u) BY <1>2 DEF SingleInv
<1>4. stage[t] # "new" /\ stage[t] = "build" BY DEF Single!Construct, Single!Store
<1> QED
  BY <1>1, <1>2, <1>3, <1>4
     DEF SingleInv, Single!Construct, Single!Store, FlagSays, PlaceSays, Inside

\* The constructor throws.
LEMMA ThrowKeeps == ASSUME SingleInv, NEW t \in Callers, Single!Throw(t) PROVE SingleInv'
<1>1. Inside(t) /\ flag = "running" BY DEF SingleInv, Single!Throw, PlaceSays, Inside
<1>2. made = 1 BY DEF SingleInv, Single!Throw
<1>3. Single!TypeOK' BY <1>2 DEF SingleInv, Single!TypeOK, Single!Throw, Single!Goto
<1>4. stage'[t] = "out" /\ \A u \in Callers \ {t} : stage'[u] = stage[u]
  BY Jump DEF SingleInv, Single!Throw
<1>5. \A u \in Callers \ {t} : ~Inside(u) BY <1>1 DEF SingleInv
<1>6. \A u \in Callers : ~passed[u] BY <1>1 DEF SingleInv, PlaceSays
<1>7. made' = 0 BY <1>2 DEF Single!Throw
<1> QED
  BY <1>1, <1>3, <1>4, <1>5, <1>6, <1>7 DEF SingleInv, Single!Throw, FlagSays, PlaceSays, Inside

\* The function returns.
LEMMA DoneKeeps == ASSUME SingleInv, NEW t \in Callers, Single!Done(t) PROVE SingleInv'
<1>1. Single!TypeOK' BY DEF SingleInv, Single!TypeOK, Single!Done, Single!Goto
<1>2. stage'[t] = "return" /\ \A u \in Callers \ {t} : stage'[u] = stage[u]
  BY Jump DEF SingleInv, Single!Done
<1>3. passed'[t] /\ \A u \in Callers \ {t} : passed'[u] = passed[u]
  BY DEF SingleInv, Single!TypeOK, Single!Done
<1>4. Inside(t) /\ ~failed BY DEF SingleInv, Single!Done, PlaceSays, Inside
<1>5. \A u \in Callers \ {t} : ~Inside(u) BY <1>4 DEF SingleInv
<1> QED BY <1>1, <1>2, <1>3, <1>4, <1>5 DEF SingleInv, Single!Done, FlagSays, PlaceSays, Inside

\* A call returns.
LEMMA ReturnKeeps == ASSUME SingleInv, NEW t \in Callers, Single!Return(t) PROVE SingleInv'
<1>1. Single!TypeOK' BY DEF SingleInv, Single!TypeOK, Single!Return, Single!Goto, Single!Given
<1>2. stage'[t] = "out" /\ \A u \in Callers \ {t} : stage'[u] = stage[u]
  BY Jump DEF SingleInv, Single!Return
<1>3. given'[t] = Single!Given /\ \A u \in Callers \ {t} : given'[u] = given[u]
  BY DEF SingleInv, Single!TypeOK, Single!Return
<1>4. passed[t] => Single!Given = IF failed THEN "null" ELSE "whole"
  BY DEF SingleInv, FlagSays, PlaceSays, Single!Given, Single!TypeOK
<1>5. ~Inside(t) /\ stage[t] # "build" BY DEF Single!Return, Inside
<1> QED BY <1>1, <1>2, <1>3, <1>4, <1>5 DEF SingleInv, Single!Return, FlagSays, PlaceSays, Inside

\* SingleInv is kept by every step.
LEMMA SingleInductive == SingleInv /\ [Single!Next]_Single!vars => SingleInv'
<1> SUFFICES ASSUME SingleInv, [Single!Next]_Single!vars PROVE SingleInv' OBVIOUS
<1>1. ASSUME NEW t \in Callers, Single!CleanUp(t) PROVE SingleInv'
  BY <1>1 DEF Single!CleanUp, SingleInv, Single!TypeOK, FlagSays, PlaceSays, Inside
<1>2. CASE UNCHANGED Single!vars
  BY <1>2 DEF Single!vars, SingleInv, Single!TypeOK, FlagSays, PlaceSays, Inside
<1> QED
  BY <1>1, <1>2, CallsKeep, EnterKeeps, PassKeeps, NoMemoryKeeps, NewKeeps, BuildKeeps,
     ThrowKeeps, DoneKeeps, ReturnKeeps DEF Single!Next

\* SingleInv holds in every reachable state.
LEMMA SingleInvariant == Single!Spec => []SingleInv
BY SingleInitially, SingleInductive, PTL DEF Single!Spec

\* The state stays what it should be.
THEOREM SingletonTypes == Single!Spec => []Single!TypeOK
<1>1. SingleInv => Single!TypeOK BY DEF SingleInv
<1> QED BY <1>1, SingleInvariant, PTL

\* However many threads call Single!Instance, there is one object, and one thread makes it.
THEOREM SingletonIsSingle == Single!Spec => []Single!OneObject
<1>1. SingleInv => Single!OneObject BY DEF SingleInv, Single!OneObject, Inside
<1> QED BY <1>1, SingleInvariant, PTL

\* A thread that came through call_once gets the finished object, or nothing after a failed
\* allocation.  The test in front of call_once promises neither.
THEOREM PassedGetWhole == Single!Spec => []Single!PassedIsWhole
<1>1. SingleInv => Single!PassedIsWhole
  BY DEF SingleInv, Single!TypeOK, FlagSays, PlaceSays, Single!PassedIsWhole, Single!Given
<1> QED BY <1>1, SingleInvariant, PTL

\* A failed allocation is the last one.
THEOREM SingletonFailsForGood == Single!Spec => []Single!FailureIsFinal
<1>1. ASSUME SingleInv, failed PROVE ~instance /\ made = 0
  <2>1. ~instance BY <1>1 DEF SingleInv, FlagSays, Single!TypeOK
  <2>2. \A t \in Callers : stage[t] # "build" BY <1>1 DEF SingleInv, PlaceSays, Inside
  <2>3. made # 1 BY <1>1, <2>1, <2>2 DEF SingleInv
  <2> QED BY <1>1, <2>1, <2>3 DEF SingleInv, Single!TypeOK
<1>2. SingleInv => Single!FailureIsFinal BY <1>1 DEF Single!FailureIsFinal
<1> QED BY <1>2, SingleInvariant, PTL

\* All three at once: Single!Instance keeps its promises for any number of threads.
THEOREM SingletonHolds == Single!Spec => []Single!OneWholeObject
<1>1. Single!OneObject /\ Single!PassedIsWhole /\ Single!FailureIsFinal => Single!OneWholeObject
  BY DEF Single!OneWholeObject
<1> QED BY <1>1, SingletonIsSingle, PassedGetWhole, SingletonFailsForGood, PTL

-----------------------------------------------------------------------------
(***************************************************************************)
(* Component libraries, for any libraries, objects and names.  References  *)
(* are a sum over the objects of a library, so sums come first: what a     *)
(* fold of the community modules adds up over a finite set does not depend *)
(* on the order.                                                           *)
(***************************************************************************)
\* A set of naturals has a least element.
LEMMA LeastOf ==
    ASSUME NEW T \in SUBSET Nat, T # {}
    PROVE  \E x \in T : \A y \in T : x <= y
<1>1. IsWellFoundedOn(OpToRel(<, Nat), Nat) BY NatLessThanWellFounded
<1>2. PICK x \in T : \A y \in T : ~(<<y, x>> \in OpToRel(<, Nat)) BY <1>1, WFMin
<1>3. \A y \in T : ~(y < x) BY <1>2 DEF OpToRel
<1> QED BY <1>3

\* A family of subsets of a finite set has one that contains no other.
LEMMA SmallestOf ==
    ASSUME NEW S, IsFiniteSet(S), NEW F \in SUBSET SUBSET S, F # {}
    PROVE  \E T \in F : \A U \in F : U \subseteq T => U = T
<1> DEFINE sizes == {Cardinality(T) : T \in F}
<1>1. \A T \in F : IsFiniteSet(T) /\ Cardinality(T) \in Nat BY FS_Subset, FS_CardinalityType
<1>2. sizes \in SUBSET Nat /\ sizes # {} BY <1>1
<1>3. PICK n \in sizes : \A m \in sizes : n <= m
  <2> HIDE DEF sizes
  <2> QED BY <1>2, LeastOf
<1>4. PICK T \in F : Cardinality(T) = n BY <1>3
<1>5. ASSUME NEW U \in F, U \subseteq T PROVE U = T
  <2>1. Cardinality(U) <= Cardinality(T) BY <1>1, <1>5, FS_Subset
  <2>2. Cardinality(U) >= Cardinality(T) BY <1>3, <1>4
  <2>3. Cardinality(U) = Cardinality(T) BY <1>1, <2>1, <2>2
  <2> QED BY <1>1, <1>5, <2>3, FS_Subset
<1> QED BY <1>5

\* g says for each set in D what w comes to, added up in the order CHOOSE takes.
Adds(g, w, D) ==
    g = [s \in D |-> IF s = {} THEN 0 ELSE w[CHOOSE x \in s : TRUE] + g[s \ {CHOOSE x \in s : TRUE}]]

\* The sum of w over S.
Total(w, S) == (CHOOSE g : Adds(g, w, SUBSET S))[S]

\* There is such a g on the subsets of a finite set.
LEMMA AddsOn ==
    ASSUME NEW S, IsFiniteSet(S), NEW w \in [S -> Int]
    PROVE  \E g \in [SUBSET S -> Int] : Adds(g, w, SUBSET S)
<1> DEFINE Small(n) == {s \in SUBSET S : Cardinality(s) <= n}
           Is(n) == \E g \in [Small(n) -> Int] : Adds(g, w, Small(n))
           Bad == {n \in Nat : ~Is(n)}
           ch(s) == CHOOSE x \in s : TRUE
<1>1. /\ Cardinality(S) \in Nat
      /\ \A s \in SUBSET S : Cardinality(s) \in Nat /\ Cardinality(s) <= Cardinality(S)
      /\ \A s \in SUBSET S : Cardinality(s) = 0 <=> s = {}
      /\ \A s \in SUBSET S : s # {} => /\ ch(s) \in s /\ s \ {ch(s)} \in SUBSET S
                                       /\ Cardinality(s \ {ch(s)}) = Cardinality(s) - 1
  BY FS_Subset, FS_CardinalityType, FS_EmptySet, FS_RemoveElement
<1>2. Is(0)
  <2> DEFINE g == [s \in Small(0) |-> 0]
  <2>1. \A s \in Small(0) : s = {} BY <1>1
  <2>2. g \in [Small(0) -> Int] OBVIOUS
  <2>3. Adds(g, w, Small(0)) BY <2>1 DEF Adds
  <2> QED BY <2>2, <2>3
<1>3. ASSUME NEW n \in Nat, Is(n) PROVE Is(n + 1)
  <2>1. PICK g \in [Small(n) -> Int] : Adds(g, w, Small(n)) BY <1>3
  <2> DEFINE h == [s \in Small(n + 1) |-> IF s = {} THEN 0 ELSE w[ch(s)] + g[s \ {ch(s)}]]
  <2>2. \A s \in Small(n + 1) : s # {} => ch(s) \in S /\ s \ {ch(s)} \in Small(n) BY <1>1
  <2>3. h \in [Small(n + 1) -> Int]
    <3>1. \A s \in Small(n + 1) : h[s] \in Int BY <2>2
    <3> QED BY <3>1
  <2>4. \A s \in Small(n) : s \in Small(n + 1) /\ h[s] = g[s]
    <3>1. \A s \in Small(n) : s \in Small(n + 1) BY <1>1
    <3>2. \A s \in Small(n) : g[s] = IF s = {} THEN 0 ELSE w[ch(s)] + g[s \ {ch(s)}]
      BY <2>1 DEF Adds
    <3> QED BY <3>1, <3>2
  <2>5. h = [s \in Small(n + 1) |-> IF s = {} THEN 0 ELSE w[ch(s)] + h[s \ {ch(s)}]]
    <3>1. \A s \in Small(n + 1) : s # {} => h[s \ {ch(s)}] = g[s \ {ch(s)}] BY <2>2, <2>4
    <3> DEFINE k == [s \in Small(n + 1) |-> IF s = {} THEN 0 ELSE w[ch(s)] + h[s \ {ch(s)}]]
    <3>2. \A s \in Small(n + 1) : h[s] = IF s = {} THEN 0 ELSE w[ch(s)] + g[s \ {ch(s)}]
      OBVIOUS
    <3>3. h = [s \in Small(n + 1) |-> h[s]] OBVIOUS
    <3> HIDE DEF h, Small, ch
    <3>4. \A s \in Small(n + 1) : h[s] = k[s] BY <3>1, <3>2
    <3> QED BY <3>3, <3>4
  <2>6. Adds(h, w, Small(n + 1))
    <3> HIDE DEF h
    <3> QED BY <2>5 DEF Adds
  <2> QED BY <2>3, <2>6
<1> HIDE DEF Is
<1>4. Bad = {}
  <2> SUFFICES ASSUME Bad # {} PROVE FALSE OBVIOUS
  <2>1. PICK n \in Bad : \A m \in Bad : n <= m BY LeastOf
  <2>2. n # 0 BY <1>2, <2>1
  <2>3. n - 1 \in Nat /\ ~(n <= n - 1) BY <2>1, <2>2
  <2>4. Is(n - 1) BY <2>1, <2>3
  <2>5. Is((n - 1) + 1) BY <1>3, <2>3, <2>4
  <2> QED BY <2>1, <2>5
<1>5. Is(Cardinality(S)) BY <1>1, <1>4
<1>6. Small(Cardinality(S)) = SUBSET S BY <1>1
<1> QED BY <1>5, <1>6 DEF Is

\* What a g adds up for the same set is the same, and the order does not matter.
LEMMA AddsSame ==
    ASSUME NEW S, IsFiniteSet(S), NEW D, NEW E, NEW g, NEW h, NEW v, NEW w,
           SUBSET S \subseteq D, SUBSET S \subseteq E, Adds(g, v, D), Adds(h, w, E),
           \A x \in S : v[x] = w[x]
    PROVE  g[S] = h[S]
<1> DEFINE F == {T \in SUBSET S : g[T] # h[T]}
<1> SUFFICES ASSUME F # {} PROVE FALSE OBVIOUS
<1>1. PICK T \in F : \A U \in F : U \subseteq T => U = T
  <2>1. F \in SUBSET SUBSET S OBVIOUS
  <2> HIDE DEF F
  <2> QED BY <2>1, SmallestOf
<1> DEFINE x == CHOOSE x \in T : TRUE
<1>2. T \in SUBSET S /\ T \in D /\ T \in E BY <1>1
<1>3. /\ g[T] = IF T = {} THEN 0 ELSE v[x] + g[T \ {x}]
      /\ h[T] = IF T = {} THEN 0 ELSE w[x] + h[T \ {x}]
  BY <1>2 DEF Adds
<1>4. T # {} BY <1>1, <1>3
<1>5. x \in T /\ T \ {x} \in SUBSET S /\ T \ {x} # T BY <1>2, <1>4
<1> HIDE DEF x
<1>6. g[T \ {x}] = h[T \ {x}] BY <1>1, <1>5
<1> QED BY <1>1, <1>2, <1>3, <1>4, <1>5, <1>6

LEMMA AddsAnyOrder ==
    ASSUME NEW S, IsFiniteSet(S), NEW w \in [S -> Int], NEW g \in [SUBSET S -> Int],
           Adds(g, w, SUBSET S), NEW y \in S
    PROVE  g[S] = w[y] + g[S \ {y}]
<1> DEFINE F == {T \in SUBSET S : \E z \in T : g[T] # w[z] + g[T \ {z}]}
<1>1. F = {}
  <2> SUFFICES ASSUME F # {} PROVE FALSE OBVIOUS
  <2>1. PICK T \in F : \A U \in F : U \subseteq T => U = T
    <3>1. F \in SUBSET SUBSET S OBVIOUS
    <3> HIDE DEF F
    <3> QED BY <3>1, SmallestOf
  <2>2. T \in SUBSET S BY <2>1
  <2>3. PICK z \in T : g[T] # w[z] + g[T \ {z}] BY <2>1
  <2> DEFINE ch(s) == CHOOSE x \in s : TRUE
             x == ch(T)
  <2>4. \A s \in SUBSET S : s # {} => g[s] = w[ch(s)] + g[s \ {ch(s)}] BY DEF Adds
  <2>5. x \in T BY <2>3
  <2>6. g[T] = w[x] + g[T \ {x}] BY <2>2, <2>3, <2>4
  <2> HIDE DEF x, ch
  <2>7. x # z BY <2>3, <2>6
  <2>8. /\ T \ {x} \in SUBSET S /\ T \ {x} # T /\ z \in T \ {x}
        /\ T \ {z} \in SUBSET S /\ T \ {z} # T /\ x \in T \ {z}
    BY <2>2, <2>3, <2>5, <2>7
  <2>9. T \ {x} \notin F /\ T \ {z} \notin F
    <3> HIDE DEF F
    <3> QED BY <2>1, <2>8
  <2> DEFINE R == T \ {x, z}
  <2>10. (T \ {x}) \ {z} = R /\ (T \ {z}) \ {x} = R /\ R \in SUBSET S BY <2>2
  <2> HIDE DEF R
  <2>11. g[T \ {x}] = w[z] + g[R] /\ g[T \ {z}] = w[x] + g[R] BY <2>8, <2>9, <2>10
  <2>12. w[x] \in Int /\ w[z] \in Int /\ g[R] \in Int BY <2>2, <2>3, <2>5, <2>10
  <2> HIDE DEF F
  <2> QED BY <2>3, <2>6, <2>11, <2>12
<1> QED BY <1>1

\* A sum of integers is one; it depends on no other values than those of its set, and any
\* member can be taken out of it.
LEMMA TotalIs ==
    ASSUME NEW S, IsFiniteSet(S), NEW w, \A x \in S : w[x] \in Int
    PROVE  /\ Total(w, {}) = 0 /\ Total(w, S) \in Int
           /\ \A v : (\A x \in S : v[x] = w[x]) => Total(v, S) = Total(w, S)
           /\ \A y \in S : Total(w, S) = w[y] + Total(w, S \ {y}) /\ Total(w, S \ {y}) \in Int
<1> DEFINE u == [x \in S |-> w[x]]
<1>1. u \in [S -> Int] /\ \A x \in S : u[x] = w[x] OBVIOUS
<1> HIDE DEF u
<1>2. PICK g \in [SUBSET S -> Int] : Adds(g, u, SUBSET S) BY <1>1, AddsOn
<1>3. ASSUME NEW T \in SUBSET S, NEW v, \A x \in T : v[x] = u[x]
      PROVE  Total(v, T) = g[T]
  <2>1. IsFiniteSet(T) BY FS_Subset
  <2> DEFINE r == [x \in T |-> u[x]]
  <2>2. r \in [T -> Int] /\ \A x \in T : r[x] = v[x] BY <1>1, <1>3
  <2> HIDE DEF r
  <2>3. PICK f : Adds(f, r, SUBSET T) BY <2>1, <2>2, AddsOn
  <2>4. Adds(f, v, SUBSET T)
    <3>1. \A s \in SUBSET T : s # {} => r[CHOOSE x \in s : TRUE] = v[CHOOSE x \in s : TRUE]
      BY <2>2
    <3> QED BY <2>3, <3>1 DEF Adds
  <2> DEFINE e == CHOOSE e : Adds(e, v, SUBSET T)
  <2>5. Adds(e, v, SUBSET T) BY <2>4
  <2> HIDE DEF e
  <2>6. SUBSET T \subseteq SUBSET S OBVIOUS
  <2>7. e[T] = g[T] BY <1>2, <1>3, <2>1, <2>5, <2>6, AddsSame
  <2> QED BY <2>7 DEF Total, e
<1>4. \A y \in S : g[S] = u[y] + g[S \ {y}] /\ S \ {y} \in SUBSET S BY <1>1, <1>2, AddsAnyOrder
<1>5. g[{}] = 0 BY <1>2 DEF Adds
<1>6. \A v : (\A x \in S : v[x] = w[x]) => Total(v, S) = g[S] BY <1>1, <1>3
<1>7. \A T \in SUBSET S : Total(w, T) = g[T] BY <1>1, <1>3
<1>8. S \in SUBSET S /\ {} \in SUBSET S OBVIOUS
<1> QED BY <1>1, <1>2, <1>4, <1>5, <1>6, <1>7, <1>8

\* A sum of naturals is at least each of them.
LEMMA TotalAtLeast ==
    ASSUME NEW S, IsFiniteSet(S), NEW w, \A x \in S : w[x] \in Nat
    PROVE  Total(w, S) >= 0 /\ \A y \in S : Total(w, S) >= w[y]
<1> DEFINE F == {T \in SUBSET S : ~(Total(w, T) >= 0)}
<1>1. \A T \in SUBSET S : IsFiniteSet(T) BY FS_Subset
<1>2. \A T \in SUBSET S : Total(w, T) >= 0
  <2> SUFFICES ASSUME F # {} PROVE FALSE OBVIOUS
  <2>1. PICK T \in F : \A U \in F : U \subseteq T => U = T
    <3>1. F \in SUBSET SUBSET S OBVIOUS
    <3> HIDE DEF F
    <3> QED BY <3>1, SmallestOf
  <2>2. T \in SUBSET S /\ ~(Total(w, T) >= 0) BY <2>1
  <2>3. T # {}
    <3>1. \A x \in S : w[x] \in Int OBVIOUS
    <3>2. Total(w, {}) = 0 BY <3>1, TotalIs
    <3> QED BY <2>2, <3>2
  <2>4. PICK y \in T : TRUE BY <2>3
  <2>5. T \ {y} \in SUBSET S /\ T \ {y} \notin F BY <2>1, <2>2, <2>4
  <2>6. Total(w, T \ {y}) >= 0 BY <2>5
  <2> HIDE DEF F
  <2>7. Total(w, T) = w[y] + Total(w, T \ {y}) /\ Total(w, T \ {y}) \in Int
    <3>1. \A x \in T : w[x] \in Int BY <2>2
    <3>2. IsFiniteSet(T) BY <1>1, <2>2
    <3> QED BY <2>4, <3>1, <3>2, TotalIs
  <2> QED BY <2>2, <2>4, <2>6, <2>7
<1>3. ASSUME NEW y \in S PROVE Total(w, S) >= w[y]
  <2>1. Total(w, S) = w[y] + Total(w, S \ {y}) /\ Total(w, S \ {y}) \in Int BY TotalIs
  <2>2. S \ {y} \in SUBSET S OBVIOUS
  <2> QED BY <1>2, <2>1, <2>2
<1> QED BY <1>2, <1>3

\* What an object has open, and the objects of a library.
Open == [o \in Holder |-> opens[o] - closes[o]]
Users(l) == {o \in Holder : path[o] = l}

LEMMA RefsAreTotals ==
    Libraries!RefsAreHolders <=>
        (~overclosed /\ ~leaked => \A l \in Library : refs[l] = Total(Open, Users(l)))
<1> SUFFICES ASSUME NEW l
             PROVE  Libraries!MapThenSumSet(LAMBDA o : opens[o] - closes[o], {o \in Holder : path[o] = l})
                      = Total(Open, Users(l))
  BY DEF Libraries!RefsAreHolders
<1>1. ASSUME NEW g
      PROVE  Adds(g, Open, SUBSET Users(l)) <=>
                g = [s \in SUBSET Users(l) |->
                        IF s = {} THEN 0
                        ELSE opens[CHOOSE x \in s : TRUE] - closes[CHOOSE x \in s : TRUE]
                               + g[s \ {CHOOSE x \in s : TRUE}]]
  <2>1. \A s \in SUBSET Users(l) : s # {} => (CHOOSE x \in s : TRUE) \in Holder BY DEF Users
  <2> QED BY <2>1 DEF Adds, Open
<1> DEFINE Is(g) == g = [s \in SUBSET Users(l) |->
                            IF s = {} THEN 0
                            ELSE LET x == CHOOSE x \in s : TRUE
                                 IN  (opens[x] - closes[x]) + g[s \ {x}]]
<1>2. Libraries!MapThenSumSet(LAMBDA o : opens[o] - closes[o], Users(l)) = (CHOOSE g : Is(g))[Users(l)]
  BY DEF Libraries!MapThenSumSet, Libraries!MapThenFoldSet
<1>3. \A g : Adds(g, Open, SUBSET Users(l)) <=> Is(g) BY <1>1
<1> HIDE DEF Is
<1>4. (CHOOSE g : Adds(g, Open, SUBSET Users(l))) = (CHOOSE g : Is(g)) BY <1>3
<1> QED BY <1>2, <1>4 DEF Total, Users

\* The invariant.  Objects that closed no more than they had opened hold at most the
\* references there are, and a destroyed object leaves some of them behind or none.
Held == ~overclosed =>
    /\ \A o \in Holder : closes[o] <= opens[o] /\ (~handle[o] => opens[o] = closes[o])
    /\ \A l \in Library : refs[l] >= Total(Open, Users(l))

\* An object that is not there has nothing open.
Unused == \A o \in Holder : path[o] = None => ~handle[o] /\ opens[o] = 0 /\ closes[o] = 0

\* Entries are found under their own name.
Entries ==
    /\ Libraries!LoadedIsEntered /\ Libraries!UnregisteredFirst
    /\ \A n \in Name : components[n] # None => NameOf(components[n]) = n

LibraryInv ==
    /\ Libraries!TypeOK /\ Entries /\ Held
    /\ Unused
    /\ ~overclosed /\ ~leaked => \A l \in Library : refs[l] = Total(Open, Users(l))

\* What one object opens, closes or gives up changes the total of its library alone.
LEMMA OneChanges ==
    ASSUME Libraries!TypeOK, Libraries!TypeOK', NEW o \in Holder,
           \A h \in Holder \ {o} : path'[h] = path[h] /\ opens'[h] = opens[h] /\ closes'[h] = closes[h],
           NEW l \in Library
    PROVE  /\ Total(Open, Users(l)) \in Int
           /\ Total(Open, Users(l))' =
                  Total(Open, Users(l)) - (IF path[o] = l THEN Open[o] ELSE 0)
                                        + (IF path'[o] = l THEN Open'[o] ELSE 0)
<1>1. /\ \A h \in Holder : Open[h] \in Int /\ Open'[h] \in Int
      /\ \A h \in Holder \ {o} : Open'[h] = Open[h]
  BY LibraryAssumption DEF Open, Libraries!TypeOK
<1> DEFINE R == Users(l) \ {o}
           N == Users(l)'
<1>2. /\ IsFiniteSet(Users(l)) /\ IsFiniteSet(N) /\ IsFiniteSet(R)
      /\ Users(l) \subseteq Holder /\ N \subseteq Holder /\ R \subseteq Holder \ {o}
      /\ N \ {o} = R /\ (o \in N <=> path'[o] = l) /\ (o \in Users(l) <=> path[o] = l)
  <2>1. Users(l) \subseteq Holder /\ N \subseteq Holder BY DEF Users
  <2>2. N \ {o} = R BY DEF Users
  <2>3. (o \in N <=> path'[o] = l) /\ (o \in Users(l) <=> path[o] = l) BY DEF Users
  <2> HIDE DEF N
  <2> QED BY <2>1, <2>2, <2>3, LibraryAssumption, FS_Subset, FS_RemoveElement
<1>3. Total(Open, Users(l))' = Total(Open', N) OBVIOUS
<1> HIDE DEF R, N
<1>4. Total(Open', R) = Total(Open, R) /\ Total(Open, R) \in Int BY <1>1, <1>2, TotalIs
<1>5. /\ path[o] = l => Total(Open, Users(l)) = Open[o] + Total(Open, R)
      /\ path[o] # l => Total(Open, Users(l)) = Total(Open, R)
  <2>1. path[o] = l => Total(Open, Users(l)) = Open[o] + Total(Open, R)
    <3>1. path[o] = l => Total(Open, Users(l)) = Open[o] + Total(Open, Users(l) \ {o})
      <4>1. \A h \in Users(l) : Open[h] \in Int BY <1>1, <1>2
      <4> QED BY <1>2, <4>1, TotalIs
    <3> QED BY <3>1 DEF R
  <2>2. path[o] # l => R = Users(l) BY <1>2 DEF R
  <2> QED BY <2>1, <2>2
<1>6. /\ path'[o] = l => Total(Open', N) = Open'[o] + Total(Open', R)
      /\ path'[o] # l => Total(Open', N) = Total(Open', R)
  <2>1. path'[o] = l => Total(Open', N) = Open'[o] + Total(Open', N \ {o})
    BY <1>1, <1>2, TotalIs
  <2>2. path'[o] # l => N = R BY <1>2
  <2> QED BY <1>2, <2>1, <2>2
<1> QED BY <1>1, <1>3, <1>4, <1>5, <1>6

\* When the references of a library change by what one object has open, they stay
\* balanced.
LEMMA Balance ==
    ASSUME LibraryInv, Libraries!TypeOK', Unused', NEW o \in Holder, NEW p \in Library,
           \A h \in Holder \ {o} : path'[h] = path[h] /\ opens'[h] = opens[h] /\ closes'[h] = closes[h],
           path[o] \in {p, None}, path'[o] \in {p, None}, \A l \in Library \ {p} : refs'[l] = refs[l],
           ~overclosed' =>
               /\ ~overclosed
               /\ refs'[p] >= refs[p] + (opens'[o] - closes'[o]) - (opens[o] - closes[o]),
           ~overclosed' /\ ~leaked' =>
               /\ ~leaked
               /\ refs'[p] = refs[p] + (opens'[o] - closes'[o]) - (opens[o] - closes[o])
    PROVE  /\ ~overclosed' => \A l \in Library : refs'[l] >= Total(Open, Users(l))'
           /\ ~overclosed' /\ ~leaked' => \A l \in Library : refs'[l] = Total(Open, Users(l))'
<1>1. /\ opens[o] \in Int /\ closes[o] \in Int /\ opens'[o] \in Int /\ closes'[o] \in Int
      /\ \A l \in Library : refs[l] \in Int /\ refs'[l] \in Int
  BY LibraryAssumption DEF LibraryInv, Libraries!TypeOK
<1>2. Open[o] = opens[o] - closes[o] /\ Open'[o] = opens'[o] - closes'[o] BY DEF Open
<1>3. \A l \in Library :
          /\ Total(Open, Users(l)) \in Int
          /\ Total(Open, Users(l))' =
                 Total(Open, Users(l)) - (IF path[o] = l THEN Open[o] ELSE 0)
                                       + (IF path'[o] = l THEN Open'[o] ELSE 0)
  BY OneChanges DEF LibraryInv
<1>4. /\ path[o] = None => Open[o] = 0
      /\ path'[o] = None => Open'[o] = 0
  BY <1>2 DEF LibraryInv, Unused
<1>5. Total(Open, Users(p))' =
          Total(Open, Users(p)) + (opens'[o] - closes'[o]) - (opens[o] - closes[o])
  <2>1. (IF path[o] = p THEN Open[o] ELSE 0) = opens[o] - closes[o] BY <1>2, <1>4
  <2>2. (IF path'[o] = p THEN Open'[o] ELSE 0) = opens'[o] - closes'[o] BY <1>2, <1>4
  <2> QED BY <1>1, <1>3, <2>1, <2>2
<1>6. \A l \in Library \ {p} : Total(Open, Users(l))' = Total(Open, Users(l))
  BY <1>3, LibraryAssumption
<1>7. ASSUME ~overclosed', NEW l \in Library PROVE refs'[l] >= Total(Open, Users(l))'
  <2>1. refs[l] >= Total(Open, Users(l)) BY <1>7 DEF LibraryInv, Held
  <2>2. CASE l = p BY <1>1, <1>3, <1>5, <1>7, <2>1, <2>2
  <2>3. CASE l # p BY <1>6, <2>1, <2>3
  <2> QED BY <2>2, <2>3
<1>8. ASSUME ~overclosed', ~leaked', NEW l \in Library PROVE refs'[l] = Total(Open, Users(l))'
  <2>1. refs[l] = Total(Open, Users(l)) BY <1>8 DEF LibraryInv
  <2>2. CASE l = p BY <1>1, <1>3, <1>5, <1>8, <2>1, <2>2
  <2>3. CASE l # p BY <1>6, <2>1, <2>3
  <2> QED BY <2>2, <2>3
<1> QED BY <1>7, <1>8

\* An object of a library without references has nothing open.
LEMMA NothingOpen ==
    ASSUME LibraryInv, ~overclosed, NEW o \in Holder, path[o] # None
    PROVE  /\ path[o] \in Library /\ refs[path[o]] >= opens[o] - closes[o]
           /\ opens[o] \in Nat /\ closes[o] \in Nat /\ refs[path[o]] \in Nat
<1>1. \A h \in Holder : opens[h] \in Nat /\ closes[h] \in Nat /\ closes[h] <= opens[h]
  BY LibraryAssumption DEF LibraryInv, Libraries!TypeOK, Held
<1>2. path[o] \in Library /\ refs[path[o]] \in Nat BY DEF LibraryInv, Libraries!TypeOK
<1> DEFINE S == Users(path[o])
<1>3. S \subseteq Holder /\ o \in S BY DEF Users
<1>4. IsFiniteSet(S) BY <1>3, LibraryAssumption, FS_Subset
<1>5. \A h \in S : Open[h] \in Nat BY <1>1, <1>3 DEF Open
<1> HIDE DEF S
<1>6. Total(Open, S) >= Open[o] BY <1>3, <1>4, <1>5, TotalAtLeast
<1>7. Total(Open, S) \in Int
  <2>1. \A h \in S : Open[h] \in Int BY <1>5
  <2> QED BY <1>4, <2>1, TotalIs
<1>8. refs[path[o]] >= Total(Open, S) BY <1>2 DEF LibraryInv, Held, S
<1>9. Open[o] = opens[o] - closes[o] BY DEF Open
<1> QED BY <1>1, <1>2, <1>6, <1>7, <1>8, <1>9

\* What is entered is replaced when code is loaded: the entry is that of the code now.
LEMMA EnteredKeeps ==
    ASSUME LibraryInv, NEW p \in Library, refs[p] = 0, refs' = [refs EXCEPT ![p] = @ + 1],
           Libraries!Entered(p), forgotten' = forgotten
    PROVE  /\ components' \in [Name -> Library \cup {None}] /\ unregistered' \subseteq Name
           /\ later' \in [Library -> SUBSET Library] /\ crashed' \in BOOLEAN /\ Entries'
<1> DEFINE n == NameOf(p)
<1>1. /\ components' = [components EXCEPT ![n] = p] /\ unregistered' = unregistered \ {n}
      /\ crashed' \in {FALSE, Libraries!Stale(n)}
      /\ later' = [k \in Library |-> IF k = p THEN {}
                                     ELSE IF NameOf(k) = n THEN later[k] \cup {p} ELSE later[k]]
  BY DEF Libraries!Entered, Libraries!RegisterComponent
<1>2. /\ n \in Name /\ p # None /\ components \in [Name -> Library \cup {None}]
      /\ unregistered \subseteq Name /\ refs \in [Library -> Nat]
      /\ later \in [Library -> SUBSET Library] /\ \A l \in Library : NameOf(l) \in Name
  BY LibraryAssumption DEF LibraryInv, Libraries!TypeOK
<1>3. Libraries!LoadedIsEntered /\ Libraries!UnregisteredFirst
      /\ \A m \in Name : components[m] # None => NameOf(components[m]) = m
  BY DEF LibraryInv, Entries
<1>4. NameOf(p) = n OBVIOUS
<1> HIDE DEF n
<1>5. components' \in [Name -> Library \cup {None}] /\ unregistered' \subseteq Name BY <1>1, <1>2
<1>6. later' \in [Library -> SUBSET Library]
  <2>1. \A k \in Library : (IF k = p THEN {} ELSE IF NameOf(k) = n THEN later[k] \cup {p} ELSE later[k])
                             \in SUBSET Library
    BY <1>2
  <2> QED BY <1>1, <2>1
<1>7. Libraries!Stale(n) \in BOOLEAN /\ crashed' \in BOOLEAN BY <1>1, Zenon DEF Libraries!Stale
<1>8. Libraries!LoadedIsEntered'
  <2>1. ASSUME NEW l \in Library, refs'[l] > 0, NameOf(l) \notin unregistered'
        PROVE  components'[NameOf(l)] \in {l} \cup later'[l]
    <3>1. CASE NameOf(l) = n BY <1>1, <1>2, <3>1
    <3>2. CASE NameOf(l) # n
      <4>1. l # p BY <1>4, <3>2
      <4>2. refs[l] > 0 /\ NameOf(l) \notin unregistered BY <1>1, <1>2, <2>1, <3>2, <4>1
      <4>3. components[NameOf(l)] \in {l} \cup later[l] BY <1>3, <4>2 DEF Libraries!LoadedIsEntered
      <4> QED BY <1>1, <1>2, <3>2, <4>1, <4>3
    <3> QED BY <3>1, <3>2
  <2> QED BY <2>1 DEF Libraries!LoadedIsEntered
<1>9. Libraries!UnregisteredFirst'
  <2> SUFFICES ASSUME ~forgotten'
               PROVE  ~crashed' /\ \A m \in Name : ~Libraries!Stale(m)'
    BY DEF Libraries!UnregisteredFirst
  <2>1. \A m \in Name : ~Libraries!Stale(m) BY <1>3 DEF Libraries!UnregisteredFirst
  <2>2. ~crashed' BY <1>1, <1>2, <2>1
  <2>3. ASSUME NEW m \in Name PROVE ~Libraries!Stale(m)'
    <3>1. CASE m = n BY <1>1, <1>2, <3>1 DEF Libraries!Stale
    <3>2. CASE m # n
      <4>1. components'[m] = components[m] BY <1>1, <1>2, <3>2
      <4>2. components[m] # None => components[m] \in Library /\ refs[components[m]] # 0
        BY <1>2, <2>1 DEF Libraries!Stale
      <4>3. \A l \in Library : refs[l] # 0 => refs'[l] # 0 BY <1>2
      <4> QED BY <4>1, <4>2, <4>3 DEF Libraries!Stale
    <3> QED BY <3>1, <3>2
  <2> QED BY <2>2, <2>3
<1>10. \A m \in Name : components'[m] # None => NameOf(components'[m]) = m
  BY <1>1, <1>2, <1>3, <1>4
<1> QED BY <1>5, <1>6, <1>7, <1>8, <1>9, <1>10 DEF Entries

\* Code goes while nothing of its name is entered, or it is forgotten there.
LEMMA CloseKeepsEntries ==
    ASSUME LibraryInv, NEW p \in Library,
           refs' = [refs EXCEPT ![p] = IF @ > 0 THEN @ - 1 ELSE 0],
           forgotten' = (forgotten \/ (refs[p] = 1 /\ components[NameOf(p)] # None)),
           UNCHANGED <<components, unregistered, later, crashed>>
    PROVE  Entries' /\ forgotten' \in BOOLEAN
<1>1. /\ refs \in [Library -> Nat] /\ components \in [Name -> Library \cup {None}]
      /\ Libraries!LoadedIsEntered /\ Libraries!UnregisteredFirst
      /\ \A n \in Name : components[n] # None => NameOf(components[n]) = n
  BY DEF LibraryInv, Libraries!TypeOK, Entries
<1>2. Libraries!LoadedIsEntered'
  <2>1. \A l \in Library : refs'[l] > 0 => refs[l] > 0 BY <1>1
  <2> QED BY <1>1, <2>1 DEF Libraries!LoadedIsEntered
<1>3. Libraries!UnregisteredFirst'
  <2> SUFFICES ASSUME ~forgotten'
               PROVE  ~crashed' /\ \A n \in Name : ~Libraries!Stale(n)'
    BY DEF Libraries!UnregisteredFirst
  <2>1. ~forgotten /\ ~(refs[p] = 1 /\ components[NameOf(p)] # None) OBVIOUS
  <2>2. ~crashed /\ \A n \in Name : ~Libraries!Stale(n) BY <1>1, <2>1 DEF Libraries!UnregisteredFirst
  <2>3. ASSUME NEW n \in Name, components[n] # None PROVE refs'[components[n]] # 0
    <3>1. /\ components[n] \in Library /\ refs[components[n]] # 0 /\ refs[components[n]] \in Nat
          /\ NameOf(components[n]) = n
      BY <1>1, <2>2, <2>3 DEF Libraries!Stale
    <3>2. CASE components[n] = p BY <1>1, <2>1, <2>3, <3>1, <3>2
    <3>3. CASE components[n] # p BY <1>1, <3>1, <3>3
    <3> QED BY <3>2, <3>3
  <2> QED BY <2>2, <2>3 DEF Libraries!Stale
<1>4. forgotten' \in BOOLEAN
  <2>1. (forgotten \/ (refs[p] = 1 /\ components[NameOf(p)] # None)) \in BOOLEAN BY Zenon
  <2> QED BY <2>1, Zenon
<1> QED BY <1>1, <1>2, <1>3, <1>4 DEF Entries

LEMMA LibraryInitially == Libraries!Init => LibraryInv
<1> SUFFICES ASSUME Libraries!Init PROVE LibraryInv OBVIOUS
<1>1. Libraries!TypeOK
  <2>1. /\ path \in [Holder -> Library \cup {None}] /\ refs \in [Library -> Nat]
        /\ components \in [Name -> Library \cup {None}] /\ unregistered \subseteq Name
        /\ opens \in [Holder -> 0..MaxLoads] /\ closes \in [Holder -> 0..(MaxLoads + 1)]
        /\ later \in [Library -> SUBSET Library]
    BY LibraryAssumption DEF Libraries!Init
  <2>2. /\ handle \in [Holder -> BOOLEAN] /\ overclosed \in BOOLEAN /\ leaked \in BOOLEAN
        /\ forgotten \in BOOLEAN /\ crashed \in BOOLEAN
    BY Zenon DEF Libraries!Init
  <2> QED BY <2>1, <2>2, Zenon DEF Libraries!TypeOK
<1>2. ASSUME NEW l \in Library PROVE Total(Open, Users(l)) = 0 /\ refs[l] = 0
  <2>1. Users(l) = {} BY LibraryAssumption DEF Users, Libraries!Init
  <2>2. Total(Open, {}) = 0 BY FS_EmptySet, TotalIs
  <2> QED BY <2>1, <2>2 DEF Libraries!Init
<1>3. Held BY <1>2 DEF Held, Libraries!Init
<1>4. Entries
  <2>1. \A n \in Name : components[n] = None BY DEF Libraries!Init
  <2>2. ~crashed BY DEF Libraries!Init
  <2> QED
    BY <1>2, <2>1, <2>2
       DEF Entries, Libraries!LoadedIsEntered, Libraries!UnregisteredFirst, Libraries!Stale
<1>5. Unused BY DEF Unused, Libraries!Init
<1> QED BY <1>1, <1>2, <1>3, <1>4, <1>5 DEF LibraryInv

\* dlopen adds a reference, and enters the component of code that was not there; a failure
\* leaves a null handle, which needs that nobody had the library open.
LEMMA LoadKeeps ==
    ASSUME LibraryInv, NEW o \in Holder, NEW p \in Library, path[o] \in {p, None},
           path' = [path EXCEPT ![o] = p], opens[o] < MaxLoads, Libraries!Load(o, p),
           closes' = closes, overclosed' = overclosed, leaked' = leaked, forgotten' = forgotten
    PROVE  LibraryInv'
<1>1. \/ /\ refs' = [refs EXCEPT ![p] = @ + 1]
         /\ \/ refs[p] = 0 /\ Libraries!Entered(p)
            \/ refs[p] # 0 /\ UNCHANGED <<components, unregistered, later, crashed>>
         /\ handle' = [handle EXCEPT ![o] = TRUE] /\ opens' = [opens EXCEPT ![o] = @ + 1]
      \/ /\ refs[p] = 0 /\ handle' = [handle EXCEPT ![o] = FALSE]
         /\ UNCHANGED <<refs, components, unregistered, later, crashed, opens>>
  BY DEF Libraries!Load, Libraries!dlopen, Libraries!registry
<1>2. /\ refs[p] \in Nat /\ opens[o] \in Nat /\ closes[o] \in Nat /\ NameOf(p) \in Name /\ p # None
      /\ Libraries!TypeOK /\ Held /\ Unused /\ Entries
      /\ path \in [Holder -> Library \cup {None}] /\ handle \in [Holder -> BOOLEAN]
      /\ refs \in [Library -> Nat] /\ components \in [Name -> Library \cup {None}]
      /\ opens \in [Holder -> 0..MaxLoads] /\ unregistered \subseteq Name
  BY LibraryAssumption DEF LibraryInv, Libraries!TypeOK
<1>3. Libraries!TypeOK'
  <2>1. refs' \in [Library -> Nat] BY <1>1, <1>2
  <2>2. opens' \in [Holder -> 0..MaxLoads]
    <3>1. opens[o] + 1 \in 0..MaxLoads BY <1>2, LibraryAssumption
    <3> QED BY <1>1, <1>2, <3>1
  <2>3. path' \in [Holder -> Library \cup {None}] BY <1>2
  <2>4. /\ components' \in [Name -> Library \cup {None}] /\ unregistered' \subseteq Name
        /\ later' \in [Library -> SUBSET Library] /\ crashed' \in BOOLEAN
    <3>1. CASE UNCHANGED <<components, unregistered, later, crashed>>
      BY <1>2, <3>1, Zenon DEF Libraries!TypeOK
    <3>2. CASE refs[p] = 0 /\ Libraries!Entered(p) /\ refs' = [refs EXCEPT ![p] = @ + 1]
      BY <3>2, EnteredKeeps
    <3> QED BY <1>1, <3>1, <3>2
  <2>5. handle' \in [Holder -> BOOLEAN] BY <1>1, <1>2, Zenon
  <2> QED BY <1>2, <2>1, <2>2, <2>3, <2>4, <2>5, Zenon DEF Libraries!TypeOK
<1>4. \A h \in Holder \ {o} : /\ path'[h] = path[h] /\ opens'[h] = opens[h] /\ closes'[h] = closes[h]
                              /\ handle'[h] = handle[h]
  BY <1>1, <1>2
<1>5. path'[o] = p BY <1>2
<1>6. Unused' BY <1>2, <1>4, <1>5 DEF Unused
<1>7. Entries'
  <2>1. CASE refs[p] = 0 /\ Libraries!Entered(p) /\ refs' = [refs EXCEPT ![p] = @ + 1]
    BY <2>1, EnteredKeeps
  <2>2. CASE /\ UNCHANGED <<components, unregistered, later, crashed>>
             /\ (refs[p] # 0 /\ refs' = [refs EXCEPT ![p] = @ + 1]) \/ refs' = refs
    <3>1. \A l \in Library : (refs'[l] > 0) <=> (refs[l] > 0) BY <1>2, <2>2
    <3>2. \A l \in Library : refs'[l] \in Nat /\ refs[l] \in Nat BY <1>2, <1>3 DEF Libraries!TypeOK
    <3>3. \A l \in Library : (refs'[l] = 0) <=> (refs[l] = 0) BY <3>1, <3>2
    <3>4. \A n \in Name : Libraries!Stale(n)' <=> Libraries!Stale(n)
      BY <1>2, <2>2, <3>3 DEF Libraries!Stale
    <3>5. Libraries!LoadedIsEntered'
      BY <1>2, <2>2, <3>1 DEF Entries, Libraries!LoadedIsEntered
    <3>6. Libraries!UnregisteredFirst'
      BY <1>2, <2>2, <3>4 DEF Entries, Libraries!UnregisteredFirst
    <3> QED BY <1>2, <2>2, <3>5, <3>6 DEF Entries
  <2> QED BY <1>1, <2>1, <2>2
<1>8. /\ refs'[p] = refs[p] + (opens'[o] - closes'[o]) - (opens[o] - closes[o])
      /\ \A l \in Library \ {p} : refs'[l] = refs[l]
  BY <1>1, <1>2
<1>9. /\ ~overclosed' => \A l \in Library : refs'[l] >= Total(Open, Users(l))'
      /\ ~overclosed' /\ ~leaked' => \A l \in Library : refs'[l] = Total(Open, Users(l))'
  <2>1. /\ refs[p] \in Int /\ opens[o] \in Int /\ closes[o] \in Int /\ opens'[o] \in Int
        /\ closes'[o] \in Int /\ refs'[p] \in Int
    BY <1>2, <1>3 DEF Libraries!TypeOK
  <2>2. path'[o] \in {p, None} BY <1>5
  <2>3. refs'[p] >= refs[p] + (opens'[o] - closes'[o]) - (opens[o] - closes[o]) BY <1>8, <2>1
  <2> QED BY <1>2, <1>3, <1>4, <1>6, <1>8, <2>2, <2>3, Balance
<1>10. ~overclosed' => closes'[o] <= opens'[o] /\ (~handle'[o] => opens'[o] = closes'[o])
  <2> SUFFICES ASSUME ~overclosed'
               PROVE  closes'[o] <= opens'[o] /\ (~handle'[o] => opens'[o] = closes'[o])
    OBVIOUS
  <2>1. closes[o] <= opens[o] BY DEF LibraryInv, Held
  <2>2. CASE handle' = [handle EXCEPT ![o] = TRUE] /\ opens' = [opens EXCEPT ![o] = @ + 1]
    BY <1>2, <2>1, <2>2
  <2>3. CASE refs[p] = 0 /\ opens' = opens
    <3>1. CASE path[o] = None BY <1>2, <2>3, <3>1 DEF Unused
    <3>2. CASE path[o] = p
      <4>1. refs[p] >= opens[o] - closes[o] BY <1>2, <3>2, NothingOpen
      <4> QED BY <1>2, <2>1, <2>3, <4>1
    <3> QED BY <3>1, <3>2
  <2> QED BY <1>1, <2>2, <2>3
<1>11. Held'
  <2>1. \A h \in Holder \ {o} : ~overclosed' => /\ closes'[h] <= opens'[h]
                                                /\ ~handle'[h] => opens'[h] = closes'[h]
    BY <1>2, <1>4 DEF Held
  <2> QED BY <1>9, <1>10, <2>1 DEF Held
<1> QED BY <1>3, <1>6, <1>7, <1>9, <1>11 DEF LibraryInv

\* The steps.  An object is made, and loads its library or fails to.
LEMMA ConstructKeeps ==
    ASSUME LibraryInv, NEW o \in Holder, NEW l \in Library, Libraries!Construct(o, l)
    PROVE  LibraryInv'
<1>1. /\ path[o] = None /\ path' = [path EXCEPT ![o] = l] /\ Libraries!Load(o, l)
      /\ closes' = closes /\ overclosed' = overclosed /\ leaked' = leaked /\ forgotten' = forgotten
  BY DEF Libraries!Construct
<1>2. opens[o] < MaxLoads BY <1>1, LibraryAssumption DEF LibraryInv, Unused
<1> QED BY <1>1, <1>2, LoadKeeps

LEMMA LoadAgainKeeps ==
    ASSUME LibraryInv, NEW o \in Holder, Libraries!LoadAgain(o)
    PROVE  LibraryInv'
<1>1. /\ path[o] # None /\ opens[o] < MaxLoads /\ Libraries!Load(o, path[o]) /\ path' = path
      /\ closes' = closes /\ overclosed' = overclosed /\ leaked' = leaked /\ forgotten' = forgotten
  BY DEF Libraries!LoadAgain
<1>2. path \in [Holder -> Library \cup {None}] BY DEF LibraryInv, Libraries!TypeOK
<1>3. path[o] \in Library /\ path' = [path EXCEPT ![o] = path[o]] BY <1>1, <1>2
<1> QED BY <1>1, <1>3, LoadKeeps

\* dlclose gives a reference back.
LEMMA UnloadKeeps ==
    ASSUME LibraryInv, NEW o \in Holder, Libraries!Unload(o)
    PROVE  LibraryInv'
<1> DEFINE p == path[o]
<1>1. /\ p # None /\ handle[o] /\ closes[o] <= MaxLoads
      /\ refs' = [refs EXCEPT ![p] = IF @ > 0 THEN @ - 1 ELSE 0]
      /\ overclosed' = (overclosed \/ closes[o] >= opens[o])
      /\ closes' = [closes EXCEPT ![o] = @ + 1]
      /\ forgotten' = (forgotten \/ (refs[p] = 1 /\ components[NameOf(p)] # None))
      /\ UNCHANGED <<path, handle, opens, leaked, components, unregistered, later, crashed>>
  BY DEF Libraries!Unload, Libraries!dlclose, Libraries!registry
<1>2. /\ p \in Library /\ refs[p] \in Nat /\ opens[o] \in Nat /\ closes[o] \in Nat
      /\ Libraries!TypeOK /\ Held /\ Unused /\ Entries
      /\ refs \in [Library -> Nat] /\ closes \in [Holder -> 0..(MaxLoads + 1)]
  BY <1>1, LibraryAssumption DEF LibraryInv, Libraries!TypeOK
<1> HIDE DEF p
<1>3. Entries' /\ forgotten' \in BOOLEAN BY <1>1, <1>2, CloseKeepsEntries
<1>4. Libraries!TypeOK'
  <2>1. refs' \in [Library -> Nat] BY <1>1, <1>2
  <2>2. closes[o] + 1 \in 0..(MaxLoads + 1) BY <1>1, <1>2, LibraryAssumption
  <2>3. closes' \in [Holder -> 0..(MaxLoads + 1)] BY <1>1, <1>2, <2>2
  <2>4. overclosed' \in BOOLEAN BY <1>1, Zenon
  <2> QED BY <1>1, <1>2, <1>3, <2>1, <2>3, <2>4, Zenon DEF Libraries!TypeOK
<1>5. Unused' BY <1>1, <1>2 DEF Unused, p
<1>6. ~overclosed' => /\ ~overclosed /\ closes[o] < opens[o] /\ refs[p] > 0 /\ refs'[p] = refs[p] - 1
  <2> SUFFICES ASSUME ~overclosed' PROVE ~overclosed /\ closes[o] < opens[o] /\ refs[p] > 0
    BY <1>1, <1>2
  <2>1. ~overclosed /\ ~(closes[o] >= opens[o]) BY <1>1
  <2>2. refs[p] >= opens[o] - closes[o] BY <1>1, <2>1, NothingOpen DEF p
  <2> QED BY <1>2, <2>1, <2>2
<1>7. /\ opens'[o] = opens[o] /\ closes'[o] = closes[o] + 1
      /\ \A h \in Holder \ {o} : path'[h] = path[h] /\ opens'[h] = opens[h] /\ closes'[h] = closes[h]
      /\ path[o] \in {p, None} /\ path'[o] \in {p, None} /\ \A l \in Library \ {p} : refs'[l] = refs[l]
  BY <1>1, <1>2 DEF p
<1>8. /\ ~overclosed' => \A l \in Library : refs'[l] >= Total(Open, Users(l))'
      /\ ~overclosed' /\ ~leaked' => \A l \in Library : refs'[l] = Total(Open, Users(l))'
  <2>1. ~overclosed' => refs'[p] = refs[p] + (opens'[o] - closes'[o]) - (opens[o] - closes[o])
    BY <1>2, <1>6, <1>7
  <2>2. refs'[p] \in Int /\ refs[p] \in Int /\ opens'[o] \in Int /\ closes'[o] \in Int
        /\ opens[o] \in Int /\ closes[o] \in Int
    BY <1>2, <1>4, <1>7 DEF Libraries!TypeOK
  <2>3. leaked' = leaked BY <1>1
  <2> QED BY <1>2, <1>4, <1>5, <1>6, <1>7, <2>1, <2>2, <2>3, Balance
<1>9. ~overclosed' => \A h \in Holder : closes'[h] <= opens'[h] /\ (~handle'[h] => opens'[h] = closes'[h])
  BY <1>1, <1>2, <1>6, <1>7 DEF Held
<1> QED BY <1>3, <1>4, <1>5, <1>8, <1>9 DEF LibraryInv, Held

\* The destructor gives one reference back, whatever the object had open.
LEMMA DestroyKeeps ==
    ASSUME LibraryInv, NEW o \in Holder, Libraries!Destroy(o)
    PROVE  LibraryInv'
<1> DEFINE p == path[o]
<1>1. /\ p # None
      /\ \/ /\ handle[o] /\ refs' = [refs EXCEPT ![p] = IF @ > 0 THEN @ - 1 ELSE 0]
            /\ overclosed' = (overclosed \/ closes[o] >= opens[o])
            /\ forgotten' = (forgotten \/ (refs[p] = 1 /\ components[NameOf(p)] # None))
         \/ ~handle[o] /\ refs' = refs /\ overclosed' = overclosed /\ forgotten' = forgotten
      /\ leaked' = (leaked \/ opens[o] > closes[o] + 1)
      /\ path' = [path EXCEPT ![o] = None] /\ handle' = [handle EXCEPT ![o] = FALSE]
      /\ opens' = [opens EXCEPT ![o] = 0] /\ closes' = [closes EXCEPT ![o] = 0]
      /\ UNCHANGED <<components, unregistered, later, crashed>>
  BY DEF Libraries!Destroy, Libraries!dlclose, Libraries!Gone, Libraries!registry
<1>2. /\ p \in Library /\ refs[p] \in Nat /\ opens[o] \in Nat /\ closes[o] \in Nat
      /\ Libraries!TypeOK /\ Held /\ Unused /\ Entries
      /\ refs \in [Library -> Nat] /\ closes \in [Holder -> 0..(MaxLoads + 1)]
      /\ opens \in [Holder -> 0..MaxLoads] /\ path \in [Holder -> Library \cup {None}]
      /\ handle \in [Holder -> BOOLEAN] /\ overclosed \in BOOLEAN /\ leaked \in BOOLEAN
  <2>1. /\ p \in Library /\ refs[p] \in Nat /\ opens[o] \in Nat /\ closes[o] \in Nat
    BY <1>1, LibraryAssumption DEF LibraryInv, Libraries!TypeOK
  <2> QED BY <2>1, Zenon DEF LibraryInv, Libraries!TypeOK
<1> HIDE DEF p
<1>3. Entries' /\ forgotten' \in BOOLEAN
  <2>1. CASE refs' = refs /\ forgotten' = forgotten
    <3>1. \A n \in Name : Libraries!Stale(n)' <=> Libraries!Stale(n) BY <1>1, <2>1 DEF Libraries!Stale
    <3> QED
      BY <1>1, <1>2, <2>1, <3>1, Zenon
         DEF Entries, Libraries!LoadedIsEntered, Libraries!UnregisteredFirst, Libraries!TypeOK
  <2> QED BY <1>1, <1>2, <2>1, CloseKeepsEntries
<1>4. Libraries!TypeOK'
  <2>1. refs' \in [Library -> Nat] BY <1>1, <1>2
  <2>2. closes' \in [Holder -> 0..(MaxLoads + 1)] /\ opens' \in [Holder -> 0..MaxLoads]
    BY <1>1, <1>2, LibraryAssumption
  <2>3. path' \in [Holder -> Library \cup {None}] BY <1>1, <1>2
  <2>4. handle' \in [Holder -> BOOLEAN] BY <1>1, <1>2, Zenon
  <2>5. overclosed' \in BOOLEAN /\ leaked' \in BOOLEAN BY <1>1, <1>2, Zenon
  <2>6. /\ components' \in [Name -> Library \cup {None}] /\ unregistered' \subseteq Name
        /\ later' \in [Library -> SUBSET Library] /\ crashed' \in BOOLEAN
    BY <1>1, <1>2, Zenon DEF Libraries!TypeOK
  <2> QED BY <1>3, <2>1, <2>2, <2>3, <2>4, <2>5, <2>6, Zenon DEF Libraries!TypeOK
<1>5. /\ opens'[o] = 0 /\ closes'[o] = 0 /\ path'[o] = None /\ ~handle'[o]
      /\ \A h \in Holder \ {o} : /\ path'[h] = path[h] /\ opens'[h] = opens[h]
                                 /\ closes'[h] = closes[h] /\ handle'[h] = handle[h]
  BY <1>1, <1>2
<1>6. Unused' BY <1>2, <1>5 DEF Unused
<1>7. ~overclosed' =>
          \/ ~overclosed /\ closes[o] < opens[o] /\ refs'[p] = refs[p] - 1
          \/ ~overclosed /\ closes[o] = opens[o] /\ refs'[p] = refs[p]
  <2> SUFFICES ASSUME ~overclosed'
               PROVE  \/ ~overclosed /\ closes[o] < opens[o] /\ refs'[p] = refs[p] - 1
                      \/ ~overclosed /\ closes[o] = opens[o] /\ refs'[p] = refs[p]
    OBVIOUS
  <2>1. ~overclosed BY <1>1
  <2>2. CASE ~handle[o] /\ refs' = refs BY <1>2, <2>1, <2>2 DEF Held
  <2>3. CASE /\ handle[o] /\ refs' = [refs EXCEPT ![p] = IF @ > 0 THEN @ - 1 ELSE 0]
             /\ overclosed' = (overclosed \/ closes[o] >= opens[o])
    <3>1. closes[o] < opens[o] BY <1>2, <2>3
    <3>2. refs[p] >= opens[o] - closes[o] BY <1>1, <2>1, NothingOpen DEF p
    <3> QED BY <1>2, <2>1, <2>3, <3>1, <3>2
  <2> QED BY <1>1, <2>2, <2>3
<1>8. /\ path[o] \in {p, None} /\ path'[o] \in {p, None} /\ \A l \in Library \ {p} : refs'[l] = refs[l]
  BY <1>1, <1>2, <1>5 DEF p
<1>9. /\ ~overclosed' => \A l \in Library : refs'[l] >= Total(Open, Users(l))'
      /\ ~overclosed' /\ ~leaked' => \A l \in Library : refs'[l] = Total(Open, Users(l))'
  <2>1. refs'[p] \in Int /\ refs[p] \in Int /\ opens[o] \in Int /\ closes[o] \in Int
    BY <1>2, <1>4 DEF Libraries!TypeOK
  <2>2. ~overclosed' =>
            /\ ~overclosed
            /\ refs'[p] >= refs[p] + (opens'[o] - closes'[o]) - (opens[o] - closes[o])
    BY <1>5, <1>7, <2>1
  <2>3. ~overclosed' /\ ~leaked' =>
            /\ ~leaked
            /\ refs'[p] = refs[p] + (opens'[o] - closes'[o]) - (opens[o] - closes[o])
    <3>1. ~leaked' => ~leaked /\ opens[o] <= closes[o] + 1
      <4>1. leaked' = (leaked \/ opens[o] > closes[o] + 1) BY <1>1
      <4>2. ~(opens[o] > closes[o] + 1) <=> opens[o] <= closes[o] + 1 BY <2>1
      <4> QED BY <4>1, <4>2, Zenon
    <3> QED BY <1>5, <1>7, <2>1, <3>1
  <2> QED BY <1>2, <1>4, <1>5, <1>6, <1>8, <2>2, <2>3, Balance
<1>10. Held'
  <2>1. ~overclosed' =>
            \A h \in Holder : closes'[h] <= opens'[h] /\ (~handle'[h] => opens'[h] = closes'[h])
    <3>1. ~overclosed' => ~overclosed BY <1>7
    <3>2. ASSUME NEW h \in Holder, ~overclosed'
          PROVE  closes'[h] <= opens'[h] /\ (~handle'[h] => opens'[h] = closes'[h])
      <4>1. CASE h = o BY <1>5, <4>1
      <4>2. CASE h # o BY <1>2, <1>5, <3>1, <3>2, <4>2 DEF Held
      <4> QED BY <4>1, <4>2
    <3> QED BY <3>2
  <2> QED BY <1>9, <2>1 DEF Held
<1> QED BY <1>4, <1>6, <1>3, <1>9, <1>10 DEF LibraryInv

\* Nothing else matters to what is open.
LEMMA OthersKeep ==
    ASSUME LibraryInv, UNCHANGED <<path, handle, refs, opens, closes, overclosed, leaked>>,
           Libraries!TypeOK', Entries'
    PROVE  LibraryInv'
<1>1. Open' = Open /\ \A l : Users(l)' = Users(l) BY DEF Open, Users
<1>2. \A l : Total(Open, Users(l))' = Total(Open, Users(l)) BY <1>1
<1>3. Held' /\ Unused' BY <1>2 DEF LibraryInv, Held, Unused
<1> QED BY <1>2, <1>3 DEF LibraryInv

LEMMA UnregisterKeeps ==
    ASSUME LibraryInv, NEW n \in Name, Libraries!UnregisterComponent(n)
    PROVE  LibraryInv'
<1>1. /\ components' = [components EXCEPT ![n] = None] /\ unregistered' = unregistered \cup {n}
      /\ crashed' \in {FALSE, Libraries!Stale(n)}
      /\ UNCHANGED <<path, handle, refs, opens, closes, overclosed, leaked, later, forgotten>>
  BY DEF Libraries!UnregisterComponent, Libraries!objects
<1>2. /\ components \in [Name -> Library \cup {None}] /\ Libraries!LoadedIsEntered
      /\ Libraries!UnregisteredFirst /\ \A m \in Name : components[m] # None => NameOf(components[m]) = m
  BY DEF LibraryInv, Libraries!TypeOK, Entries
<1>3. Libraries!TypeOK'
  <2>1. components' \in [Name -> Library \cup {None}] /\ unregistered' \subseteq Name
    BY <1>1 DEF LibraryInv, Libraries!TypeOK
  <2>2. crashed' \in BOOLEAN BY <1>1, Zenon DEF Libraries!Stale
  <2> QED BY <1>1, <2>1, <2>2, Zenon DEF LibraryInv, Libraries!TypeOK
<1>4. Libraries!LoadedIsEntered'
  <2>1. ASSUME NEW l \in Library, refs[l] > 0, NameOf(l) \notin unregistered'
        PROVE  components'[NameOf(l)] \in {l} \cup later[l]
    <3>1. NameOf(l) # n /\ NameOf(l) \in Name /\ NameOf(l) \notin unregistered
      BY <1>1, <2>1, LibraryAssumption
    <3>2. components[NameOf(l)] \in {l} \cup later[l]
      BY <1>2, <2>1, <3>1 DEF Libraries!LoadedIsEntered
    <3> QED BY <1>1, <1>2, <3>1, <3>2
  <2> QED BY <1>1, <2>1 DEF Libraries!LoadedIsEntered
<1>5. Libraries!UnregisteredFirst'
  <2> SUFFICES ASSUME ~forgotten'
               PROVE  ~crashed' /\ \A m \in Name : ~Libraries!Stale(m)'
    BY DEF Libraries!UnregisteredFirst
  <2>1. \A m \in Name : ~Libraries!Stale(m) BY <1>1, <1>2 DEF Libraries!UnregisteredFirst
  <2>2. ~crashed' BY <1>1, <2>1
  <2>3. \A m \in Name : ~Libraries!Stale(m)' BY <1>1, <1>2, <2>1 DEF Libraries!Stale
  <2> QED BY <2>2, <2>3
<1>6. \A m \in Name : components'[m] # None => NameOf(components'[m]) = m BY <1>1, <1>2
<1> QED BY <1>1, <1>3, <1>4, <1>5, <1>6, OthersKeep DEF Entries

\* What is created is code that is there, or some was forgotten.
LEMMA CreateKeeps ==
    ASSUME LibraryInv, NEW n \in Name, Libraries!CreateSingleComponent(n)
    PROVE  LibraryInv'
<1>1. /\ crashed' = Libraries!Stale(n)
      /\ UNCHANGED <<path, handle, refs, opens, closes, overclosed, leaked>>
      /\ UNCHANGED <<components, unregistered, later, forgotten>>
  BY DEF Libraries!CreateSingleComponent, Libraries!objects, Libraries!registry
<1>2. crashed' \in BOOLEAN
  <2>1. Libraries!Stale(n) \in BOOLEAN BY Zenon DEF Libraries!Stale
  <2> QED BY <1>1, <2>1, Zenon
<1>3. Libraries!TypeOK' BY <1>1, <1>2, Zenon DEF LibraryInv, Libraries!TypeOK
<1>4. \A m \in Name : Libraries!Stale(m)' <=> Libraries!Stale(m) BY <1>1 DEF Libraries!Stale
<1>5. Libraries!UnregisteredFirst'
  BY <1>1, <1>4 DEF LibraryInv, Entries, Libraries!UnregisteredFirst
<1>6. Entries' BY <1>1, <1>5 DEF LibraryInv, Entries, Libraries!LoadedIsEntered
<1> QED BY <1>1, <1>3, <1>6, OthersKeep

LEMMA LibraryInductive == LibraryInv /\ [Libraries!Next]_Libraries!vars => LibraryInv'
<1> SUFFICES ASSUME LibraryInv, [Libraries!Next]_Libraries!vars PROVE LibraryInv' OBVIOUS
<1>1. CASE UNCHANGED Libraries!vars
  <2>1. /\ UNCHANGED <<path, handle, refs, opens, closes, overclosed, leaked>>
        /\ UNCHANGED <<components, unregistered, later, forgotten, crashed>>
    BY <1>1 DEF Libraries!vars, Libraries!objects, Libraries!registry
  <2>2. \A m \in Name : Libraries!Stale(m)' <=> Libraries!Stale(m) BY <2>1 DEF Libraries!Stale
  <2>3. Libraries!TypeOK' BY <2>1, Zenon DEF LibraryInv, Libraries!TypeOK
  <2>4. Libraries!UnregisteredFirst'
    BY <2>1, <2>2 DEF LibraryInv, Entries, Libraries!UnregisteredFirst
  <2>5. Entries' BY <2>1, <2>4 DEF LibraryInv, Entries, Libraries!LoadedIsEntered
  <2> QED BY <2>1, <2>3, <2>5, OthersKeep
<1> QED
  BY <1>1, ConstructKeeps, LoadAgainKeeps, UnloadKeeps, DestroyKeeps, UnregisterKeeps, CreateKeeps
     DEF Libraries!Next

\* An object that has not closed all it opened finds its library's code, unless one closed
\* too often; references are the opens not closed as long as loads and unloads pair; the
\* entry for a loaded library's name is its own or that of one of the same name loaded after
\* it, which may be gone; and code that is gone is called only if a name was still entered
\* when its code went: for any objects, libraries and names.
THEOREM LibraryIsKept == FairPartsSpec => []LibraryKept
<1>1. PartsInit => LibraryInv BY LibraryInitially DEF PartsInit
<1>2. LibraryInv /\ [PartsNext]_parts => LibraryInv'
  <2>1. [PartsNext]_parts => [Libraries!Next]_Libraries!vars
    BY DEF PartsNext, parts, loads, Libraries!vars, Libraries!objects, Libraries!registry
  <2> QED BY <2>1, LibraryInductive
<1>3. LibraryInv => LibraryKept
  <2> SUFFICES ASSUME LibraryInv PROVE LibraryKept OBVIOUS
  <2>1. Libraries!RefsAreHolders BY RefsAreTotals DEF LibraryInv
  <2>2. Libraries!HolderKeepsLibrary
    <3> SUFFICES ASSUME ~overclosed, NEW o \in Holder, path[o] # None, opens[o] > closes[o]
                 PROVE  refs[path[o]] > 0
      BY DEF Libraries!HolderKeepsLibrary
    <3>1. /\ refs[path[o]] >= opens[o] - closes[o] /\ refs[path[o]] \in Nat
          /\ opens[o] \in Nat /\ closes[o] \in Nat
      BY NothingOpen
    <3> QED BY <3>1
  <2> QED BY <2>1, <2>2 DEF LibraryInv, Entries, LibraryKept
<1> QED BY <1>1, <1>2, <1>3, PTL DEF FairPartsSpec

-----------------------------------------------------------------------------
\* A step of the whole is a step of each part, or leaves it alone.
LEMMA PartsStep == [PartsNext]_parts => [Next]_vars /\ [Single!Next]_Single!vars
BY DEF PartsNext, parts, calls, Single!vars

\* What the parts promise they promise side by side: an entity id that one thread
\* at a time compares survives, overlapping comparisons keep its octets in their
\* pairs, and there is one singleton or none.
THEOREM SharingHolds == FairPartsSpec => [](OctetsStayInPairs /\ HarmlessAlone /\ OneSingleton)
<1>1. PartsInit => Init /\ Single!Init BY DEF PartsInit
<1>2. Single!OneWholeObject <=> OneSingleton BY DEF OneSingleton
<1> QED
  BY <1>1, <1>2, PartsStep, OctetsKept, AloneIsHarmless, SingletonHolds, PTL
     DEF FairPartsSpec, Spec, Single!Spec
=============================================================================
