--------------------------- MODULE SemaphoreProofs ---------------------------
(***************************************************************************)
(* Safety of the semaphore for any finite number of threads, any initial   *)
(* value and any bound on the permits that a size_t can hold.              *)
(***************************************************************************)
EXTENDS Semaphore, FiniteSetTheorems, TLAPS

\* disable wakes everybody, and nobody blocks on a disabled semaphore.
NobodySleepsDisabled == disable_ => blocked = {}

\* The inductive invariant.
IInv ==
    /\ TypeOK
    /\ blocked \cap woken = {}
    /\ NobodySleepsDisabled
    /\ PermitsConserved
    /\ NoLostWakeup

-----------------------------------------------------------------------------
\* The sets of threads are finite.
LEMMA ThreadsFinite ==
    ASSUME TypeOK
    PROVE  /\ IsFiniteSet(blocked) /\ Cardinality(blocked) \in Nat
           /\ IsFiniteSet(woken) /\ Cardinality(woken) \in Nat
  BY SemaphoreAssumption, FS_Subset, FS_CardinalityType DEF TypeOK

\* After n notifications either nobody is blocked or n more threads are woken.
LEMMA NotifyWakes ==
    ASSUME TypeOK, NEW n \in Nat, Notify(n), blocked \cap woken = {}
    PROVE  /\ blocked' \subseteq blocked
           /\ woken' \subseteq Thread
           /\ blocked' \cap woken' = {}
           /\ blocked' # {} => Cardinality(woken') = Cardinality(woken) + n
  <1>1. PICK W \in SUBSET blocked :
          /\ Cardinality(W) = IF n < Cardinality(blocked) THEN n ELSE Cardinality(blocked)
          /\ blocked' = blocked \ W
          /\ woken' = woken \cup W
    BY DEF Notify
  <1>2. IsFiniteSet(W) /\ (Cardinality(W) = Cardinality(blocked) => W = blocked)
    BY ThreadsFinite, FS_Subset
  <1>3. Cardinality(woken \cup W) = Cardinality(woken) + Cardinality(W)
    <2>1. woken \cap W = {}
      OBVIOUS
    <2>2. Cardinality(woken \cap W) = 0
      BY <2>1, FS_EmptySet
    <2>3. Cardinality(W) \in Nat
      BY <1>2, FS_CardinalityType
    <2>4. Cardinality(woken \cup W)
            = Cardinality(woken) + Cardinality(W) - Cardinality(woken \cap W)
      BY <1>2, ThreadsFinite, FS_Union
    <2>5. QED
      BY <2>2, <2>3, <2>4, ThreadsFinite
  <1>4. blocked' # {} => Cardinality(W) = n
    BY <1>1, <1>2, ThreadsFinite
  <1>5. QED
    BY <1>1, <1>3, <1>4 DEF TypeOK

\* A thread that leaves the set of woken threads makes it smaller by one.
LEMMA WokenLeaves ==
    ASSUME TypeOK, NEW t \in woken
    PROVE  Cardinality(woken \ {t}) = Cardinality(woken) - 1
  BY ThreadsFinite, FS_RemoveElement

\* One thread more is woken.
LEMMA WokenJoins ==
    ASSUME TypeOK, NEW t \in Thread, t \notin woken
    PROVE  Cardinality(woken \cup {t}) = Cardinality(woken) + 1
  BY ThreadsFinite, FS_AddElement

\* The invariant holds initially.
LEMMA InitIInv == Init => IInv
  <1> SUFFICES ASSUME Init PROVE IInv
    OBVIOUS
  <1>1. TypeOK
    <2>1. disable_ \in BOOLEAN
      BY DEF Init
    <2>2. /\ count_ \in 0 .. MaxWord /\ posted \in 0 .. MaxPosted /\ taken \in Nat
          /\ blocked \subseteq Thread /\ woken \subseteq Thread
      BY SemaphoreAssumption DEF Init
    <2>3. QED
      BY <2>1, <2>2 DEF TypeOK
  <1>2. PermitsConserved
    BY SemaphoreAssumption DEF Init, PermitsConserved
  <1>3. NobodySleepsDisabled /\ NoLostWakeup
    BY DEF Init, NobodySleepsDisabled, NoLostWakeup
  <1>4. blocked \cap woken = {}
    BY DEF Init
  <1>5. QED
    BY <1>1, <1>2, <1>3, <1>4 DEF IInv

\* Every step preserves the invariant.
LEMMA NextIInv == IInv /\ [Next]_vars => IInv'
  <1> SUFFICES ASSUME IInv, [Next]_vars PROVE IInv'
    OBVIOUS
  <1> USE SemaphoreAssumption
  <1>t. TypeOK /\ blocked \cap woken = {} /\ Cardinality(woken) \in Nat
    BY ThreadsFinite DEF IInv
  <1>1. CASE Post
    <2>1. blocked' \subseteq blocked /\ woken' \subseteq Thread /\ blocked' \cap woken' = {}
      BY <1>1, <1>t, NotifyWakes DEF Post
    <2>2. QED
      BY <1>1, <1>t, <2>1
         DEF Post, Plus, IInv, TypeOK, NobodySleepsDisabled, PermitsConserved, NoLostWakeup
  <1>2. ASSUME NEW n \in 0 .. MaxN, PostN(n) PROVE IInv'
    <2>1. /\ blocked' \subseteq blocked /\ woken' \subseteq Thread
          /\ blocked' \cap woken' = {}
          /\ blocked' # {} => Cardinality(woken') = Cardinality(woken) + n
      BY <1>2, <1>t, NotifyWakes DEF PostN
    <2>2. count_' = count_ + n
      BY <1>2 DEF PostN, Plus, IInv, PermitsConserved, TypeOK
    <2>3. TypeOK' /\ PermitsConserved'
      BY <1>2, <2>1, <2>2 DEF PostN, IInv, TypeOK, PermitsConserved
    <2>4. NoLostWakeup'
      BY <1>2, <1>t, <2>1, <2>2 DEF PostN, IInv, TypeOK, NoLostWakeup
    <2>5. QED
      BY <1>2, <2>1, <2>3, <2>4 DEF PostN, IInv, NobodySleepsDisabled
  <1>3. CASE Enable
    <2>1. blocked' = {} /\ ~disable_'
      BY <1>3 DEF Enable, IInv, NobodySleepsDisabled
    <2>2. disable_' \in BOOLEAN
      BY <1>3 DEF Enable
    <2>3. TypeOK'
      BY <1>3, <1>t, <2>2 DEF Enable, TypeOK
    <2>4. PermitsConserved'
      BY <1>3 DEF Enable, PermitsConserved
    <2>5. blocked' \cap woken' = {}
      BY <2>1
    <2>6. QED
      BY <2>1, <2>3, <2>4, <2>5 DEF IInv, NobodySleepsDisabled, NoLostWakeup
  <1>4. CASE Disable
    BY <1>4, <1>t
       DEF Disable, IInv, TypeOK, NobodySleepsDisabled, PermitsConserved, NoLostWakeup
  <1>5. ASSUME NEW t \in Thread, WaitTake(t) PROVE IInv'
    BY <1>5, <1>t
       DEF WaitTake, Minus1, IInv, TypeOK, NobodySleepsDisabled, PermitsConserved, NoLostWakeup
  <1>6. ASSUME NEW t \in Thread, WaitBlock(t) PROVE IInv'
    BY <1>6, <1>t
       DEF WaitBlock, Outside, IInv, TypeOK, NobodySleepsDisabled, PermitsConserved,
           NoLostWakeup
  <1>7. ASSUME NEW t \in Thread, SpuriousWakeup(t) PROVE IInv'
    <2>1. Cardinality(woken') = Cardinality(woken) + 1
      BY <1>7, <1>t, WokenJoins DEF SpuriousWakeup
    <2>2. QED
      BY <1>7, <1>t, <2>1
         DEF SpuriousWakeup, IInv, TypeOK, NobodySleepsDisabled, PermitsConserved,
             NoLostWakeup
  <1>8. ASSUME NEW t \in Thread, WakeTake(t) PROVE IInv'
    <2>1. Cardinality(woken') = Cardinality(woken) - 1
      BY <1>8, <1>t, WokenLeaves DEF WakeTake
    <2>2. QED
      BY <1>8, <1>t, <2>1
         DEF WakeTake, Minus1, IInv, TypeOK, NobodySleepsDisabled, PermitsConserved,
             NoLostWakeup
  <1>9. ASSUME NEW t \in Thread, WakeLeave(t) PROVE IInv'
    BY <1>9, <1>t
       DEF WakeLeave, Minus1, IInv, TypeOK, NobodySleepsDisabled, PermitsConserved,
           NoLostWakeup
  <1>10. ASSUME NEW t \in Thread, WakeAgain(t) PROVE IInv'
    <2>1. Cardinality(woken') \in Nat
      BY <1>10, <1>t, ThreadsFinite, FS_RemoveElement, FS_CardinalityType DEF WakeAgain
    <2>2. QED
      BY <1>10, <1>t, <2>1
         DEF WakeAgain, IInv, TypeOK, NobodySleepsDisabled, PermitsConserved, NoLostWakeup
  <1>11. CASE UNCHANGED vars
    BY <1>11
       DEF vars, IInv, TypeOK, NobodySleepsDisabled, PermitsConserved, NoLostWakeup
  <1>12. QED
    BY <1>1, <1>2, <1>3, <1>4, <1>5, <1>6, <1>7, <1>8, <1>9, <1>10, <1>11 DEF Next, Wake

\* Every reachable state of the semaphore satisfies the inductive invariant.
LEMMA Invariance == Spec => []IInv
  BY InitIInv, NextIInv, PTL DEF Spec

\* The counter of an enabled semaphore is what was posted and not taken.
THEOREM CounterIsExact == Spec => []PermitsConserved
  <1>1. IInv => PermitsConserved
    BY DEF IInv
  <1>2. QED
    BY <1>1, Invariance, PTL

\* Nobody sleeps beside a permit that no woken thread is going to take.
THEOREM WakeupsAreNotLost == Spec => []NoLostWakeup
  <1>1. IInv => NoLostWakeup
    BY DEF IInv
  <1>2. QED
    BY <1>1, Invariance, PTL
=============================================================================
