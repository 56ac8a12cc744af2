-------------------------- MODULE ObjectPoolProofs --------------------------
(***************************************************************************)
(* Safety of the object pool for every capacity and object size.           *)
(***************************************************************************)
EXTENDS ObjectPool, FiniteSetTheorems, TLAPS

\* Everything an iterator has left behind it and should visit, it has visited.
IteratorInv ==
    /\ through \subseteq Used
    /\ \A j \in through : j <= it => j \in seen

\* The inductive invariant.
IInv ==
    /\ TypeOK
    /\ SizeCounts
    /\ ObjectsTracked
    /\ IteratorInv

-----------------------------------------------------------------------------
\* The used cells are finitely many.
LEMMA UsedFinite == IsFiniteSet(Used) /\ Cardinality(Used) \in Nat
  <1>1. IsFiniteSet(Cell)
    BY PoolAssumption, FS_Interval DEF Cell
  <1>2. Used \in SUBSET Cell
    BY DEF Used
  <1>3. QED
    BY <1>1, <1>2, FS_Subset, FS_CardinalityType

\* Taking a free cell makes one more used.
LEMMA TakeCounts ==
    ASSUME TypeOK, SizeCounts, NEW i \in Cell, NextFree(i),
           isUsed' = [isUsed EXCEPT ![i] = TRUE], size_' = size_ + 1
    PROVE  SizeCounts' /\ size_' \in 0 .. kCapacity
  <1>1. Used' = Used \cup {i}
    BY DEF Used, TypeOK
  <1>2. i \notin Used
    BY DEF Used, NextFree
  <1>3. Cardinality(Used \cup {i}) = Cardinality(Used) + 1
    BY <1>2, UsedFinite, FS_AddElement
  <1>4. QED
    BY <1>1, <1>3, PoolAssumption DEF SizeCounts, NextFree, TypeOK

\* Giving a cell back makes one less.
LEMMA GiveCounts ==
    ASSUME TypeOK, SizeCounts, NEW i \in Cell, isUsed[i],
           isUsed' = [isUsed EXCEPT ![i] = FALSE], size_' = size_ - 1
    PROVE  SizeCounts' /\ size_' \in 0 .. kCapacity
  <1>1. Used' = Used \ {i}
    BY DEF Used, TypeOK
  <1>2. i \in Used
    BY DEF Used
  <1>3. Cardinality(Used \ {i}) = Cardinality(Used) - 1
    BY <1>2, UsedFinite, FS_RemoveElement
  <1>4. Cardinality(Used) # 0
    BY <1>2, UsedFinite, FS_EmptySet
  <1>5. QED
    BY <1>1, <1>3, <1>4, UsedFinite, PoolAssumption DEF SizeCounts, TypeOK

\* A pointer that is accepted is that of a cell.
LEMMA PointersAreCells ==
    ASSUME NEW p \in Int, PointerToIndex(p) # NO_INDEX
    PROVE  PointerToIndex(p) \in Cell
  <1>1. 0 <= p /\ p <= (kCapacity - 1) * ObjSize
    BY PoolAssumption DEF PointerToIndex
  <1>2. PointerToIndex(p) = p \div ObjSize
    BY DEF PointerToIndex
  <1>3. QED
    BY <1>1, <1>2, PoolAssumption, SMTT(30) DEF Cell

\* The invariant holds initially.
LEMMA InitIInv == Init => IInv
  <1> SUFFICES ASSUME Init PROVE IInv
    OBVIOUS
  <1>1. TypeOK
    <2>1. gone \in BOOLEAN
      BY DEF Init
    <2>2. QED
      BY <2>1, PoolAssumption DEF Init, TypeOK, Cell, NO_INDEX
  <1>2. SizeCounts
    <2>1. Used = {}
      BY DEF Init, Used
    <2>2. QED
      BY <2>1, FS_EmptySet DEF Init, SizeCounts
  <1>3. ObjectsTracked
    BY DEF Init, ObjectsTracked
  <1>4. IteratorInv
    BY DEF Init, IteratorInv
  <1>5. QED
    BY <1>1, <1>2, <1>3, <1>4 DEF IInv

\* reserve and allocate preserve the invariant.
LEMMA ReserveStep ==
    ASSUME IInv, NEW i \in Cell, Reserve(i)
    PROVE  IInv'
  <1> USE PoolAssumption DEF IInv
  <1>1. SizeCounts' /\ size_' \in 0 .. kCapacity
    BY TakeCounts DEF Reserve
  <1>2. TypeOK'
    BY <1>1 DEF Reserve, TypeOK, objVars, iterVars
  <1>3. ObjectsTracked'
    BY DEF Reserve, NextFree, TypeOK, ObjectsTracked, objVars
  <1>4. IteratorInv'
    BY DEF Reserve, TypeOK, IteratorInv, Used, iterVars
  <1>5. QED
    BY <1>1, <1>2, <1>3, <1>4

\* So do construct, add, create and insert.
LEMMA ConstructStep ==
    ASSUME IInv, NEW i \in Cell, Construct(i)
    PROVE  IInv'
  <1> USE PoolAssumption DEF IInv
  <1>1. SizeCounts' /\ size_' \in 0 .. kCapacity
    BY TakeCounts DEF Construct
  <1>2. TypeOK'
    BY <1>1 DEF Construct, TypeOK, iterVars
  <1>3. ObjectsTracked'
    BY DEF Construct, NextFree, TypeOK, ObjectsTracked
  <1>4. IteratorInv'
    BY DEF Construct, TypeOK, IteratorInv, Used, iterVars
  <1>5. QED
    BY <1>1, <1>2, <1>3, <1>4

\* remove destroys an object at most once, if it was constructed by the pool.
LEMMA RemoveStep ==
    ASSUME IInv, NEW i \in Cell, NEW destruct \in BOOLEAN, ~gone,
           destruct => wasConstructed[i], Remove(i, destruct)
    PROVE  IInv'
  <1> USE PoolAssumption DEF IInv
  <1>1. SizeCounts' /\ size_' \in 0 .. kCapacity
    BY GiveCounts DEF Remove
  <1>2. TypeOK'
    BY <1>1 DEF Remove, TypeOK
  <1>3. ObjectsTracked'
    <2> SUFFICES ASSUME NEW j \in Cell
                 PROVE  /\ life'[j] = IF (~gone' /\ isUsed'[j] /\ wasConstructed'[j])
                                           \/ j \in abandoned'
                                        THEN 1 ELSE 0
                        /\ isUsed'[j] /\ wasConstructed'[j] => hasData'[j] /\ j \notin abandoned'
      BY DEF ObjectsTracked
    <2>1. CASE j # i
      BY <2>1 DEF Remove, TypeOK, ObjectsTracked
    <2>2. CASE j = i /\ destruct
      BY <2>2 DEF Remove, TypeOK, ObjectsTracked
    <2>3. CASE j = i /\ ~destruct
      BY <2>3 DEF Remove, TypeOK, ObjectsTracked
    <2>4. QED
      BY <2>1, <2>2, <2>3
  <1>4. IteratorInv'
    BY DEF Remove, TypeOK, IteratorInv, Used
  <1>5. QED
    BY <1>1, <1>2, <1>3, <1>4

\* The destructor of the pool destroys what the pool constructed.
LEMMA DestroyPoolStep ==
    ASSUME IInv, DestroyPool
    PROVE  IInv'
  <1> USE PoolAssumption DEF IInv
  <1>1. SizeCounts'
    BY DEF DestroyPool, SizeCounts, Used, cellVars
  <1>2. TypeOK'
    <2>1. gone' \in BOOLEAN
      BY DEF DestroyPool
    <2>2. QED
      BY <2>1 DEF DestroyPool, TypeOK, cellVars, NO_INDEX
  <1>3. ObjectsTracked'
    BY DEF DestroyPool, TypeOK, ObjectsTracked, cellVars
  <1>4. IteratorInv'
    BY DEF DestroyPool, IteratorInv
  <1>5. QED
    BY <1>1, <1>2, <1>3, <1>4

\* Moving an iterator skips no used cell.
LEMMA IteratorStep ==
    ASSUME IInv, NEW j \in 0 .. kCapacity, Begin(j) \/ Increment(j) \/ (j \in Cell /\ IteratorAt(j))
    PROVE  IInv'
  <1> USE PoolAssumption DEF IInv
  <1>1. UNCHANGED <<free_index_, size_, cellVars, gone, objVars>>
    BY DEF Begin, Increment, IteratorAt
  <1>2. SizeCounts'
    BY <1>1 DEF SizeCounts, Used, cellVars
  <1>3. TypeOK'
    <2>1. /\ it' \in NO_INDEX .. kCapacity /\ seen' \subseteq 0 .. kCapacity
          /\ through' \subseteq Cell
      <3>1. CASE Begin(j)
        BY <3>1 DEF Begin, TypeOK, Used, Cell, NO_INDEX
      <3>2. CASE Increment(j)
        BY <3>2 DEF Increment, TypeOK, Cell, NO_INDEX
      <3>3. CASE j \in Cell /\ IteratorAt(j)
        BY <3>3 DEF IteratorAt, TypeOK, Used, Cell, NO_INDEX
      <3>4. QED
        BY <3>1, <3>2, <3>3
    <2>2. QED
      BY <1>1, <2>1 DEF TypeOK, cellVars, objVars
  <1>4. ObjectsTracked'
    BY <1>1 DEF ObjectsTracked, cellVars, objVars
  <1>5. IteratorInv'
    <2>1. CASE Begin(j)
      BY <1>1, <2>1 DEF Begin, FirstUsed, IteratorInv, Used, cellVars, Cell
    <2>2. CASE Increment(j)
      BY <1>1, <2>2 DEF Increment, FirstUsed, IteratorInv, Used, cellVars, Cell
    <2>3. CASE IteratorAt(j)
      BY <1>1, <2>3 DEF IteratorAt, IteratorInv, Used, cellVars, Cell
    <2>4. QED
      BY <2>1, <2>2, <2>3
  <1>6. QED
    BY <1>2, <1>3, <1>4, <1>5

\* Every step preserves the invariant.
LEMMA NextIInv == IInv /\ [Next]_vars => IInv'
  <1> SUFFICES ASSUME IInv, [Next]_vars PROVE IInv'
    OBVIOUS
  <1>1. ASSUME NEW i \in Cell, NEW destruct \in BOOLEAN, RemoveIndex(i, destruct) PROVE IInv'
    BY <1>1, RemoveStep DEF RemoveIndex
  <1>2. ASSUME NEW p \in -1 .. kCapacity * ObjSize, Free(p) PROVE IInv'
    <2>1. p \in Int
      BY <1>2, PoolAssumption
    <2>2. PointerToIndex(p) \in Cell
      BY <1>2, <2>1, PointersAreCells DEF Free
    <2>3. wasConstructed[PointerToIndex(p)] \in BOOLEAN
      BY <2>2 DEF IInv, TypeOK
    <2>4. QED
      BY <1>2, <2>2, <2>3, RemoveStep DEF Free
  <1>3. ASSUME NEW i \in Cell, IteratorAt(i) PROVE IInv'
    BY <1>3, IteratorStep, PoolAssumption DEF Cell
  <1>4. CASE UNCHANGED vars
    BY <1>4 DEF vars, cellVars, objVars, iterVars, IInv, TypeOK, SizeCounts, Used,
                ObjectsTracked, IteratorInv
  <1>5. QED
    BY <1>1, <1>2, <1>3, <1>4, ReserveStep, ConstructStep, DestroyPoolStep, IteratorStep
       DEF Next

\* Every reachable state of the pool satisfies the inductive invariant.
LEMMA Invariance == Spec => []IInv
  BY InitIInv, NextIInv, PTL DEF Spec

\* size_ is the number of used cells.
THEOREM SizeIsExact == Spec => []SizeCounts
  <1>1. IInv => SizeCounts
    BY DEF IInv
  <1>2. QED
    BY <1>1, Invariance, PTL

\* No object is destroyed twice or forgotten by the pool.
THEOREM ObjectsDieOnce == Spec => []ObjectsTracked
  <1>1. IInv => ObjectsTracked
    BY DEF IInv
  <1>2. QED
    BY <1>1, Invariance, PTL

\* A complete iteration has met every cell that was used throughout.
THEOREM IterationsAreComplete == Spec => []IterationComplete
  <1>1. IInv => IterationComplete
    BY PoolAssumption DEF IInv, TypeOK, IteratorInv, IterationComplete, Cell
  <1>2. QED
    BY <1>1, Invariance, PTL

\* No step changes a cell that is in use before and after it.
LEMMA StepKeepsUsed ==
    ASSUME IInv, Next, NEW i \in Cell, isUsed[i], isUsed'[i], ~gone'
    PROVE  /\ wasConstructed'[i] = wasConstructed[i]
           /\ hasData'[i] = hasData[i]
           /\ life'[i] = life[i]
  <1> USE DEF IInv, TypeOK
  <1>1. ASSUME NEW j \in Cell, Reserve(j) \/ Construct(j)
        PROVE  /\ wasConstructed'[i] = wasConstructed[i]
               /\ hasData'[i] = hasData[i]
               /\ life'[i] = life[i]
    <2>1. i # j
      BY <1>1 DEF Reserve, Construct, NextFree
    <2>2. QED
      BY <1>1, <2>1 DEF Reserve, Construct, objVars
  <1>2. ASSUME NEW j \in Cell, NEW destruct \in BOOLEAN, Remove(j, destruct)
        PROVE  /\ wasConstructed'[i] = wasConstructed[i]
               /\ hasData'[i] = hasData[i]
               /\ life'[i] = life[i]
    <2>1. i # j
      BY <1>2 DEF Remove
    <2>2. QED
      BY <1>2, <2>1 DEF Remove
  <1>3. ASSUME NEW p \in -1 .. kCapacity * ObjSize, Free(p)
        PROVE  \E j \in Cell, destruct \in BOOLEAN : Remove(j, destruct)
    <2>1. p \in Int
      BY <1>3, PoolAssumption
    <2>2. PointerToIndex(p) \in Cell
      BY <1>3, <2>1, PointersAreCells DEF Free
    <2>3. wasConstructed[PointerToIndex(p)] \in BOOLEAN
      BY <2>2
    <2>4. QED
      BY <1>3, <2>2, <2>3 DEF Free
  <1>4. ASSUME NEW j \in 0 .. kCapacity, Begin(j) \/ Increment(j) \/ IteratorAt(j)
        PROVE  UNCHANGED <<cellVars, objVars>>
    BY <1>4 DEF Begin, Increment, IteratorAt
  <1>5. ASSUME NEW j \in Cell, IteratorAt(j)
        PROVE  UNCHANGED <<cellVars, objVars>>
    BY <1>5 DEF IteratorAt
  <1>6. ~DestroyPool
    BY DEF DestroyPool
  <1>7. QED
    BY <1>1, <1>2, <1>3, <1>4, <1>5, <1>6 DEF Next, RemoveIndex, cellVars, objVars

\* A used cell is neither handed out again nor changed until it is given back.
THEOREM UsedCellsAreKept == Spec => UsedUntouched
  <1>1. IInv /\ [Next]_vars =>
          [\A i \in Cell :
              isUsed[i] /\ isUsed'[i] /\ ~gone' =>
                  /\ wasConstructed'[i] = wasConstructed[i]
                  /\ hasData'[i] = hasData[i]
                  /\ life'[i] = life[i]]_vars
    BY StepKeepsUsed
  <1>2. QED
    BY <1>1, Invariance, PTL DEF Spec, UsedUntouched
=============================================================================
