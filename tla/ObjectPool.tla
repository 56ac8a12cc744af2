----------------------------- MODULE ObjectPool -----------------------------
(***************************************************************************)
(* core/internal/object_pool.h: a fixed number of cells, each with room    *)
(* for one object, found again by index or by pointer.                     *)
(*                                                                         *)
(* A pointer is a byte offset from first_.  "life" counts the objects that *)
(* live in the room of a cell: constructing puts one there, a destructor   *)
(* takes one away.  The pool is not thread safe and has one user.  What    *)
(* that user does with raw memory from reserve or allocate is not seen     *)
(* here; by contract remove(index, true) and free(ptr, true) are for       *)
(* objects the pool has constructed.                                       *)
(***************************************************************************)
EXTENDS Integers, FiniteSets

CONSTANTS kCapacity,  \* cells
          ObjSize     \* sizeof(T)

ASSUME PoolAssumption ==
    /\ kCapacity \in Nat \ {0}
    /\ ObjSize \in Nat \ {0}

NO_INDEX == -1
Cell == 0 .. kCapacity - 1

VARIABLES
    free_index_, size_,
    isUsed, wasConstructed, \* fields of each cell
    hasData,                \* cell.data points to the room of the cell
    gone,                   \* the pool was destroyed
    life,                   \* objects in the room of each cell
    abandoned,              \* cells with an object that was removed undestroyed
    it,                     \* an iterator, NO_INDEX if there is none
    seen,                   \* cells it has visited
    through                 \* cells it should visit: used ever since it began

cellVars  == <<isUsed, wasConstructed, hasData>>
objVars   == <<life, abandoned>>
iterVars  == <<it, seen, through>>
vars == <<free_index_, size_, cellVars, gone, objVars, iterVars>>

Used == {i \in Cell : isUsed[i]}

Init ==
    /\ free_index_ = 0
    /\ size_ = 0
    /\ isUsed = [i \in Cell |-> FALSE]
    /\ wasConstructed = [i \in Cell |-> FALSE]
    /\ hasData = [i \in Cell |-> FALSE]
    /\ gone = FALSE
    /\ life = [i \in Cell |-> 0]
    /\ abandoned = {}
    /\ it = NO_INDEX
    /\ seen = {}
    /\ through = {}

-----------------------------------------------------------------------------
(* Taking cells.                                                           *)

\* The cells the circular search looks at before it gets to i.
Before(i) ==
    IF free_index_ <= i
      THEN {j \in Cell : free_index_ <= j /\ j < i}
      ELSE {j \in Cell : free_index_ <= j \/ j < i}

\* Slip: the cell that is found is not tested.
NextFreeUntested(i) ==
    /\ size_ < kCapacity
    /\ i = (free_index_ + 1) % kCapacity

\* nextFree gives i.
NextFree(i) ==
    /\ size_ < kCapacity
    /\ ~isUsed[i]
    /\ \A j \in Before(i) : isUsed[j]

\* Slip: the flag of the last object of the cell stays.
ReserveStale(i) ==
    /\ ~gone
    /\ NextFree(i)
    /\ free_index_' = i
    /\ isUsed' = [isUsed EXCEPT ![i] = TRUE]
    /\ size_' = size_ + 1
    /\ UNCHANGED <<wasConstructed, hasData, gone, objVars, iterVars>>

\* reserve and allocate: the address of the room is not noted in the cell.
Reserve(i) ==
    /\ ~gone
    /\ NextFree(i)
    /\ free_index_' = i
    /\ isUsed' = [isUsed EXCEPT ![i] = TRUE]
    /\ wasConstructed' = [wasConstructed EXCEPT ![i] = FALSE]
    /\ size_' = size_ + 1
    /\ UNCHANGED <<hasData, gone, objVars, iterVars>>

\* construct, add, create and insert.
Construct(i) ==
    /\ ~gone
    /\ NextFree(i)
    /\ free_index_' = i
    /\ hasData' = [hasData EXCEPT ![i] = TRUE]
    /\ isUsed' = [isUsed EXCEPT ![i] = TRUE]
    /\ wasConstructed' = [wasConstructed EXCEPT ![i] = TRUE]
    /\ size_' = size_ + 1
    /\ life' = [life EXCEPT ![i] = 1]
    /\ abandoned' = abandoned \ {i}
    /\ UNCHANGED <<gone, iterVars>>

-----------------------------------------------------------------------------
(* Giving them back.                                                       *)

\* The cell whose room begins at p.  A used cell with another pointer in its
\* data would be refused, but data is never anything else than that address.
PointerToIndex(p) ==
    IF p < 0 \/ p > (kCapacity - 1) * ObjSize \/ p % ObjSize # 0
      THEN NO_INDEX
      ELSE p \div ObjSize

\* Slip: only the cell is marked.
RemoveUncounted(i, destruct) ==
    /\ isUsed[i]
    /\ life' = [life EXCEPT ![i] = IF destruct THEN @ - 1 ELSE @]
    /\ abandoned' = IF ~destruct /\ wasConstructed[i] THEN abandoned \cup {i} ELSE abandoned
    /\ isUsed' = [isUsed EXCEPT ![i] = FALSE]
    /\ through' = through \ {i}
    /\ UNCHANGED <<free_index_, size_, wasConstructed, hasData, gone, it, seen>>

\* What remove does to a cell in use.  On any other it does nothing.
Remove(i, destruct) ==
    /\ isUsed[i]
    /\ life' = [life EXCEPT ![i] = IF destruct THEN @ - 1 ELSE @]
    /\ abandoned' = IF ~destruct /\ wasConstructed[i] THEN abandoned \cup {i} ELSE abandoned
    /\ isUsed' = [isUsed EXCEPT ![i] = FALSE]
    /\ size_' = size_ - 1
    /\ through' = through \ {i}
    /\ UNCHANGED <<free_index_, wasConstructed, hasData, gone, it, seen>>

RemoveIndex(i, destruct) ==
    /\ ~gone
    /\ destruct => wasConstructed[i]
    /\ Remove(i, destruct)

\* free(ptr): the cell knows whether its object must be destroyed.
Free(p) ==
    /\ ~gone
    /\ PointerToIndex(p) # NO_INDEX
    /\ Remove(PointerToIndex(p), wasConstructed[PointerToIndex(p)])

\* ~ObjectPool
DestroyPool ==
    /\ ~gone
    /\ gone' = TRUE
    /\ life' = [i \in Cell |-> IF isUsed[i] /\ wasConstructed[i] THEN life[i] - 1 ELSE life[i]]
    /\ it' = NO_INDEX
    /\ seen' = {}
    /\ through' = {}
    /\ UNCHANGED <<free_index_, size_, cellVars, abandoned>>

-----------------------------------------------------------------------------
(* Iterators.  The user may take and give back cells while one is alive.   *)

\* Slip: the search begins one cell too far.
FirstUsedLate(i, j) ==
    /\ j \in i .. kCapacity
    /\ j < kCapacity => isUsed[j]
    /\ \A k \in Cell : i < k /\ k < j => ~isUsed[k]

\* j is the first used cell from i on, kCapacity if there is none.
FirstUsed(i, j) ==
    /\ j \in i .. kCapacity
    /\ j < kCapacity => isUsed[j]
    /\ \A k \in Cell : i <= k /\ k < j => ~isUsed[k]

\* begin()
Begin(j) ==
    /\ ~gone
    /\ FirstUsed(0, j)
    /\ it' = j
    /\ seen' = {j}
    /\ through' = Used
    /\ UNCHANGED <<free_index_, size_, cellVars, gone, objVars>>

\* iterator(index) and iterator(ptr) on a used cell.
IteratorAt(i) ==
    /\ ~gone
    /\ isUsed[i]
    /\ it' = i
    /\ seen' = {i}
    /\ through' = {j \in Used : j >= i}
    /\ UNCHANGED <<free_index_, size_, cellVars, gone, objVars>>

\* operator++
Increment(j) ==
    /\ ~gone
    /\ it \in Cell
    /\ FirstUsed(it + 1, j)
    /\ it' = j
    /\ seen' = seen \cup {j}
    /\ UNCHANGED <<free_index_, size_, cellVars, gone, objVars, through>>

-----------------------------------------------------------------------------
Next ==
    \/ \E i \in Cell : \/ Reserve(i)
                       \/ Construct(i)
                       \/ \E destruct \in BOOLEAN : RemoveIndex(i, destruct)
                       \/ IteratorAt(i)
    \/ \E p \in -1 .. kCapacity * ObjSize : Free(p)
    \/ \E j \in 0 .. kCapacity : Begin(j) \/ Increment(j)
    \/ DestroyPool

Spec == Init /\ [][Next]_vars

-----------------------------------------------------------------------------
\* Every variable keeps its type.
TypeOK ==
    /\ free_index_ \in Cell
    /\ size_ \in 0 .. kCapacity
    /\ isUsed \in [Cell -> BOOLEAN]
    /\ wasConstructed \in [Cell -> BOOLEAN]
    /\ hasData \in [Cell -> BOOLEAN]
    /\ gone \in BOOLEAN
    /\ life \in [Cell -> Int]
    /\ abandoned \subseteq Cell
    /\ it \in NO_INDEX .. kCapacity
    /\ seen \subseteq 0 .. kCapacity
    /\ through \subseteq Cell

\* size_ is the number of used cells, so that the search of nextFree, whose
\* only other exit is size_ >= kCapacity, finds a cell whenever it is begun.
SizeCounts == size_ = Cardinality(Used)

\* An object lives in the room of a cell exactly while the cell is used and
\* the pool constructed it there, or after the user gave it back without
\* destroying it: nothing is destroyed twice or forgotten when cells are taken
\* again in another way, freed by pointer, or the pool itself is destroyed.
ObjectsTracked ==
    \A i \in Cell :
        /\ life[i] = IF (~gone /\ isUsed[i] /\ wasConstructed[i]) \/ i \in abandoned
                       THEN 1 ELSE 0
        /\ isUsed[i] /\ wasConstructed[i] => hasData[i] /\ i \notin abandoned

\* What a user holds is not given to another or changed: a used cell stays as
\* it is until it is given back.
UsedUntouched ==
    [][\A i \in Cell :
          isUsed[i] /\ isUsed'[i] /\ ~gone' =>
              /\ wasConstructed'[i] = wasConstructed[i]
              /\ hasData'[i] = hasData[i]
              /\ life'[i] = life[i]]_vars

\* An iterator that reaches the end has visited every cell that was in use
\* all the time since it began, whatever was taken or given back meanwhile.
IterationComplete == it = kCapacity => through \subseteq seen
=============================================================================
