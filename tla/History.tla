------------------------------- MODULE History -------------------------------
(***************************************************************************)
(* The list of changes of an RTPS history (history.cc, history.h and       *)
(* removeChangesWithPred of reader_history.h), used by several threads     *)
(* under the recursive mutex of its endpoint.  A change is <<writer, sn>>. *)
(* What appends changes has no body in the repository and is external.     *)
(***************************************************************************)
EXTENDS Naturals, SequencesExt, FiniteSetsExt

CONSTANTS Thread,
          Change,      \* pairs of numbers
          MaxChanges,
          NULL         \* neither a thread nor a change

VARIABLES changes,    \* changes_
          full,       \* is_history_full_
          mutex,      \* the thread that holds getMutex() across calls
          iter,       \* iter[t]: a position that findChange gave to t, 0 for none
          wanted,     \* the change t asked for
          guarded,    \* t has held the mutex since then and changed nothing itself
          live,       \* changes handed to the history and not released by it
          scrambled,  \* a predicate removed changes from before others it kept
          crashed

vars == <<changes, full, mutex, iter, wanted, guarded, live, scrambled, crashed>>
finds == <<iter, wanted, guarded>>

May(t) == mutex \in {t, NULL}
LetGo(t) == guarded' = [guarded EXCEPT ![t] = FALSE]
Sn(c) == c[2]
Writer(c) == c[1]

Init ==
    /\ changes = <<>> /\ full = FALSE /\ mutex = NULL
    /\ iter = [t \in Thread |-> 0]
    /\ wanted = [t \in Thread |-> NULL]
    /\ guarded = [t \in Thread |-> FALSE]
    /\ live = {} /\ scrambled = FALSE /\ crashed = FALSE

\* A thread that makes several calls takes the mutex around them.
Lock(t) ==
    /\ mutex = NULL
    /\ mutex' = t
    /\ UNCHANGED <<changes, full, finds, live, scrambled, crashed>>

Unlock(t) ==
    /\ mutex = t
    /\ mutex' = NULL
    /\ LetGo(t)
    /\ UNCHANGED <<changes, full, iter, wanted, live, scrambled, crashed>>

\* add_change: appended, and the history full when it was the last to fit
Add(t, c) ==
    /\ May(t)
    /\ c \notin live /\ c \notin Range(changes) /\ Len(changes) < MaxChanges
    /\ changes' = Append(changes, c)
    /\ full' = (Len(changes') = MaxChanges)
    /\ live' = live \cup {c}
    /\ LetGo(t)
    /\ UNCHANGED <<mutex, iter, wanted, scrambled, crashed>>

\* findChange; History::matchesChange looks at the sequence number only.
FindChange(t, c) ==
    LET is == {i \in DOMAIN changes : Sn(changes[i]) = Sn(c)} IN
    /\ May(t)
    /\ iter' = [iter EXCEPT ![t] = IF is = {} THEN Len(changes) + 1 ELSE Min(is)]
    /\ wanted' = [wanted EXCEPT ![t] = IF is = {} THEN NULL ELSE changes[Min(is)]]
    /\ guarded' = [guarded EXCEPT ![t] = (mutex = t)]
    /\ UNCHANGED <<changes, full, mutex, live, scrambled, crashed>>

\* removeChangeNts: the change at i is released, or the caller's from now on
RemoveNts(i) ==
    /\ changes' = RemoveAt(changes, i)
    /\ live' = live \ {changes[i]}
    /\ full' = FALSE

\* removeChange(iterator) of what t found.  The mutex was free in between unless
\* t held it, and then the position may be another change's by now, or past the
\* end.
RemoveChange(t) ==
    /\ May(t)
    /\ iter[t] > 0
    /\ iter' = [iter EXCEPT ![t] = 0]
    /\ IF iter[t] <= Len(changes) THEN RemoveNts(iter[t]) /\ UNCHANGED crashed
       ELSE crashed' = (iter[t] > Len(changes) + 1) /\ UNCHANGED <<changes, full, live>>
    /\ LetGo(t)
    /\ UNCHANGED <<mutex, wanted, scrambled>>

\* removeChange(CacheChange*) finds the change and leaves it there.
RemoveChangePointer(t, c) ==
    /\ May(t)
    /\ UNCHANGED vars

\* removeAllChanges: mp_mtx_ is assigned nullptr and then locked.
RemoveAllChanges(t) ==
    /\ crashed' = TRUE
    /\ UNCHANGED <<changes, full, mutex, finds, live, scrambled>>

\* Slip: from the last change that was kept.
ReleasedFromLast(kept, matching) == {changes[i] : i \in (Len(kept)..Len(changes)) \ {0}}

\* What removeChangesWithPred releases: std::remove_if moves the kept changes to
\* the front and leaves the places behind them as they were; every change
\* found there is released.
Released(kept, matching) == {changes[i] : i \in (Len(kept) + 1)..Len(changes)}

\* std::remove_if, change by change
Kept(matching) ==
    LET to[i \in 0..Len(changes)] ==
            IF i = 0 THEN <<>>
            ELSE IF changes[i] \in matching THEN to[i - 1] ELSE Append(to[i - 1], changes[i])
    IN  to[Len(changes)]

RemoveChangesWithPred(t, matching) ==
    LET kept == Kept(matching)
        suffix == \A i, j \in DOMAIN changes : i < j /\ changes[i] \in matching => changes[j] \in matching
    IN  /\ May(t)
        /\ changes' = kept
        /\ live' = live \ Released(kept, matching)
        /\ full' = (full /\ kept = changes)
        /\ scrambled' = (scrambled \/ ~suffix)
        /\ LetGo(t)
        /\ UNCHANGED <<mutex, iter, wanted, crashed>>

Next ==
    /\ ~crashed
    /\ \E t \in Thread :
        \/ Lock(t) \/ Unlock(t) \/ RemoveChange(t) \/ RemoveAllChanges(t)
        \/ \E c \in Change : Add(t, c) \/ FindChange(t, c) \/ RemoveChangePointer(t, c)
        \/ \E m \in SUBSET Range(changes) : RemoveChangesWithPred(t, m)

Spec == Init /\ [][Next]_vars

\* getChangeNts from the beginning: the search ends at the change, or at a later
\* one of the same writer.
Lookup(sn, guid) ==
    LET stops == {i \in DOMAIN changes : Writer(changes[i]) = guid /\ Sn(changes[i]) >= sn} IN
    IF stops = {} \/ Sn(changes[Min(stops)]) # sn THEN NULL ELSE changes[Min(stops)]

-----------------------------------------------------------------------------
TypeOK ==
    /\ changes \in Seq(Change) /\ Len(changes) <= MaxChanges
    /\ full \in BOOLEAN
    /\ mutex \in Thread \cup {NULL}
    /\ iter \in [Thread -> 0..(MaxChanges + 1)]
    /\ wanted \in [Thread -> Change \cup {NULL}]
    /\ live \subseteq Change
    /\ \A t \in Thread : guarded[t] => mutex = t

InOrder == \A i, j \in DOMAIN changes :
    i < j /\ Writer(changes[i]) = Writer(changes[j]) => Sn(changes[i]) < Sn(changes[j])

\* What a thread found while it held the mutex is what its iterator removes as
\* long as it holds it; without the mutex it may be another change, or none.
IteratorHolds ==
    \A t \in Thread : guarded[t] /\ wanted[t] # NULL /\ iter[t] > 0 =>
        iter[t] <= Len(changes) /\ changes[iter[t]] = wanted[t]

\* While each writer's changes are in the order of their numbers, getChange
\* finds a change exactly when the history has it.
LookupComplete ==
    InOrder => \A c \in Change : Lookup(Sn(c), Writer(c)) = IF c \in Range(changes) THEN c ELSE NULL

\* The history says that it is full only when no change fits.
FullIsFull == full => Len(changes) = MaxChanges

\* Every change handed to the history is in its list or was released, and none
\* both, as long as no predicate has matched a change before one it kept.
Accounted == ~scrambled => Range(changes) = live /\ IsInjective(changes)
=============================================================================
