------------------------------ MODULE EntityId -------------------------------
(***************************************************************************)
(* EntityId (entity_id.h): four octets, most significant first.  The       *)
(* comparison with a number, operator==(EntityId&, uint32_t), reverses the *)
(* octets of its argument in place on a little-endian machine, compares,   *)
(* and reverses them again.  Threads here compare one shared id; each      *)
(* access to an octet is a step, in the order of the statements.           *)
(***************************************************************************)
EXTENDS Integers, FiniteSets

CONSTANTS Thread, Ids   \* Ids: the ids that occur, as four octets
Octet == 0..255
ASSUME IdsAssumption == Ids \subseteq [1..4 -> Octet] /\ IsFiniteSet(Thread)

VARIABLES value,      \* the octets of the shared id
          pc,         \* 0 outside; 1..8 the first reverse; 9 memcmp; 10..17 the second
          oaux, reg,  \* the local of reverse, and the octet on its way
          wanted, result,  \* id2, and what memcmp found
          assigned,   \* history: the id that was assigned last
          overlapped  \* history: two comparisons were underway at once since
vars == <<value, pc, oaux, reg, wanted, result, assigned, overlapped>>

Reversed(id) == [i \in 1..4 |-> id[5 - i]]

Init ==
    /\ value \in Ids /\ assigned = value
    /\ pc = [t \in Thread |-> 0]
    /\ oaux = [t \in Thread |-> 0] /\ reg = [t \in Thread |-> 0]
    /\ wanted = [t \in Thread |-> value] /\ result = [t \in Thread |-> TRUE]
    /\ overlapped = FALSE

\* operator=(uint32_t) and operator=(const EntityId&), while no comparison runs
Assign(id) ==
    /\ \A t \in Thread : pc[t] = 0
    /\ value' = id /\ assigned' = id /\ overlapped' = FALSE
    /\ result' = [t \in Thread |-> TRUE] /\ wanted' = [t \in Thread |-> id]
    /\ UNCHANGED <<pc, oaux, reg>>

Compare(t, id) ==
    /\ pc[t] = 0
    /\ pc' = [pc EXCEPT ![t] = 1]
    /\ wanted' = [wanted EXCEPT ![t] = id]
    /\ overlapped' = (overlapped \/ \E u \in Thread \ {t} : pc[u] # 0)
    /\ UNCHANGED <<value, oaux, reg, result, assigned>>

\* reverse swaps value[3] and value[0], then value[2] and value[1].
InReverse(t) == pc[t] \in 1..8 \cup 10..17
Step(t) == ((pc[t] - 1) % 9) % 4
Upper(t) == 4 - ((pc[t] - 1) % 9) \div 4
Lower(t) == 5 - Upper(t)
Advance(t) == pc' = [pc EXCEPT ![t] = IF @ = 17 THEN 0 ELSE @ + 1]

LoadUpper(t) ==
    /\ InReverse(t) /\ Step(t) = 0
    /\ oaux' = [oaux EXCEPT ![t] = value[Upper(t)]]
    /\ Advance(t) /\ UNCHANGED <<value, reg, wanted, result, assigned, overlapped>>

LoadLower(t) ==
    /\ InReverse(t) /\ Step(t) = 1
    /\ reg' = [reg EXCEPT ![t] = value[Lower(t)]]
    /\ Advance(t) /\ UNCHANGED <<value, oaux, wanted, result, assigned, overlapped>>

StoreUpper(t) ==
    /\ InReverse(t) /\ Step(t) = 2
    /\ value' = [value EXCEPT ![Upper(t)] = reg[t]]
    /\ Advance(t) /\ UNCHANGED <<oaux, reg, wanted, result, assigned, overlapped>>

\* Slip: the octet goes to its neighbour.
StoreLowerNext(t) ==
    /\ InReverse(t) /\ Step(t) = 3
    /\ value' = [value EXCEPT ![3 - Lower(t)] = oaux[t]]
    /\ Advance(t) /\ UNCHANGED <<oaux, reg, wanted, result, assigned, overlapped>>

StoreLower(t) ==
    /\ InReverse(t) /\ Step(t) = 3
    /\ value' = [value EXCEPT ![Lower(t)] = oaux[t]]
    /\ Advance(t) /\ UNCHANGED <<oaux, reg, wanted, result, assigned, overlapped>>

\* Slip: returning from memcmp, the second reverse left out.
TestReturns(t) ==
    /\ pc[t] = 9
    /\ result' = [result EXCEPT ![t] = value = Reversed(wanted[t])]
    /\ pc' = [pc EXCEPT ![t] = 0] /\ UNCHANGED <<value, oaux, reg, wanted, assigned, overlapped>>

\* memcmp with the number, whose octets lie in memory least significant first
Test(t) ==
    /\ pc[t] = 9
    /\ result' = [result EXCEPT ![t] = value = Reversed(wanted[t])]
    /\ Advance(t) /\ UNCHANGED <<value, oaux, reg, wanted, assigned, overlapped>>

Next ==
    \/ \E id \in Ids : Assign(id)
    \/ \E t \in Thread, id \in Ids : Compare(t, id)
    \/ \E t \in Thread : LoadUpper(t) \/ LoadLower(t) \/ StoreUpper(t) \/ StoreLower(t) \/ Test(t)

Spec == Init /\ [][Next]_vars

-----------------------------------------------------------------------------
TypeOK ==
    /\ value \in [1..4 -> Octet] /\ assigned \in [1..4 -> Octet]
    /\ pc \in [Thread -> 0..17]
    /\ oaux \in [Thread -> Octet] /\ reg \in [Thread -> Octet]
    /\ wanted \in [Thread -> [1..4 -> Octet]] /\ result \in [Thread -> BOOLEAN]
    /\ overlapped \in BOOLEAN

\* An octet never leaves its pair: whatever comparisons overlap, the outer octets
\* of the id are among the outer ones assigned, the inner among the inner.  So a
\* comparison that runs beside others may destroy an id, but the kind of an
\* entity (its last octet) can only become the first octet of its key.
OctetsStayInPairs ==
    \A i \in 1..4 : value[i] \in {assigned[i], assigned[5 - i]}

\* Comparisons that never overlapped leave the id as it was assigned ...
RestoredAlone == ~overlapped /\ (\A t \in Thread : pc[t] = 0) => value = assigned
\* ... and find out whether it is the number asked for.
AnsweredAlone == ~overlapped => \A t \in Thread : pc[t] \in {0} \cup 10..17 => result[t] = (assigned = wanted[t])
\* So only overlapping comparisons do damage.
HarmlessAlone == RestoredAlone /\ AnsweredAlone
=============================================================================
