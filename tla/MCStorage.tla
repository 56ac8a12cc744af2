----------------------------- MODULE MCStorage -----------------------------
(***************************************************************************)
(* What the RTPS storage keeps, for TLC: fragments in a CacheChange, the   *)
(* payload under it, sets of fragment and sequence numbers, and the        *)
(* history.  A behaviour stays in one part, chosen in its initial state;   *)
(* the other parts stay as they begin.                                     *)
(***************************************************************************)
EXTENDS CacheChange

CONSTANTS MaxSize, Thread, Change, MaxChanges, NULL, B, NITEMS, Bases, Items, M

VARIABLES
    part,
    length, max_size, data, defined, blocks, declined, failed, dropped, crashed,
    wide, base, rangeMax, words, numBits, set, exact,
    changes, full, mutex, iter, wanted, guarded, known, scrambled, ended

\* Data that reads as an index, as none, and as a mixture.
SomeData == {[b \in NodeBytes |-> 0], [b \in NodeBytes |-> FAR], [b \in NodeBytes |-> IF b = 1 THEN 1 ELSE 0]}
ASSUME SizeAssumption == MaxSize \in Nat
ASSUME HistoryAssumption ==
    /\ Change \subseteq Nat \X Nat /\ MaxChanges \in Nat
    /\ NULL \notin Thread /\ NULL \notin Change
ASSUME BitmapAssumption ==
    /\ B \in Nat \ {0} /\ NITEMS \in Nat \ {0} /\ M \in Nat /\ M > B * NITEMS
    /\ Bases \subseteq Nat /\ Items \subseteq Nat

\* Two writers, one of which has written twice.
SomeChanges == {<<1, 1>>, <<1, 2>>, <<2, 1>>}

Payload == INSTANCE SerializedPayload WITH live <- blocks, refused <- declined
NumberSet == INSTANCE BitmapRange
Writers == INSTANCE History WITH live <- known, crashed <- ended

block == <<length, max_size, data, defined, blocks, declined, failed, dropped, crashed>>
bits == <<wide, base, rangeMax, words, numBits, set, exact>>
list == <<changes, full, mutex, iter, wanted, guarded, known, scrambled, ended>>
parts == <<part, vars, block, bits, list>>

PartsInit ==
    /\ part \in {"fragments", "payload", "numbers", "history"}
    /\ Init /\ Payload!Init /\ NumberSet!Init /\ Writers!Init
    /\ part # "fragments" => max = 0
    /\ part # "numbers" => ~wide /\ rangeMax = 0

PartsNext ==
    /\ UNCHANGED part
    /\ \/ part = "fragments" /\ Next /\ UNCHANGED <<block, bits, list>>
       \/ part = "payload" /\ Payload!Next /\ UNCHANGED <<vars, bits, list>>
       \/ part = "numbers" /\ NumberSet!Next /\ UNCHANGED <<vars, block, list>>
       \/ part = "history" /\ Writers!Next /\ UNCHANGED <<vars, block, bits>>

PartsSpec == PartsInit /\ [][PartsNext]_parts

-----------------------------------------------------------------------------
\* A sample is never complete before its first fragment came; that one alone
\* completes it, and no call loops, if list nodes do not overlap ...
FirstDecides == part = "fragments" => FirstFragmentDecides
\* ... and data stays inside the payload, and is read from inside what arrived
\* except with the last fragment, unless a copy was refused.
WithinPayload == [][part = "fragments" => StaysWithin]_parts

\* A set of numbers holds what was put into it and not taken out, also after its
\* window moved, and is the same set for who receives its bitmap.
BitsAreTheSet == part = "numbers" => NumberSet!TypeOK /\ NumberSet!Exact /\ NumberSet!SameByBitmap

\* Every change handed to the history is found in it until it is released, by
\* its number and by an iterator under the mutex, and none is released and kept.
ChangesAccounted ==
    /\ Writers!TypeOK /\ Writers!Accounted /\ Writers!LookupComplete
    /\ Writers!IteratorHolds /\ Writers!FullIsFull

\* The payload's sizes are those of its block as long as no allocation failed,
\* no failure loses a block, and only a failed one lets a later copy crash.
PayloadSound ==
    /\ Payload!TypeOK /\ Payload!BlockAsAnnounced
    /\ Payload!NoBlockLost /\ Payload!CrashNeedsFailure
=============================================================================
