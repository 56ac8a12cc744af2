---------------------------- MODULE SequenceNumber ----------------------------
(***************************************************************************)
(* SequenceNumber (sequence_number.h): a 64-bit counter in two words, high *)
(* signed, low unsigned.  sn is one number that a writer counts with, and  *)
(* value the integer it stands for; an assertion that fails ends the       *)
(* process.                                                                *)
(***************************************************************************)
EXTENDS Integers

CONSTANTS W,  \* values of low (2^32)
          H,  \* values of high are -H..H-1 (2^31)
          Steps  \* increments tried
ASSUME WordAssumption == W \in Nat \ {0, 1} /\ H \in Nat \ {0} /\ Steps \subseteq 0..(W - 1)

VARIABLES sn, value, aborted
vars == <<sn, value, aborted>>

SN == [high : (-H)..(H - 1), low : 0..(W - 1)]
Value(s) == s.high * W + s.low
Wrap(x) == IF x >= W THEN x - W ELSE IF x < 0 THEN x + W ELSE x
Number(hi, lo) == [high |-> hi, low |-> lo]

\* operator==, > and <; the others are their negations.
Equal(a, b) == a.low = b.low /\ a.high = b.high
Less(a, b) == IF a.high = b.high THEN a.low < b.low ELSE a.high < b.high
LessOrEqual(a, b) == IF a.high = b.high THEN a.low <= b.low ELSE a.high <= b.high

\* operator+ and +=: the low word wrapped round
Carries(s, inc) == Wrap(s.low + inc) < s.low
Plus(s, inc) == Number(s.high + (IF Carries(s, inc) THEN 1 ELSE 0), Wrap(s.low + inc))

PlusAsserts(s, inc) == Carries(s, inc) => H - 1 > s.high

\* operator-(sn, uint32_t)
Minus(s, dec) == Number(s.high - (IF dec > s.low THEN 1 ELSE 0), Wrap(s.low - dec))
MinusAsserts(s, dec) == dec > s.low => 0 < s.high

\* Slip: no borrow.
DifferenceNoBorrow(a, b) == Number(a.high - b.high, Wrap(a.low - b.low))

\* operator-(minuend, subtrahend)
Difference(a, b) == Number(a.high - b.high - (IF a.low < b.low THEN 1 ELSE 0), Wrap(a.low - b.low))
DifferenceAsserts(a, b) == LessOrEqual(b, a) /\ (a.low < b.low => 0 < a.high - b.high)

\* SequenceNumberDiff, to64Long (which returns 32 bits) and the hash: low words
Diff(a, b) == Difference(a, b).low
To64Long(s) == s.low

Init == sn = Number(0, 0) /\ value = 0 /\ aborted = FALSE

Abort == aborted' = TRUE /\ UNCHANGED <<sn, value>>
Become(s, v) == sn' = s /\ value' = v /\ UNCHANGED aborted

\* ++: asserts when high would have to pass its maximum
Increment ==
    IF Wrap(sn.low + 1) # 0 THEN Become(Number(sn.high, sn.low + 1), value + 1)
    ELSE IF H - 1 > sn.high THEN Become(Number(sn.high + 1, 0), value + 1)
    ELSE Abort

Add(inc) == IF PlusAsserts(sn, inc) THEN Become(Plus(sn, inc), value + inc) ELSE Abort

Subtract(dec) == IF MinusAsserts(sn, dec) THEN Become(Minus(sn, dec), value - dec) ELSE Abort

Next ==
    /\ ~aborted
    /\ \/ Increment
       \/ \E n \in Steps : Add(n) \/ Subtract(n)

Spec == Init /\ [][Next]_vars

-----------------------------------------------------------------------------
TypeOK == sn \in SN /\ value \in Int /\ aborted \in BOOLEAN

\* The two words are the value counted, across every carry and borrow.
TracksValue == Value(sn) = value

\* The comparisons order numbers as their values.
OrderIsValueOrder ==
    \A a \in SN : /\ Less(a, sn) <=> Value(a) < Value(sn)
                  /\ LessOrEqual(a, sn) <=> Value(a) <= Value(sn)
                  /\ Equal(a, sn) <=> Value(a) = Value(sn)

\* The difference with any earlier number is that of the values, and
\* SequenceNumberDiff and to64Long give 32 bits of it: two numbers 2^32 apart
\* are at distance 0, print alike and have the same hash.
Distances ==
    \A a \in SN : a.high >= 0 /\ LessOrEqual(a, sn) =>
        /\ DifferenceAsserts(sn, a)
        /\ Value(Difference(sn, a)) = value - Value(a)
        /\ Diff(sn, a) = (value - Value(a)) % W
        /\ To64Long(sn) = value % W

\* A writer's number is the integer it counted to, in its words, in its order and
\* in its distance from every earlier number.
NumbersAreValues == TracksValue /\ OrderIsValueOrder /\ Distances
=============================================================================
