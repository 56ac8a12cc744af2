---------------------------- MODULE TimeArithmetic ----------------------------
(***************************************************************************)
(* Time (core/time/time.cc), nanoseconds in 64 unsigned bits, and Duration *)
(* (duration.cc), nanoseconds in 64 signed ones, as a timer uses them: a   *)
(* time t and a duration d on which operators work, and a mark to measure  *)
(* from.  total, span and elapsed are the integers meant.                  *)
(***************************************************************************)
EXTENDS Integers

CONSTANTS Half,    \* 2^63
          Limit,   \* how far a timer runs on from its mark, and total is followed
          SECOND   \* nanoseconds in a second (10^9)

VARIABLES t, d, mark,
          total, span, elapsed, \* what t, d and t - mark stand for
          overflow              \* signed arithmetic overflowed: d is anything
vars == <<t, d, mark, total, span, elapsed, overflow>>

Modulus == 2 * Half
TimeValue == 0..(Modulus - 1)
DurationValue == (-Half)..(Half - 1)

\* Slip: no wrap below zero.
UnsignedUpOnly(x) == IF x >= Modulus THEN x - Modulus ELSE IF x < 0 THEN 0 ELSE x

\* conversion to uint64_t of a sum or difference
Unsigned(x) == IF x >= Modulus THEN x - Modulus ELSE IF x < 0 THEN x + Modulus ELSE x

\* static_cast<int64_t>
Signed(x) == IF x >= Half THEN x - Modulus ELSE x

\* Time(seconds, nanoseconds) and Duration(seconds, nanoseconds)
FromSeconds(s, ns) == s * SECOND + ns

Init ==
    \E s, ns \in 0..SECOND :
        /\ FromSeconds(s, ns) < Half
        /\ t = FromSeconds(s, ns) /\ mark = t /\ total = t
        /\ d = 0 /\ span = 0 /\ elapsed = 0 /\ overflow = FALSE

MoveTo(x, by) ==
    /\ t' = Unsigned(x)
    /\ total' = total + by /\ elapsed' = elapsed + by
    /\ elapsed' \in (-Limit)..Limit /\ total' \in (-Limit)..(Modulus + Limit)
    /\ UNCHANGED <<d, mark, span, overflow>>

\* Time + Duration, +=, Time - Duration, -=
PlusEq == ~overflow /\ MoveTo(t + d, d)
MinusEq == ~overflow /\ MoveTo(t - d, -d)

Becomes(x) ==
    /\ IF x \in DurationValue THEN d' = x /\ overflow' = FALSE
       ELSE d' \in DurationValue /\ overflow' = TRUE
    /\ span' = x
    /\ UNCHANGED <<t, mark, total, elapsed>>

\* Duration(int64_t), + and -, with one nanosecond or with itself, and unary -
SetDuration(x) == Becomes(x)
Longer == ~overflow /\ (Becomes(d + 1) \/ Becomes(d + d))
Shorter == ~overflow /\ Becomes(d - 1)
Negate == ~overflow /\ Becomes(-d)

\* Time - Time: the duration since the mark
Since == Signed(Unsigned(t - mark))
Measure == Becomes(Since)

Mark ==
    /\ mark' = t /\ elapsed' = 0
    /\ UNCHANGED <<t, d, total, span, overflow>>

Next ==
    \/ PlusEq \/ MinusEq \/ Longer \/ Shorter \/ Negate \/ Measure \/ Mark
    \/ \E x \in DurationValue : SetDuration(x)

Spec == Init /\ [][Next]_vars

\* Time's and Duration's comparisons
Before == mark < t

-----------------------------------------------------------------------------
TypeOK ==
    /\ t \in TimeValue /\ mark \in TimeValue /\ d \in DurationValue
    /\ total \in Int /\ span \in Int /\ elapsed \in Int
    /\ overflow \in BOOLEAN

\* A time moved by durations is the sum of them, as 64 bits hold it.
TimeIsTotal == t = total % Modulus

\* A duration is what was computed as long as no operation left 64 bits.
DurationIsSpan == ~overflow => d = span

\* The duration between two times is right whenever it is below 2^63, also when
\* the counter wrapped between them.
SinceIsElapsed == elapsed \in DurationValue => Since = elapsed

\* The order of two times agrees with the duration between them exactly as long
\* as the counter did not wrap between them: a deadline past the wrap is before
\* the time it was computed from.
OrderAgreesUnlessWrapped ==
    (elapsed > 0 <=> Before) \/ elapsed = 0 \/ total \div Modulus # (total - elapsed) \div Modulus
=============================================================================
