----------------------------- MODULE ValuesProofs -----------------------------
(***************************************************************************)
(* Proofs about the values of the system: sequence numbers, times, sizes,  *)
(* GUIDs, locators and texts.  First the sequence numbers: two words       *)
(* behave as one number, for every width of the words.                     *)
(***************************************************************************)
EXTENDS MCValues, WellFoundedInduction, SequenceTheorems, FiniteSetTheorems, TLAPS

\* One step of the high word outweighs any low word.
LEMMA HighWordRules ==
    ASSUME NEW h \in Int, NEW k \in Int, h < k
    PROVE  h * W + W <= k * W
<1>1. W \in Int /\ W > 0
  BY WordAssumption
<1>2. PICK j \in Nat : k = h + 1 + j
  <2>1. k - h - 1 \in Nat /\ k = h + 1 + (k - h - 1)
    OBVIOUS
  <2> QED BY <2>1
<1>3. k * W = h * W + W + j * W
  BY <1>1, <1>2
<1>4. j * W >= 0
  BY <1>1, <1>2
<1>5. h * W \in Int /\ j * W \in Int
  BY <1>1, <1>2
<1> QED BY <1>1, <1>3, <1>4, <1>5

\* The comparisons of sequence_number.h order numbers as their values.
THEOREM LessIsValueOrder ==
    ASSUME NEW a \in SN, NEW b \in SN
    PROVE  /\ Less(a, b) <=> Value(a) < Value(b)
           /\ LessOrEqual(a, b) <=> Value(a) <= Value(b)
           /\ Equal(a, b) <=> Value(a) = Value(b)
<1>1. /\ W \in Int /\ W > 0
      /\ a.high \in Int /\ b.high \in Int
      /\ a.low \in Int /\ b.low \in Int
      /\ 0 <= a.low /\ a.low < W /\ 0 <= b.low /\ b.low < W
  BY WordAssumption DEF SN
<1> DEFINE A == a.high * W
           C == b.high * W
<1>2. A \in Int /\ C \in Int
  BY <1>1
<1>3. Value(a) = A + a.low /\ Value(b) = C + b.low
  BY DEF Value
<1>4. CASE a.high = b.high
  <2>1. A = C
    BY <1>4
  <2> HIDE DEF A, C
  <2> QED BY <2>1, <1>1, <1>2, <1>3, <1>4 DEF Less, LessOrEqual, Equal
<1>5. CASE a.high < b.high
  <2>1. A + W <= C
    BY <1>5, <1>1, HighWordRules
  <2> HIDE DEF A, C
  <2> QED BY <2>1, <1>1, <1>2, <1>3, <1>5 DEF Less, LessOrEqual, Equal
<1>6. CASE b.high < a.high
  <2>1. C + W <= A
    BY <1>6, <1>1, HighWordRules
  <2> HIDE DEF A, C
  <2> QED BY <2>1, <1>1, <1>2, <1>3, <1>6 DEF Less, LessOrEqual, Equal
<1> QED BY <1>1, <1>4, <1>5, <1>6

\* operator+ adds, with its carry, and stays inside the type unless it asserts.
LEMMA PlusAdds ==
    ASSUME NEW s \in SN, NEW n \in 0..(W - 1), PlusAsserts(s, n)
    PROVE  Plus(s, n) \in SN /\ Value(Plus(s, n)) = Value(s) + n
<1>1. /\ W \in Int /\ W > 0 /\ H \in Int /\ H > 0
      /\ s.high \in Int /\ -H <= s.high /\ s.high <= H - 1
      /\ s.low \in Int /\ 0 <= s.low /\ s.low < W /\ n \in Int /\ 0 <= n /\ n < W
  BY WordAssumption DEF SN
<1>2. CASE s.low + n >= W
  <2>1. Wrap(s.low + n) = s.low + n - W /\ Carries(s, n)
    BY <1>1, <1>2 DEF Wrap, Carries
  <2>2. s.high + 1 <= H - 1
    BY <1>1, <2>1 DEF PlusAsserts
  <2>3. Plus(s, n) = [high |-> s.high + 1, low |-> s.low + n - W]
    BY <2>1 DEF Plus, Number
  <2>4. (s.high + 1) * W = s.high * W + W
    BY <1>1
  <2>5. s.high * W \in Int
    BY <1>1
  <2> QED BY <1>1, <1>2, <2>2, <2>3, <2>4, <2>5 DEF SN, Value
<1>3. CASE s.low + n < W
  <2>1. Wrap(s.low + n) = s.low + n /\ ~Carries(s, n)
    BY <1>1, <1>3 DEF Wrap, Carries
  <2>2. Plus(s, n) = [high |-> s.high, low |-> s.low + n]
    BY <1>1, <2>1 DEF Plus, Number
  <2>3. s.high * W \in Int
    BY <1>1
  <2> QED BY <1>1, <1>3, <2>2, <2>3 DEF SN, Value
<1> QED BY <1>1, <1>2, <1>3

\* operator- subtracts, with its borrow, unless it asserts.
LEMMA MinusSubtracts ==
    ASSUME NEW s \in SN, NEW n \in 0..(W - 1), MinusAsserts(s, n)
    PROVE  Minus(s, n) \in SN /\ Value(Minus(s, n)) = Value(s) - n
<1>1. /\ W \in Int /\ W > 0 /\ H \in Int /\ H > 0
      /\ s.high \in Int /\ -H <= s.high /\ s.high <= H - 1
      /\ s.low \in Int /\ 0 <= s.low /\ s.low < W /\ n \in Int /\ 0 <= n /\ n < W
  BY WordAssumption DEF SN
<1>2. CASE n > s.low
  <2>1. Wrap(s.low - n) = s.low - n + W
    BY <1>1, <1>2 DEF Wrap
  <2>2. Minus(s, n) = [high |-> s.high - 1, low |-> s.low - n + W] /\ 0 < s.high
    BY <1>1, <1>2, <2>1 DEF Minus, Number, MinusAsserts
  <2>3. (s.high - 1) * W = s.high * W - W
    BY <1>1
  <2>4. s.high * W \in Int
    BY <1>1
  <2> QED BY <1>1, <1>2, <2>2, <2>3, <2>4 DEF SN, Value
<1>3. CASE ~(n > s.low)
  <2>1. Wrap(s.low - n) = s.low - n
    BY <1>1, <1>3 DEF Wrap
  <2>2. Minus(s, n) = [high |-> s.high, low |-> s.low - n]
    BY <1>1, <1>3, <2>1 DEF Minus, Number
  <2>3. s.high * W \in Int
    BY <1>1
  <2> QED BY <1>1, <1>3, <2>2, <2>3 DEF SN, Value
<1> QED BY <1>2, <1>3

IInv == TypeOK /\ TracksValue

LEMMA InitIInv == Init => IInv
<1> SUFFICES ASSUME Init PROVE IInv
  OBVIOUS
<1>1. sn = [high |-> 0, low |-> 0] /\ value = 0 /\ aborted = FALSE
  BY DEF Init, Number
<1>2. W \in Int /\ W > 0 /\ H \in Int /\ H > 0 /\ 0 * W = 0
  BY WordAssumption
<1>3. sn \in SN
  BY <1>1, <1>2 DEF SN
<1>4. Value(sn) = 0
  BY <1>1, <1>2 DEF Value
<1>5. value \in Int /\ Value(sn) = value
  BY <1>1, <1>4
<1>6. aborted \in BOOLEAN
  BY <1>1
<1> QED BY <1>3, <1>5, <1>6, Zenon DEF IInv, TypeOK, TracksValue

LEMMA IncrementIInv == IInv /\ Increment => IInv'
<1> SUFFICES ASSUME IInv, Increment PROVE IInv'
  OBVIOUS
<1>1. /\ W \in Int /\ W > 1 /\ H \in Int /\ H > 0 /\ sn \in SN /\ value \in Int
      /\ sn.high \in Int /\ sn.low \in Int /\ 0 <= sn.low /\ sn.low < W
      /\ sn.high * W + sn.low = value /\ sn.high * W \in Int
  BY WordAssumption DEF IInv, TypeOK, TracksValue, SN, Value
<1>2. CASE Wrap(sn.low + 1) # 0
  <2>1. sn.low + 1 < W
    BY <1>1, <1>2 DEF Wrap
  <2>2. sn' = [high |-> sn.high, low |-> sn.low + 1] /\ value' = value + 1 /\ aborted' = aborted
    BY <1>2 DEF Increment, Become, Number
  <2> QED BY <1>1, <2>1, <2>2 DEF IInv, TypeOK, TracksValue, SN, Value
<1>3. CASE Wrap(sn.low + 1) = 0 /\ H - 1 > sn.high
  <2>1. sn.low + 1 = W
    BY <1>1, <1>3 DEF Wrap
  <2>2. sn' = [high |-> sn.high + 1, low |-> 0] /\ value' = value + 1 /\ aborted' = aborted
    BY <1>3 DEF Increment, Become, Number
  <2>3. (sn.high + 1) * W = sn.high * W + W
    BY <1>1
  <2> QED BY <1>1, <1>3, <2>1, <2>2, <2>3 DEF IInv, TypeOK, TracksValue, SN, Value
<1>4. CASE Wrap(sn.low + 1) = 0 /\ ~(H - 1 > sn.high)
  BY <1>4 DEF Increment, Abort, IInv, TypeOK, TracksValue
<1> QED BY <1>2, <1>3, <1>4

LEMMA NextIInv == IInv /\ [Next]_vars => IInv'
<1> SUFFICES ASSUME IInv, [Next]_vars PROVE IInv'
  OBVIOUS
<1>1. CASE UNCHANGED vars
  BY <1>1 DEF vars, IInv, TypeOK, TracksValue
<1>2. CASE Increment
  BY <1>2, IncrementIInv
<1>3. ASSUME NEW n \in Steps, Add(n) PROVE IInv'
  <2>1. n \in 0..(W - 1) /\ sn \in SN
    BY WordAssumption DEF IInv, TypeOK
  <2>2. CASE PlusAsserts(sn, n)
    BY <1>3, <2>1, <2>2, PlusAdds DEF Add, Become, IInv, TypeOK, TracksValue
  <2>3. CASE ~PlusAsserts(sn, n)
    BY <1>3, <2>3 DEF Add, Abort, IInv, TypeOK, TracksValue
  <2> QED BY <2>2, <2>3
<1>4. ASSUME NEW n \in Steps, Subtract(n) PROVE IInv'
  <2>1. n \in 0..(W - 1) /\ sn \in SN
    BY WordAssumption DEF IInv, TypeOK
  <2>2. CASE MinusAsserts(sn, n)
    BY <1>4, <2>1, <2>2, MinusSubtracts DEF Subtract, Become, IInv, TypeOK, TracksValue
  <2>3. CASE ~MinusAsserts(sn, n)
    BY <1>4, <2>3 DEF Subtract, Abort, IInv, TypeOK, TracksValue
  <2> QED BY <2>2, <2>3
<1> QED BY <1>1, <1>2, <1>3, <1>4 DEF Next

\* The two words of a writer's counter are always the number it counted to.
THEOREM CounterTracksValue == Spec => []TracksValue
<1>1. IInv => TracksValue
  BY DEF IInv
<1> QED BY InitIInv, NextIInv, <1>1, PTL DEF Spec

\* and they always have their types: no carry or borrow leaves the words.
THEOREM CounterTypes == Spec => []TypeOK
<1>1. IInv => TypeOK
  BY DEF IInv
<1> QED BY InitIInv, NextIInv, <1>1, PTL DEF Spec

\* At every point of a writer's count the comparisons with any other number
\* agree with the values.
THEOREM CounterOrder == Spec => []OrderIsValueOrder
<1>1. TypeOK => OrderIsValueOrder
  BY LessIsValueOrder DEF TypeOK, OrderIsValueOrder
<1> QED BY <1>1, CounterTypes, PTL

\* The remainder of a number given by quotient and remainder.
LEMMA RemainderIs ==
  ASSUME NEW w \in Nat \ {0}, NEW q \in Int, NEW r \in 0..(w - 1)
  PROVE  (q * w + r) % w = r
OBVIOUS

\* The difference of two numbers in order borrows and asserts rightly.
LEMMA DifferenceSubtracts ==
  ASSUME NEW a \in SN, NEW b \in SN, LessOrEqual(b, a)
  PROVE  /\ DifferenceAsserts(a, b)
         /\ Difference(a, b).high \in Int /\ Difference(a, b).low \in 0..(W - 1)
         /\ Value(Difference(a, b)) = Value(a) - Value(b)
<1> DEFINE borrow == IF a.low < b.low THEN 1 ELSE 0
<1>1. /\ W \in Nat \ {0, 1} /\ H \in Nat \ {0}
      /\ a.high \in Int /\ b.high \in Int /\ a.low \in 0..(W - 1) /\ b.low \in 0..(W - 1)
  BY WordAssumption DEF SN
<1>2. DifferenceAsserts(a, b)
  BY <1>1 DEF DifferenceAsserts, LessOrEqual
<1>3. Difference(a, b).high = a.high - b.high - borrow
  BY DEF Difference, Number
<1>4. Difference(a, b).low = a.low - b.low + borrow * W
  BY <1>1 DEF Difference, Number, Wrap
<1>5. Difference(a, b).low \in 0..(W - 1)
  BY <1>1, <1>4
<1>6. Value(Difference(a, b)) = Value(a) - Value(b)
  <2>1. CASE a.low < b.low
    BY <1>1, <1>3, <1>4, <2>1 DEF Value
  <2>2. CASE ~(a.low < b.low)
    BY <1>1, <1>3, <1>4, <2>2 DEF Value
  <2> QED BY <2>1, <2>2
<1> QED BY <1>1, <1>2, <1>3, <1>5, <1>6

\* The distance from any earlier number is that of the values, and its low word
\* the remainder.
LEMMA DistancesHold == TypeOK /\ TracksValue => Distances
<1> SUFFICES ASSUME TypeOK, TracksValue, NEW a \in SN, LessOrEqual(a, sn)
             PROVE  /\ DifferenceAsserts(sn, a)
                    /\ Value(Difference(sn, a)) = value - Value(a)
                    /\ Diff(sn, a) = (value - Value(a)) % W
                    /\ To64Long(sn) = value % W
  BY DEF Distances
<1>1. W \in Nat \ {0} /\ sn \in SN
  BY WordAssumption DEF TypeOK
<1> DEFINE diff == Difference(sn, a)
<1>2. DifferenceAsserts(sn, a) /\ diff.high \in Int /\ diff.low \in 0..(W - 1) /\ Value(diff) = value - Value(a)
  BY <1>1, DifferenceSubtracts DEF TracksValue
<1>3. (diff.high * W + diff.low) % W = diff.low
  <2> HIDE DEF diff
  <2> QED BY <1>1, <1>2, RemainderIs
<1>4. sn.high \in Int /\ sn.low \in 0..(W - 1)
  BY <1>1 DEF SN
<1>5. (sn.high * W + sn.low) % W = sn.low
  BY <1>1, <1>4, RemainderIs
<1>6. Diff(sn, a) = (value - Value(a)) % W
  BY <1>2, <1>3 DEF Diff, Value
<1>7. To64Long(sn) = value % W
  BY <1>5 DEF To64Long, Value, TracksValue
<1> QED BY <1>2, <1>6, <1>7

\* A counter of two words is the integer it counts, in value, order and distance,
\* for every word width.
THEOREM CounterIsInteger == PartsSpec => []NumbersAreValues
<1>1. IInv => NumbersAreValues
  BY LessIsValueOrder, DistancesHold DEF IInv, TypeOK, OrderIsValueOrder, NumbersAreValues
<1>2. PartsInit => Init BY DEF PartsInit
<1>3. [PartsNext]_parts => [Next]_vars BY DEF PartsNext, parts
<1> QED BY InitIInv, NextIInv, <1>1, <1>2, <1>3, PTL DEF PartsSpec

-----------------------------------------------------------------------------
(***************************************************************************)
(* Times and durations, for every width of the word and every length of a  *)
(* second.                                                                 *)
(***************************************************************************)

\* A remainder and a quotient are the only ones.
LEMMA DivisionIs ==
    ASSUME NEW m \in Nat \ {0}, NEW q \in Int, NEW r \in 0..(m - 1)
    PROVE  (q * m + r) % m = r /\ (q * m + r) \div m = q
OBVIOUS

LEMMA DivisionOf ==
    ASSUME NEW m \in Nat \ {0}, NEW x \in Int
    PROVE  /\ x = (x \div m) * m + (x % m) /\ x \div m \in Int /\ x % m \in 0..(m - 1)
OBVIOUS

LEMMA UnsignedIs ==
    ASSUME NEW y \in Int, Timer!Modulus \in Nat
    PROVE  /\ y >= Timer!Modulus => Timer!Unsigned(y) = y - Timer!Modulus
           /\ y < 0 => Timer!Unsigned(y) = y + Timer!Modulus
           /\ y \in 0..(Timer!Modulus - 1) => Timer!Unsigned(y) = y
BY DEF Timer!Unsigned

\* What is added to a number is added to what its word holds.
LEMMA WordFollows ==
    ASSUME NEW x \in Int, NEW by \in Int
    PROVE  (x % Timer!Modulus) + by \in (-Half)..(Timer!Modulus + Half - 1)
               => Timer!Unsigned((x % Timer!Modulus) + by) = (x + by) % Timer!Modulus
<1> DEFINE m == Timer!Modulus
<1>1. m \in Nat \ {0} /\ m = 2 * Half /\ Half \in Nat \ {0} BY TimeAssumption DEF Timer!Modulus
<1>2. PICK q \in Int, r \in 0..(m - 1) : x = q * m + r /\ r = x % m
  <2> HIDE DEF m
  <2> QED BY <1>1, DivisionOf
<1>3. r \in Int /\ r + by \in Int /\ m \in Nat
  <2> HIDE DEF m
  <2> QED BY <1>1
<1>4. /\ r + by >= m => Timer!Unsigned(r + by) = r + by - m
      /\ r + by < 0 => Timer!Unsigned(r + by) = r + by + m
      /\ r + by \in 0..(m - 1) => Timer!Unsigned(r + by) = r + by
  BY <1>3, UnsignedIs
<1> HIDE DEF m
<1>5. SUFFICES ASSUME r + by \in (-Half)..(m + Half - 1)
               PROVE  Timer!Unsigned(r + by) = (x + by) % m
  BY <1>2 DEF m
<1>6. q * m \in Int /\ (q + 1) * m = q * m + m /\ (q - 1) * m = q * m - m BY <1>1
<1>7. CASE r + by >= m
  <2>1. r + by - m \in 0..(m - 1) BY <1>1, <1>3, <1>5, <1>7
  <2>2. ((q + 1) * m + (r + by - m)) % m = r + by - m
    <3>1. q + 1 \in Int OBVIOUS
    <3> QED BY <1>1, <2>1, <3>1, DivisionIs
  <2>3. (q + 1) * m + (r + by - m) = x + by BY <1>1, <1>2, <1>6
  <2> QED BY <1>4, <1>7, <2>2, <2>3
<1>8. CASE r + by < 0
  <2>1. r + by + m \in 0..(m - 1) BY <1>1, <1>3, <1>5, <1>8
  <2>2. ((q - 1) * m + (r + by + m)) % m = r + by + m
    <3>1. q - 1 \in Int OBVIOUS
    <3> QED BY <1>1, <2>1, <3>1, DivisionIs
  <2>3. (q - 1) * m + (r + by + m) = x + by BY <1>1, <1>2, <1>6
  <2> QED BY <1>4, <1>8, <2>2, <2>3
<1>9. CASE r + by \in 0..(m - 1)
  <2>1. (q * m + (r + by)) % m = r + by BY <1>1, <1>9, DivisionIs
  <2>2. q * m + (r + by) = x + by BY <1>1, <1>2, <1>6
  <2> QED BY <1>4, <1>9, <2>1, <2>2
<1> QED BY <1>1, <1>3, <1>7, <1>8, <1>9

\* The invariant: the words are the integers they stand for, the mark's included.
TimeInv ==
    /\ Timer!TypeOK /\ Timer!TimeIsTotal /\ Timer!DurationIsSpan
    /\ mark = (total - elapsed) % Timer!Modulus

LEMMA TimeInitially == Timer!Init => TimeInv
<1> SUFFICES ASSUME Timer!Init PROVE TimeInv OBVIOUS
<1>1. PICK s \in 0..SECOND, ns \in 0..SECOND :
          /\ s * SECOND + ns < Half /\ t = s * SECOND + ns /\ mark = t /\ total = t
          /\ d = 0 /\ span = 0 /\ elapsed = 0 /\ overflow = FALSE
  BY DEF Timer!Init, Timer!FromSeconds
<1>2. t \in Nat /\ t < Half
  <2>1. s \in Nat /\ ns \in Nat /\ SECOND \in Nat BY TimeAssumption
  <2>2. s * SECOND \in Nat BY <2>1
  <2> QED BY <1>1, <2>1, <2>2
<1>3. Timer!Modulus = 2 * Half /\ Half \in Nat \ {0} BY TimeAssumption DEF Timer!Modulus
<1> DEFINE m == Timer!Modulus
<1>4. t \in 0..(m - 1) /\ m \in Nat \ {0} BY <1>2, <1>3
<1>5. t % m = t
  <2> HIDE DEF m
  <2>1. (0 * m + t) % m = t /\ 0 * m + t = t BY <1>2, <1>4, DivisionIs
  <2> QED BY <2>1
<1>6. d \in (-Half)..(Half - 1) /\ total \in Int /\ span \in Int /\ elapsed \in Int
  BY <1>1, <1>2, <1>3
<1>7. overflow \in BOOLEAN BY <1>1
<1>8. Timer!TypeOK
  BY <1>1, <1>4, <1>6, <1>7, Zenon DEF Timer!TypeOK, Timer!TimeValue, Timer!DurationValue
<1>9. total - elapsed = t BY <1>1, <1>2
<1> QED BY <1>1, <1>5, <1>8, <1>9 DEF TimeInv, Timer!TimeIsTotal, Timer!DurationIsSpan

\* Moving a time by a duration moves the total by it.
LEMMA MoveKeeps ==
    ASSUME TimeInv, NEW by \in Int, by \in (-Half)..Half, Timer!MoveTo(t + by, by)
    PROVE  TimeInv'
<1> DEFINE m == Timer!Modulus
<1>1. /\ t' = Timer!Unsigned(t + by) /\ total' = total + by /\ elapsed' = elapsed + by
      /\ UNCHANGED <<d, mark, span, overflow>>
  BY DEF Timer!MoveTo
<1>2. m = 2 * Half /\ Half \in Nat \ {0} BY TimeAssumption DEF Timer!Modulus
<1>3. /\ t \in 0..(m - 1) /\ total \in Int /\ elapsed \in Int /\ t = total % m
      /\ mark = (total - elapsed) % m
  BY DEF TimeInv, Timer!TypeOK, Timer!TimeValue, Timer!TimeIsTotal
<1>4. t + by \in (-Half)..(m + Half - 1) BY <1>2, <1>3
<1>5. t' = (total + by) % m BY <1>1, <1>3, <1>4, WordFollows
<1> HIDE DEF m
<1>6. t' \in 0..(m - 1) BY <1>2, <1>3, <1>5, DivisionOf
<1>7. total' \in Int /\ elapsed' \in Int /\ total' - elapsed' = total - elapsed BY <1>1, <1>3
<1>8. Timer!TypeOK'
  BY <1>1, <1>6, <1>7, Zenon DEF TimeInv, Timer!TypeOK, Timer!TimeValue, m
<1>9. Timer!DurationIsSpan' BY <1>1 DEF TimeInv, Timer!DurationIsSpan
<1>10. Timer!TimeIsTotal' BY <1>1, <1>5 DEF Timer!TimeIsTotal, m
<1>11. mark' = (total' - elapsed') % Timer!Modulus BY <1>1, <1>3, <1>7 DEF m
<1> QED BY <1>8, <1>9, <1>10, <1>11 DEF TimeInv

\* A duration becomes what is computed, or anything after an overflow.
LEMMA BecomesKeeps ==
    ASSUME TimeInv, NEW x \in Int, Timer!Becomes(x)
    PROVE  TimeInv'
<1>1. /\ IF x \in Timer!DurationValue THEN d' = x /\ overflow' = FALSE
         ELSE d' \in Timer!DurationValue /\ overflow' = TRUE
      /\ span' = x /\ UNCHANGED <<t, mark, total, elapsed>>
  BY DEF Timer!Becomes
<1>2. d' \in Timer!DurationValue /\ overflow' \in BOOLEAN /\ (~overflow' => d' = span') BY <1>1
<1>3. Timer!TypeOK' BY <1>1, <1>2, Zenon DEF TimeInv, Timer!TypeOK
<1> QED BY <1>1, <1>2, <1>3 DEF TimeInv, Timer!TimeIsTotal, Timer!DurationIsSpan

\* The difference of two times is the duration between them, when it fits.
LEMMA SinceIs ==
    ASSUME TimeInv
    PROVE  Timer!Since \in Int /\ (elapsed \in Timer!DurationValue => Timer!Since = elapsed)
<1> DEFINE m == Timer!Modulus
           before == total - elapsed
           u == Timer!Unsigned(t - mark)
<1>1. m = 2 * Half /\ Half \in Nat \ {0} /\ m \in Nat \ {0} BY TimeAssumption DEF Timer!Modulus
<1>2. /\ t \in 0..(m - 1) /\ mark \in 0..(m - 1) /\ total \in Int /\ elapsed \in Int
      /\ t = total % m /\ mark = before % m
  BY DEF TimeInv, Timer!TypeOK, Timer!TimeValue, Timer!TimeIsTotal
<1>3. u = IF t - mark >= m THEN t - mark - m ELSE IF t - mark < 0 THEN t - mark + m ELSE t - mark
  BY DEF Timer!Unsigned
<1>4. Timer!Since = IF u >= Half THEN u - m ELSE u BY DEF Timer!Since, Timer!Signed
<1> HIDE DEF m, u
<1>5. u \in 0..(m - 1) /\ (u = t - mark \/ u = t - mark + m) BY <1>1, <1>2, <1>3
<1>6. PICK k \in Int : Timer!Since = elapsed + k * m
  <2> DEFINE p == total \div m
             q == before \div m
  <2>1. total = p * m + t /\ p \in Int BY <1>1, <1>2, DivisionOf
  <2>2. before = q * m + mark /\ q \in Int /\ before \in Int
    <3> HIDE DEF before
    <3>1. before \in Int BY <1>2 DEF before
    <3> QED BY <1>1, <1>2, <3>1, DivisionOf
  <2> HIDE DEF p, q
  <2>3. elapsed = (p * m + t) - (q * m + mark) BY <1>2, <2>1, <2>2
  <2>4. p * m \in Int /\ q * m \in Int BY <1>1, <2>1, <2>2
  <2>5. (q - p) * m = q * m - p * m /\ (q - p + 1) * m = q * m - p * m + m
        /\ (q - p - 1) * m = q * m - p * m - m
    BY <1>1, <2>1, <2>2
  <2>6. q - p \in Int /\ q - p + 1 \in Int /\ q - p - 1 \in Int BY <2>1, <2>2
  <2>7. \/ Timer!Since = t - mark \/ Timer!Since = t - mark + m \/ Timer!Since = t - mark - m
    BY <1>1, <1>2, <1>4, <1>5
  <2>8. CASE Timer!Since = t - mark
    <3>1. Timer!Since = elapsed + (q - p) * m BY <1>1, <1>2, <2>3, <2>4, <2>5, <2>8
    <3> QED BY <2>6, <3>1
  <2>9. CASE Timer!Since = t - mark + m
    <3>1. Timer!Since = elapsed + (q - p + 1) * m BY <1>1, <1>2, <2>3, <2>4, <2>5, <2>9
    <3> QED BY <2>6, <3>1
  <2>10. CASE Timer!Since = t - mark - m
    <3>1. Timer!Since = elapsed + (q - p - 1) * m BY <1>1, <1>2, <2>3, <2>4, <2>5, <2>10
    <3> QED BY <2>6, <3>1
  <2> QED BY <2>7, <2>8, <2>9, <2>10
<1>7. Timer!Since \in (-Half)..(Half - 1) BY <1>1, <1>4, <1>5
<1>8. ASSUME elapsed \in (-Half)..(Half - 1) PROVE Timer!Since = elapsed
  <2>1. k >= 1 => k * m >= m BY <1>1
  <2>2. k <= -1 => k * m <= -m BY <1>1
  <2>3. k = 0 => k * m = 0 BY <1>1
  <2>4. k * m \in Int BY <1>1
  <2> QED BY <1>1, <1>6, <1>7, <1>8, <2>1, <2>2, <2>3, <2>4
<1> QED BY <1>7, <1>8 DEF Timer!DurationValue

\* While the counter did not wrap between two times, they compare as they follow.
LEMMA OrderIs == TimeInv => Timer!OrderAgreesUnlessWrapped
<1> SUFFICES ASSUME TimeInv, total \div Timer!Modulus = (total - elapsed) \div Timer!Modulus
             PROVE  elapsed > 0 <=> mark < t
  BY DEF Timer!OrderAgreesUnlessWrapped, Timer!Before
<1> DEFINE m == Timer!Modulus
           before == total - elapsed
           q == total \div m
<1>1. m \in Nat \ {0} BY TimeAssumption DEF Timer!Modulus
<1>2. /\ t \in 0..(m - 1) /\ mark \in 0..(m - 1) /\ total \in Int /\ elapsed \in Int
      /\ t = total % m /\ mark = before % m
  BY DEF TimeInv, Timer!TypeOK, Timer!TimeValue, Timer!TimeIsTotal
<1> HIDE DEF m
<1>3. total = q * m + t /\ q \in Int BY <1>1, <1>2, DivisionOf
<1>4. before = q * m + mark
  <2>1. before \in Int BY <1>2
  <2>2. before \div m = q BY DEF m
  <2> HIDE DEF before, q
  <2> QED BY <1>1, <1>2, <2>1, <2>2, DivisionOf
<1>5. q * m \in Int BY <1>1, <1>3
<1> HIDE DEF q
<1> QED BY <1>2, <1>3, <1>4, <1>5

LEMMA TimeInductive == TimeInv /\ [Timer!Next]_times => TimeInv'
<1> SUFFICES ASSUME TimeInv, [Timer!Next]_times PROVE TimeInv' OBVIOUS
<1>1. t \in Int /\ d \in (-Half)..(Half - 1) /\ d \in Int /\ Half \in Nat
  BY TimeAssumption DEF TimeInv, Timer!TypeOK, Timer!TimeValue, Timer!DurationValue, Timer!Modulus
<1>2. CASE Timer!PlusEq BY <1>1, <1>2, MoveKeeps DEF Timer!PlusEq
<1>3. CASE Timer!MinusEq
  <2>1. -d \in Int /\ -d \in (-Half)..Half /\ t + (-d) = t - d BY <1>1
  <2> QED BY <1>3, <2>1, MoveKeeps DEF Timer!MinusEq
<1>4. CASE Timer!Longer \/ Timer!Shorter \/ Timer!Negate
  <2>1. d + 1 \in Int /\ d + d \in Int /\ d - 1 \in Int /\ -d \in Int BY <1>1
  <2> QED BY <1>4, <2>1, BecomesKeeps DEF Timer!Longer, Timer!Shorter, Timer!Negate
<1>5. CASE Timer!Measure BY <1>5, SinceIs, BecomesKeeps DEF Timer!Measure
<1>6. CASE Timer!Mark
  <2>1. mark' = t /\ elapsed' = 0 /\ UNCHANGED <<t, d, total, span, overflow>>
    BY <1>6 DEF Timer!Mark
  <2>2. Timer!TypeOK'
    <3>1. elapsed' \in Int BY <2>1
    <3> QED BY <2>1, <3>1, Zenon DEF TimeInv, Timer!TypeOK
  <2>3. total' - elapsed' = total BY <2>1 DEF TimeInv, Timer!TypeOK
  <2> QED BY <2>1, <2>2, <2>3 DEF TimeInv, Timer!TimeIsTotal, Timer!DurationIsSpan
<1>7. ASSUME NEW x \in Timer!DurationValue, Timer!SetDuration(x) PROVE TimeInv'
  <2>1. x \in Int BY DEF Timer!DurationValue
  <2> QED BY <1>7, <2>1, BecomesKeeps DEF Timer!SetDuration
<1>8. CASE UNCHANGED times
  <2>1. Timer!TypeOK' BY <1>8, Zenon DEF TimeInv, times, Timer!TypeOK
  <2> QED BY <1>8, <2>1 DEF times, TimeInv, Timer!TimeIsTotal, Timer!DurationIsSpan
<1> QED BY <1>2, <1>3, <1>4, <1>5, <1>6, <1>7, <1>8 DEF Timer!Next

\* Times and durations are the integers they stand for, across every wrap, and times
\* compare as they follow each other unless one lies between them.
THEOREM TimesAreRight == PartsSpec => []TimesAreExact
<1> DEFINE Inv == part = "time" => TimeInv
<1>1. PartsInit => Inv BY TimeInitially DEF PartsInit
<1>2. Inv /\ [PartsNext]_parts => Inv'
  <2>1. [PartsNext]_parts => part' = part /\ (part = "time" => [Timer!Next]_times)
    BY DEF PartsNext, parts
  <2> QED BY <2>1, TimeInductive
<1>3. Inv => TimesAreExact
  BY SinceIs, OrderIs DEF TimeInv, TimesAreExact, Timer!SinceIsElapsed
<1> QED BY <1>1, <1>2, <1>3, PTL DEF PartsSpec

-----------------------------------------------------------------------------
(***************************************************************************)
(* The sizes of share stacks, for every size of a page.                    *)
(***************************************************************************)
LEMMA AlignedIs ==
    ASSUME NEW size \in Nat, size > 40
    PROVE  /\ Stacks!AlignedHigh(size) \in Nat /\ Stacks!AlignedHigh(size) % 16 = 0
           /\ Stacks!AlignedHigh(size) <= size - 16 /\ Stacks!AlignedHigh(size) > size - 32
           /\ Stacks!AlignedHigh(size) >= 16
BY DEF Stacks!AlignedHigh, Stacks!Word, Stacks!Align

\* An area with a guard page is whole pages and holds what was requested.
LEMMA GuardedIs ==
    ASSUME NEW sz \in Nat, sz >= MinSize, Stacks!SizeAccepted(sz)
    PROVE  /\ Stacks!WithGuard(sz) \in Nat /\ Stacks!WithGuard(sz) % PageSize = 0
           /\ Stacks!WithGuard(sz) >= 2 * PageSize /\ Stacks!WithGuard(sz) - PageSize >= sz
<1> DEFINE p == PageSize
           r == sz % p
<1>1. p \in Nat \ {0} BY StackAssumption
<1>2. r \in 0..(p - 1)
  <2> HIDE DEF p
  <2> QED BY <1>1, DivisionOf
<1>3. CASE sz <= p
  <2>1. Stacks!WithGuard(sz) = 2 * p BY <1>1, <1>3 DEF Stacks!WithGuard
  <2> HIDE DEF p
  <2>2. 0 \in 0..(p - 1) /\ 2 \in Int BY <1>1
  <2>3. (2 * p + 0) % p = 0 BY <1>1, <2>2, DivisionIs
  <2>4. 2 * p + 0 = 2 * p /\ 2 * p \in Nat /\ 2 * p - p >= sz BY <1>1, <1>3
  <2> QED BY <2>1, <2>3, <2>4 DEF p
<1>4. CASE sz > p
  <2>1. Stacks!WithGuard(sz) % p = 0 BY <1>4 DEF Stacks!SizeAccepted
  <2>2. \/ Stacks!WithGuard(sz) = (sz - r) + 2 * p
        \/ Stacks!WithGuard(sz) = sz + p
    BY <1>1, <1>4 DEF Stacks!WithGuard, Stacks!NeedsRounding
  <2> HIDE DEF p, r
  <2>3. /\ Stacks!WithGuard(sz) \in Nat /\ Stacks!WithGuard(sz) >= 2 * p
        /\ Stacks!WithGuard(sz) - p >= sz
    BY <1>1, <1>2, <1>4, <2>2
  <2> QED BY <2>1, <2>3 DEF p
<1> QED BY <1>1, <1>3, <1>4

StackInv == Stacks!TypeOK /\ Stacks!LargeEnough /\ Stacks!LimitInsideArea

LEMMA StackInductive ==
    /\ Stacks!Init => StackInv
    /\ StackInv /\ [Stacks!Next]_stacks => StackInv'
<1>1. ASSUME Stacks!Init PROVE StackInv
  <2>1. failed \in BOOLEAN /\ stack = Stacks!NoStack BY <1>1 DEF Stacks!Init
  <2>2. /\ asked \in [sz : Requests \cup {0}, guard : BOOLEAN]
        /\ stack \in [sz : Nat, real_sz : Nat, highptr : Nat, retptr : Nat, limit : Nat]
    BY <1>1 DEF Stacks!Init, Stacks!NoStack
  <2> QED
    BY <2>1, <2>2, Zenon DEF StackInv, Stacks!TypeOK, Stacks!LargeEnough, Stacks!LimitInsideArea
<1>2. ASSUME StackInv, NEW sz \in Requests, NEW guard \in BOOLEAN, Stacks!ShareStackNew2(sz, guard)
      PROVE  StackInv'
  <2> DEFINE n == Stacks!Requested(sz)
             u == Stacks!UsableSize(n, guard)
  <2>1. /\ asked' = [sz |-> sz, guard |-> guard] /\ asked'.sz = sz /\ asked'.guard = guard
        /\ asked' \in [sz : Requests \cup {0}, guard : BOOLEAN]
        /\ stack = Stacks!NoStack
    BY <1>2 DEF Stacks!ShareStackNew2
  <2>2. CASE guard => Stacks!SizeAccepted(n)
    <3>1. stack' = Stacks!Layout(u, guard) /\ failed' = failed
      BY <1>2, <2>2, Zenon DEF Stacks!ShareStackNew2
    <3>2. n \in Nat /\ n >= MinSize /\ n >= sz BY StackAssumption DEF Stacks!Requested
    <3>3. /\ u \in Nat /\ u >= n
          /\ guard => u + PageSize = Stacks!WithGuard(n)
          /\ guard => (u + PageSize) % PageSize = 0 /\ u + PageSize >= 2 * PageSize
      <4> HIDE DEF n
      <4>1. CASE guard
        <5>1. /\ Stacks!WithGuard(n) \in Nat /\ Stacks!WithGuard(n) % PageSize = 0
              /\ Stacks!WithGuard(n) >= 2 * PageSize /\ Stacks!WithGuard(n) - PageSize >= n
          BY <2>2, <3>2, <4>1, GuardedIs
        <5>2. u = Stacks!WithGuard(n) - PageSize BY <4>1 DEF Stacks!UsableSize
        <5>3. PageSize \in Nat BY StackAssumption
        <5> HIDE DEF u
        <5>4. u + PageSize = Stacks!WithGuard(n) /\ u \in Nat /\ u >= n BY <3>2, <5>1, <5>2, <5>3
        <5> QED BY <5>1, <5>4
      <4>2. CASE ~guard BY <3>2, <4>2 DEF Stacks!UsableSize
      <4> QED BY <4>1, <4>2
    <3> HIDE DEF n, u
    <3>4. u > 40 BY StackAssumption, <3>2, <3>3
    <3> DEFINE high == Stacks!AlignedHigh(u)
    <3>5. high \in Nat /\ high % 16 = 0 /\ high <= u - 16 /\ high > u - 32 /\ high >= 16
      BY <3>3, <3>4, AlignedIs
    <3>6. /\ stack'.sz = u /\ stack'.real_sz = IF guard THEN u + PageSize ELSE 0
          /\ stack'.highptr = high /\ stack'.retptr = high - 8 /\ stack'.limit = u - 32
          /\ stack' = [sz |-> stack'.sz, real_sz |-> stack'.real_sz, highptr |-> stack'.highptr,
                       retptr |-> stack'.retptr, limit |-> stack'.limit]
      BY <3>1, <3>3 DEF Stacks!Layout, Stacks!Word
    <3> HIDE DEF high
    <3>7. /\ u \in Nat /\ (IF guard THEN u + PageSize ELSE 0) \in Nat /\ high - 8 \in Nat /\ u - 32 \in Nat
      BY StackAssumption, <3>3, <3>4, <3>5
    <3>8. stack' \in [sz : Nat, real_sz : Nat, highptr : Nat, retptr : Nat, limit : Nat]
      BY <3>5, <3>6, <3>7
    <3>9. Stacks!TypeOK' BY <1>2, <2>1, <3>1, <3>8, Zenon DEF StackInv, Stacks!TypeOK
    <3>10. Stacks!LargeEnough'
      <4>1. stack'.sz >= asked'.sz /\ stack'.sz >= MinSize
        <5>1. sz \in Nat /\ MinSize \in Nat BY StackAssumption
        <5>2. n >= sz /\ n >= MinSize /\ u >= n /\ n \in Nat /\ u \in Nat BY <3>2, <3>3
        <5>3. u >= sz /\ u >= MinSize BY <5>1, <5>2
        <5> QED BY <2>1, <3>6, <5>3
      <4>2. asked'.guard => stack'.real_sz % PageSize = 0 /\ stack'.real_sz >= 2 * PageSize
        BY <2>1, <3>3, <3>6
      <4> QED BY <4>1, <4>2, Zenon DEF Stacks!LargeEnough
    <3>11. Stacks!LimitInsideArea'
      <4>1. /\ high - (u - 32) > 0 /\ high - 8 > high - (u - 32) /\ (high - 8) + 8 <= u
        BY <3>3, <3>4, <3>5
      <4> QED BY <3>5, <3>6, <4>1 DEF Stacks!LimitInsideArea, Stacks!Align, Stacks!Word
    <3> QED BY <3>9, <3>10, <3>11 DEF StackInv
  <2>3. CASE ~(guard => Stacks!SizeAccepted(n))
    <3>1. failed' = TRUE /\ stack' = stack BY <1>2, <2>3, Zenon DEF Stacks!ShareStackNew2
    <3>2. Stacks!TypeOK' BY <1>2, <2>1, <3>1, Zenon DEF StackInv, Stacks!TypeOK
    <3> QED
      BY <2>1, <3>1, <3>2, Zenon
         DEF StackInv, Stacks!LargeEnough, Stacks!LimitInsideArea, Stacks!NoStack
  <2> QED BY <2>2, <2>3
<1>3. ASSUME StackInv, Stacks!ShareStackDestory PROVE StackInv'
  <2>1. stack' = Stacks!NoStack /\ asked' = asked /\ failed' = failed
    BY <1>3 DEF Stacks!ShareStackDestory
  <2>2. stack' \in [sz : Nat, real_sz : Nat, highptr : Nat, retptr : Nat, limit : Nat]
    BY <2>1 DEF Stacks!NoStack
  <2> QED
    BY <2>1, <2>2, <1>3, Zenon
       DEF StackInv, Stacks!TypeOK, Stacks!LargeEnough, Stacks!LimitInsideArea, Stacks!NoStack
<1>4. ASSUME StackInv, UNCHANGED stacks PROVE StackInv'
  BY <1>4, Zenon DEF stacks, StackInv, Stacks!TypeOK, Stacks!LargeEnough, Stacks!LimitInsideArea
<1>5. Stacks!Gone => UNCHANGED stacks BY DEF Stacks!Gone, Stacks!vars, stacks
<1> QED BY <1>1, <1>2, <1>3, <1>4, <1>5, Zenon DEF Stacks!Next
-----------------------------------------------------------------------------
(***************************************************************************)
(* The announced size of properties, for any number of them and any sizes. *)
(* Announced and written sizes are folds over the sequence, so the first   *)
(* lemmas say that a fold goes along a sequence member by member.          *)
(***************************************************************************)
LEMMA LeastOf ==
    ASSUME NEW T \in SUBSET Nat, T # {}
    PROVE  \E x \in T : \A y \in T : x <= y
<1>1. IsWellFoundedOn(OpToRel(<, Nat), Nat) BY NatLessThanWellFounded
<1>2. PICK x \in T : \A y \in T : ~(<<y, x>> \in OpToRel(<, Nat)) BY <1>1, WFMin
<1>3. \A y \in T : ~(y < x) BY <1>2 DEF OpToRel
<1> QED BY <1>3

\* The greatest of a set of numbers up to n + 1.
LEMMA GreatestOf ==
    ASSUME NEW n \in Nat, NEW T \in SUBSET (1..n), T # {}
    PROVE  Announced!Max(T) \in T /\ \A y \in T : Announced!Max(T) >= y
<1> DEFINE U == {n - x : x \in T}
<1>1. U \in SUBSET Nat /\ U # {} OBVIOUS
<1>2. PICK u \in U : \A v \in U : u <= v
  <2> HIDE DEF U
  <2> QED BY <1>1, LeastOf
<1>3. PICK x \in T : u = n - x BY <1>2
<1>4. \A y \in T : x >= y
  <2> SUFFICES ASSUME NEW y \in T PROVE x >= y OBVIOUS
  <2>1. n - y \in U OBVIOUS
  <2>2. u <= n - y BY <1>2, <2>1
  <2> QED BY <1>3, <2>2
<1> HIDE DEF U
<1> QED BY <1>3, <1>4 DEF Announced!Max

LEMMA LastOf ==
    ASSUME NEW n \in Nat
    PROVE  /\ Announced!Max(1..(n + 1)) = n + 1 /\ (1..(n + 1)) \ {n + 1} = 1..n /\ 1..(n + 1) # {}
           /\ \A s \in SUBSET (1..(n + 1)) : s # {} => s \ {Announced!Max(s)} \in SUBSET (1..n)
<1>1. n + 1 \in Nat /\ 1..(n + 1) # {} /\ (1..(n + 1)) \ {n + 1} = 1..n OBVIOUS
<1>2. ASSUME NEW s \in SUBSET (1..(n + 1)), s # {}
      PROVE  Announced!Max(s) \in s /\ \A y \in s : Announced!Max(s) >= y
  BY <1>1, <1>2, GreatestOf
<1>3. Announced!Max(1..(n + 1)) = n + 1
  <2>1. 1..(n + 1) \in SUBSET (1..(n + 1)) /\ n + 1 \in 1..(n + 1) OBVIOUS
  <2>2. Announced!Max(1..(n + 1)) \in 1..(n + 1) /\ Announced!Max(1..(n + 1)) >= n + 1
    BY <1>1, <1>2, <2>1
  <2> QED BY <2>2
<1>4. ASSUME NEW s \in SUBSET (1..(n + 1)), s # {}
      PROVE  s \ {Announced!Max(s)} \in SUBSET (1..n)
  <2>1. Announced!Max(s) \in s /\ \A y \in s : Announced!Max(s) >= y BY <1>2, <1>4
  <2>2. ASSUME NEW y \in s, y # Announced!Max(s) PROVE y \in 1..n
    <3>1. y \in 1..(n + 1) /\ Announced!Max(s) \in 1..(n + 1) /\ y <= Announced!Max(s) BY <2>1
    <3>2. \A a, b \in 1..(n + 1) : a <= b /\ a # b => a \in 1..n OBVIOUS
    <3> QED BY <2>2, <3>1, <3>2
  <2> QED BY <2>2
<1> QED BY <1>1, <1>3, <1>4

\* g goes along the numbers of a set, upwards, from base by the steps F.
Goes(g, F, base, D) ==
    \A s \in D : g[s] = IF s = {} THEN base
                        ELSE F[<<g[s \ {Announced!Max(s)}], Announced!Max(s)>>]

LEMMA GoesOn ==
    ASSUME NEW n \in Nat, NEW V, NEW base \in V, NEW F \in [V \X (1..n) -> V]
    PROVE  \E g \in [SUBSET (1..n) -> V] : Goes(g, F, base, SUBSET (1..n))
<1> DEFINE Is(k) == \E g \in [SUBSET (1..k) -> V] : Goes(g, F, base, SUBSET (1..k))
           Bad == {k \in Nat : k <= n /\ ~Is(k)}
           top(s) == Announced!Max(s)
<1>1. Is(0)
  <2> DEFINE g == [s \in SUBSET (1..0) |-> base]
  <2>1. g \in [SUBSET (1..0) -> V] OBVIOUS
  <2>2. \A s \in SUBSET (1..0) : s = {} /\ g[s] = base OBVIOUS
  <2> HIDE DEF g
  <2>3. Goes(g, F, base, SUBSET (1..0)) BY <2>2 DEF Goes
  <2> QED BY <2>1, <2>3
<1>2. ASSUME NEW k \in Nat, k + 1 <= n, Is(k) PROVE Is(k + 1)
  <2>1. PICK g \in [SUBSET (1..k) -> V] : Goes(g, F, base, SUBSET (1..k)) BY <1>2
  <2> DEFINE h == [s \in SUBSET (1..(k + 1)) |-> IF s = {} THEN base ELSE F[<<g[s \ {top(s)}], top(s)>>]]
  <2>2. \A s \in SUBSET (1..(k + 1)) : s # {} => s \ {top(s)} \in SUBSET (1..k) /\ top(s) \in 1..n
    <3> SUFFICES ASSUME NEW s \in SUBSET (1..(k + 1)), s # {}
                 PROVE  s \ {top(s)} \in SUBSET (1..k) /\ top(s) \in 1..n
      OBVIOUS
    <3>1. k + 1 \in Nat OBVIOUS
    <3>2. top(s) \in s BY <3>1, GreatestOf
    <3>3. s \ {top(s)} \in SUBSET (1..k) BY LastOf
    <3>4. 1..(k + 1) \subseteq 1..n BY <1>2
    <3>5. top(s) \in 1..n
      <4> HIDE DEF top
      <4> QED BY <3>2, <3>4
    <3> QED BY <3>3, <3>5
  <2> HIDE DEF top
  <2>3. h \in [SUBSET (1..(k + 1)) -> V]
    <3>1. ASSUME NEW s \in SUBSET (1..(k + 1)) PROVE h[s] \in V
      <4>1. CASE s = {} BY <4>1
      <4>2. CASE s # {}
        <5>1. g[s \ {top(s)}] \in V /\ top(s) \in 1..n BY <2>2, <4>2
        <5> QED BY <4>2, <5>1
      <4> QED BY <4>1, <4>2
    <3> QED BY <3>1
  <2>4. ASSUME NEW s \in SUBSET (1..k) PROVE s \in SUBSET (1..(k + 1)) /\ h[s] = g[s]
    <3>1. s \in SUBSET (1..(k + 1)) OBVIOUS
    <3>2. g[s] = IF s = {} THEN base ELSE F[<<g[s \ {top(s)}], top(s)>>]
      BY <2>1 DEF Goes, top
    <3> QED BY <3>1, <3>2
  <2>5. ASSUME NEW s \in SUBSET (1..(k + 1))
        PROVE  h[s] = IF s = {} THEN base ELSE F[<<h[s \ {top(s)}], top(s)>>]
    <3>1. h[s] = IF s = {} THEN base ELSE F[<<g[s \ {top(s)}], top(s)>>] OBVIOUS
    <3>2. s # {} => h[s \ {top(s)}] = g[s \ {top(s)}] BY <2>2, <2>4
    <3> HIDE DEF h
    <3> QED BY <3>1, <3>2
  <2> HIDE DEF h
  <2>6. Goes(h, F, base, SUBSET (1..(k + 1))) BY <2>5 DEF Goes, top
  <2> QED BY <2>3, <2>6
<1> HIDE DEF Is
<1>3. Bad = {}
  <2> SUFFICES ASSUME Bad # {} PROVE FALSE OBVIOUS
  <2>1. PICK k \in Bad : \A m \in Bad : k <= m BY LeastOf
  <2>2. k # 0 BY <1>1, <2>1
  <2>3. k - 1 \in Nat /\ ~(k <= k - 1) /\ (k - 1) + 1 <= n /\ k - 1 <= n /\ (k - 1) + 1 = k
    BY <2>1, <2>2
  <2>4. Is(k - 1) BY <2>1, <2>3
  <2>5. Is((k - 1) + 1) BY <1>2, <2>3, <2>4
  <2> QED BY <2>1, <2>3, <2>5
<1>4. Is(n)
  <2>1. n <= n OBVIOUS
  <2> QED BY <1>3, <2>1
<1> QED BY <1>4 DEF Is

LEMMA JoinIs ==
    ASSUME NEW a \in Seq(Nat), NEW b \in Seq(Nat)
    PROVE  a \o b \in Seq(Nat) /\ Len(a \o b) = Len(a) + Len(b)
BY ConcatProperties

LEMMA PutIs ==
    ASSUME NEW m \in Seq(Nat), NEW n \in Nat
    PROVE  /\ Announced!PutLength(m, n) \in Seq(Nat)
           /\ Len(Announced!PutLength(m, n)) = Len(m) + Announced!alignment(Len(m)) + 4
           /\ Announced!PutCounted(m, n) \in Seq(Nat)
           /\ Len(Announced!PutCounted(m, n)) = Len(m) + Announced!alignment(Len(m)) + 4 + n
<1> DEFINE k == CHOOSE k \in 0..3 : (Len(m) + k) % 4 = 0
           z(j) == Announced!Zeros(j)
<1>1. Len(m) \in Nat OBVIOUS
<1>2. k \in 0..3 /\ k = Announced!alignment(Len(m))
  <2> DEFINE a == (4 - (Len(m) % 4)) % 4
  <2>1. \A l \in Nat : /\ (4 - (l % 4)) % 4 \in 0..3 /\ (l + ((4 - (l % 4)) % 4)) % 4 = 0
                       /\ \A j \in 0..3 : (l + j) % 4 = 0 => j = (4 - (l % 4)) % 4
    OBVIOUS
  <2>2. a \in 0..3 /\ (Len(m) + a) % 4 = 0 /\ \A j \in 0..3 : (Len(m) + j) % 4 = 0 => j = a
    BY <1>1, <2>1
  <2> HIDE DEF a
  <2>3. k = a BY <2>2
  <2> QED BY <2>2, <2>3 DEF a, Announced!alignment
<1> HIDE DEF k
<1>3. \A j \in Nat : z(j) \in Seq(Nat) /\ Len(z(j)) = j BY DEF Announced!Zeros
<1> HIDE DEF z
<1>4. /\ <<n, 0, 0, 0>> \in Seq(Nat) /\ Len(<<n, 0, 0, 0>>) = 4 OBVIOUS
<1>5. /\ m \o z(k) \o <<n, 0, 0, 0>> \in Seq(Nat)
      /\ Len(m \o z(k) \o <<n, 0, 0, 0>>) = Len(m) + k + 4
  <2>1. k \in Nat BY <1>2
  <2> DEFINE w == z(k)
             f == <<n, 0, 0, 0>>
             v == m \o w
  <2>2. w \in Seq(Nat) /\ Len(w) = k BY <1>3, <2>1
  <2>3. f \in Seq(Nat) /\ Len(f) = 4 BY <1>4
  <2> HIDE DEF w, f
  <2>4. v \in Seq(Nat) /\ Len(v) = Len(m) + k BY <2>2, JoinIs
  <2> HIDE DEF v
  <2>5. v \o f \in Seq(Nat) /\ Len(v \o f) = Len(m) + k + 4 BY <2>3, <2>4, JoinIs
  <2> QED BY <2>5 DEF v, w, f
<1>6. Announced!PutLength(m, n) = m \o z(k) \o <<n, 0, 0, 0>> BY DEF Announced!PutLength, k, z
<1>7. Announced!PutCounted(m, n) = Announced!PutLength(m, n) \o z(n) BY DEF Announced!PutCounted, z
<1>8. /\ Announced!PutCounted(m, n) \in Seq(Nat)
      /\ Len(Announced!PutCounted(m, n)) = Len(m) + k + 4 + n
  <2>1. k \in Nat BY <1>2
  <2> DEFINE q == Announced!PutLength(m, n)
  <2>2. q \in Seq(Nat) /\ Len(q) = Len(m) + k + 4 /\ Len(q) \in Nat BY <1>1, <1>5, <1>6, <2>1
  <2> HIDE DEF q
  <2> DEFINE w == z(n)
  <2>3. q \o w \in Seq(Nat) /\ Len(q \o w) = Len(q) + n
    <3>1. w \in Seq(Nat) /\ Len(w) = n BY <1>3
    <3> HIDE DEF w
    <3> QED BY <2>2, <3>1, JoinIs
  <2> QED BY <1>7, <2>2, <2>3 DEF q
<1> QED BY <1>2, <1>5, <1>6, <1>8

LEMMA AnnouncedIs ==
    ASSUME NEW p, NEW at, p.propagate
    PROVE  LET n == at + 4 + Announced!alignment(at) + p.name + 1
           IN  Announced!serialized_size(p, at) =
                   (n + 4 + Announced!alignment(n) + p.value + (IF binary THEN 0 ELSE 1)) - at
BY DEF Announced!serialized_size

\* What a property adds to a message is what it adds to the announced size.
LEMMA PropertyPut ==
    ASSUME NEW m \in Seq(Nat), NEW p \in Announced!Property
    PROVE  /\ Announced!serialized_size(p, Len(m)) \in Nat
           /\ Announced!PutProperty(m, p) \in Seq(Nat)
           /\ Len(Announced!PutProperty(m, p)) = Len(m) + Announced!serialized_size(p, Len(m))
           /\ ~p.propagate => Announced!serialized_size(p, Len(m)) = 0
<1>1. Len(m) \in Nat /\ p.name \in Nat /\ p.value \in Nat 
  <2>1. p.name \in Size /\ p.value \in Size BY DEF Announced!Property
  <2>2. Len(m) \in Nat OBVIOUS
  <2>3. Size \subseteq Nat BY PropertyAssumption
  <2> QED BY <2>1, <2>2, <2>3, Zenon
<1>2. CASE ~p.propagate BY <1>1, <1>2 DEF Announced!PutProperty, Announced!serialized_size
<1>3. CASE p.propagate
  <2> DEFINE b == IF binary THEN 0 ELSE 1
             q == Announced!PutCounted(m, p.name + 1)
  <2>1. b \in Nat /\ p.name + 1 \in Nat /\ p.value + b \in Nat BY <1>1
  <2> HIDE DEF b
  <2>2. q \in Seq(Nat) /\ Len(q) = Len(m) + Announced!alignment(Len(m)) + 4 + (p.name + 1)
    BY <2>1, PutIs
  <2> HIDE DEF q
  <2>3. /\ Announced!PutCounted(q, p.value + b) \in Seq(Nat)
        /\ Len(Announced!PutCounted(q, p.value + b)) = Len(q) + Announced!alignment(Len(q)) + 4 + (p.value + b)
    BY <2>1, <2>2, PutIs
  <2>4. Announced!PutProperty(m, p) = Announced!PutCounted(q, p.value + b)
    BY <1>3 DEF Announced!PutProperty, q, b
  <2>5. \A l \in Nat : Announced!alignment(l) \in Nat BY DEF Announced!alignment
  <2> DEFINE n == Len(m) + 4 + Announced!alignment(Len(m)) + p.name + 1
  <2>6. Announced!serialized_size(p, Len(m)) = (n + 4 + Announced!alignment(n) + p.value + b) - Len(m)
    BY <1>3, AnnouncedIs DEF b
  <2>7. n = Len(q) /\ n \in Nat
    <3>1. Announced!alignment(Len(m)) \in Nat BY <1>1, <2>5
    <3> DEFINE a == Announced!alignment(Len(m))
               l == Len(m)
    <3>2. l \in Nat /\ a \in Nat /\ Len(q) = l + a + 4 + (p.name + 1) BY <1>1, <2>2, <3>1
    <3> HIDE DEF a, l
    <3>3. l + 4 + a + p.name + 1 = Len(q) /\ l + 4 + a + p.name + 1 \in Nat BY <1>1, <3>2
    <3> QED BY <3>3 DEF a, l
  <2> HIDE DEF n
  <2>8. /\ Announced!alignment(n) \in Nat /\ Announced!alignment(Len(m)) \in Nat BY <1>1, <2>5, <2>7
  <2>9. n >= Len(m)
    BY <1>1, <2>8 DEF n
  <2> DEFINE a == Announced!alignment(n)
             l == Len(m)
  <2> HIDE DEF a, l
  <2>10. /\ Announced!serialized_size(p, l) = (n + 4 + a + p.value + b) - l
         /\ Len(Announced!PutProperty(m, p)) = n + a + 4 + (p.value + b)
         /\ n \in Nat /\ a \in Nat /\ l \in Nat /\ n >= l
    BY <1>1, <2>3, <2>4, <2>6, <2>7, <2>8, <2>9 DEF a, l
  <2>11. /\ Announced!serialized_size(p, l) \in Nat
         /\ Len(Announced!PutProperty(m, p)) = l + Announced!serialized_size(p, l)
    <3> DEFINE v == p.value
               size == Announced!serialized_size(p, l)
               after == Len(Announced!PutProperty(m, p))
    <3>1. /\ size = (n + 4 + a + v + b) - l /\ after = n + a + 4 + (v + b)
          /\ n \in Nat /\ a \in Nat /\ l \in Nat /\ n >= l /\ v \in Nat /\ b \in Nat
      BY <1>1, <2>1, <2>10, Zenon
    <3> HIDE DEF v, size, after
    <3>2. (n + 4 + a + v + b) - l \in Nat /\ n + a + 4 + (v + b) = l + ((n + 4 + a + v + b) - l)
      BY ONLY <3>1
    <3>3. size \in Nat /\ after = l + size BY ONLY <3>1, <3>2, Zenon
    <3> QED BY <3>3 DEF size, after
  <2>12. l = Len(m) BY DEF l
  <2>13. Announced!PutProperty(m, p) \in Seq(Nat) BY <2>3, <2>4, Zenon
  <2> QED BY <1>3, <2>11, <2>12, <2>13, Zenon
<1> QED BY <1>2, <1>3

\* The folds of the announced size and of the message, as functions that go along the
\* properties.
Announces(g, at) ==
    g = [s \in SUBSET DOMAIN props |->
            IF s = {} THEN at + 4 + Announced!alignment(at)
            ELSE LET x == Announced!Max(s)
                 IN  g[s \ {x}] + Announced!serialized_size(props[x], g[s \ {x}])]
Writes(g, at) ==
    g = [s \in SUBSET DOMAIN props |->
            IF s = {} THEN Announced!PutLength(Announced!Zeros(at), Len(props))
            ELSE LET x == Announced!Max(s) IN Announced!PutProperty(g[s \ {x}], props[x])]

LEMMA FoldsAre ==
    ASSUME NEW at
    PROVE  /\ Announced!TotalSize(at) = (CHOOSE g : Announces(g, at))[DOMAIN props] - at
           /\ Announced!Message(at) = (CHOOSE g : Writes(g, at))[DOMAIN props]
<1>1. Announced!TotalSize(at) = (CHOOSE g : Announces(g, at))[DOMAIN props] - at
  BY DEF Announced!TotalSize, Announced!FoldLeft, Announced!MapThenFoldSet, Announces
<1>2. Announced!Message(at) = (CHOOSE g : Writes(g, at))[DOMAIN props]
  BY DEF Announced!Message, Announced!FoldLeft, Announced!MapThenFoldSet, Writes
<1> QED BY <1>1, <1>2

LEMMA ZerosAre ==
    ASSUME NEW at \in Nat
    PROVE  /\ Announced!Zeros(at) \in Seq(Nat) /\ Len(Announced!Zeros(at)) = at
           /\ \A p \in Announced!Property : Announced!serialized_size(p, at) \in Nat
<1> DEFINE m == Announced!Zeros(at)
<1>1. m \in Seq(Nat) /\ Len(m) = at BY DEF Announced!Zeros
<1> HIDE DEF m
<1>2. \A p \in Announced!Property : Announced!serialized_size(p, Len(m)) \in Nat
  BY <1>1, PropertyPut
<1> QED BY <1>1, <1>2 DEF m

LEMMA PropsAre ==
    ASSUME Announced!TypeOK
    PROVE  \E n \in Nat : /\ props \in [1..n -> Announced!Property] /\ DOMAIN props = 1..n
                          /\ Len(props) = n
<1>1. PICK n \in 0..MaxProps : props \in [1..n -> Announced!Property] BY DEF Announced!TypeOK
<1>2. n \in Nat BY PropertyAssumption
<1>3. DOMAIN props = 1..n BY <1>1
<1>4. Len(props) = n BY <1>1, <1>2
<1> QED BY <1>1, <1>2, <1>3, <1>4

LEMMA SomeAnnounces ==
    ASSUME Announced!TypeOK, NEW at \in Nat
    PROVE  \E g : Announces(g, at)
<1>1. PICK n \in Nat : props \in [1..n -> Announced!Property] /\ DOMAIN props = 1..n BY PropsAre
<1> DEFINE base == at + 4 + Announced!alignment(at)
           F == [x \in Nat \X (1..n) |-> x[1] + Announced!serialized_size(props[x[2]], x[1])]
<1>2. base \in Nat BY DEF Announced!alignment
<1>3. \A l \in Nat : \A i \in 1..n : F[<<l, i>>] = l + Announced!serialized_size(props[i], l) /\ F[<<l, i>>] \in Nat
  <2> SUFFICES ASSUME NEW l \in Nat, NEW i \in 1..n
               PROVE  F[<<l, i>>] = l + Announced!serialized_size(props[i], l) /\ F[<<l, i>>] \in Nat
    OBVIOUS
  <2>1. Announced!serialized_size(props[i], l) \in Nat BY <1>1, ZerosAre
  <2>2. F[<<l, i>>] = l + Announced!serialized_size(props[i], l) OBVIOUS
  <2> QED BY <2>1, <2>2
<1>4. F \in [Nat \X (1..n) -> Nat]
  <2>1. \A x \in Nat \X (1..n) : F[x] \in Nat
    <3> SUFFICES ASSUME NEW x \in Nat \X (1..n) PROVE F[x] \in Nat OBVIOUS
    <3>1. PICK l \in Nat, i \in 1..n : x = <<l, i>> OBVIOUS
    <3> HIDE DEF F
    <3> QED BY <1>3, <3>1
  <2> QED BY <2>1
<1> HIDE DEF base, F
<1>5. PICK g \in [SUBSET (1..n) -> Nat] : Goes(g, F, base, SUBSET (1..n)) BY <1>2, <1>4, GoesOn
<1>6. ASSUME NEW s \in SUBSET (1..n)
      PROVE  g[s] = IF s = {} THEN base
                    ELSE g[s \ {Announced!Max(s)}]
                             + Announced!serialized_size(props[Announced!Max(s)], g[s \ {Announced!Max(s)}])
  <2>1. g[s] = IF s = {} THEN base ELSE F[<<g[s \ {Announced!Max(s)}], Announced!Max(s)>>]
    BY <1>5 DEF Goes
  <2>2. s # {} => Announced!Max(s) \in 1..n BY GreatestOf
  <2>3. g[s \ {Announced!Max(s)}] \in Nat
    <3>1. s \ {Announced!Max(s)} \in SUBSET (1..n) OBVIOUS
    <3> QED BY <3>1
  <2> QED BY <1>3, <2>1, <2>2, <2>3
<1>7. Announces(g, at)
  <2>1. g = [s \in SUBSET (1..n) |-> g[s]] OBVIOUS
  <2> QED BY <1>1, <1>6, <2>1, Zenon DEF Announces, base
<1> QED BY <1>7

LEMMA SomeWrites ==
    ASSUME Announced!TypeOK, NEW at \in Nat
    PROVE  \E g : Writes(g, at)
<1>1. PICK n \in Nat : /\ props \in [1..n -> Announced!Property] /\ DOMAIN props = 1..n
                       /\ Len(props) = n
  BY PropsAre
<1> DEFINE base == Announced!PutLength(Announced!Zeros(at), Len(props))
           V == Seq(Nat)
           F == [x \in V \X (1..n) |-> Announced!PutProperty(x[1], props[x[2]])]
<1>2. base \in V BY <1>1, ZerosAre, PutIs
<1>3. \A m \in V : \A i \in 1..n : F[<<m, i>>] = Announced!PutProperty(m, props[i]) /\ F[<<m, i>>] \in V
  <2> SUFFICES ASSUME NEW m \in V, NEW i \in 1..n
               PROVE  F[<<m, i>>] = Announced!PutProperty(m, props[i]) /\ F[<<m, i>>] \in V
    OBVIOUS
  <2>1. Announced!PutProperty(m, props[i]) \in V BY <1>1, PropertyPut
  <2> HIDE DEF V
  <2>2. F[<<m, i>>] = Announced!PutProperty(m, props[i]) OBVIOUS
  <2> QED BY <2>1, <2>2
<1> HIDE DEF V
<1>4. F \in [V \X (1..n) -> V]
  <2>1. \A x \in V \X (1..n) : F[x] \in V
    <3> SUFFICES ASSUME NEW x \in V \X (1..n) PROVE F[x] \in V OBVIOUS
    <3>1. PICK m \in V, i \in 1..n : x = <<m, i>> OBVIOUS
    <3> HIDE DEF F
    <3> QED BY <1>3, <3>1
  <2> QED BY <2>1
<1> HIDE DEF base, F
<1>5. PICK g \in [SUBSET (1..n) -> V] : Goes(g, F, base, SUBSET (1..n)) BY <1>2, <1>4, GoesOn
<1>6. ASSUME NEW s \in SUBSET (1..n)
      PROVE  g[s] = IF s = {} THEN base
                    ELSE Announced!PutProperty(g[s \ {Announced!Max(s)}], props[Announced!Max(s)])
  <2>1. g[s] = IF s = {} THEN base ELSE F[<<g[s \ {Announced!Max(s)}], Announced!Max(s)>>]
    BY <1>5 DEF Goes
  <2>2. s # {} => Announced!Max(s) \in 1..n BY GreatestOf
  <2>3. g[s \ {Announced!Max(s)}] \in V
    <3>1. s \ {Announced!Max(s)} \in SUBSET (1..n) OBVIOUS
    <3> QED BY <3>1
  <2> QED BY <1>3, <2>1, <2>2, <2>3
<1>7. Writes(g, at)
  <2>1. g = [s \in SUBSET (1..n) |-> g[s]] OBVIOUS
  <2> QED BY <1>1, <1>6, <2>1, Zenon DEF Writes, base
<1> QED BY <1>7

\* The announced size is that of the message.
LEMMA LayoutIs ==
    ASSUME Announced!TypeOK, NEW at \in Nat
    PROVE  Announced!TotalSize(at) = Len(Announced!Message(at)) - at
<1>1. PICK n \in Nat : /\ props \in [1..n -> Announced!Property] /\ DOMAIN props = 1..n
                       /\ Len(props) = n
  BY PropsAre
<1> DEFINE h == CHOOSE g : Announces(g, at)
           k == CHOOSE g : Writes(g, at)
           base == at + 4 + Announced!alignment(at)
           Along(j) == k[1..j] \in Seq(Nat) /\ h[1..j] = Len(k[1..j])
<1>2. Announces(h, at) BY SomeAnnounces
<1>3. Writes(k, at) BY SomeWrites
<1>4. Announced!TotalSize(at) = h[1..n] - at /\ Announced!Message(at) = k[1..n] BY <1>1, FoldsAre
<1> HIDE DEF h, k
<1>5. ASSUME NEW s \in SUBSET (1..n)
      PROVE  /\ s = {} => h[s] = base /\ k[s] = Announced!PutLength(Announced!Zeros(at), n)
             /\ s # {} => /\ h[s] = h[s \ {Announced!Max(s)}]
                                + Announced!serialized_size(props[Announced!Max(s)], h[s \ {Announced!Max(s)}])
                          /\ k[s] = Announced!PutProperty(k[s \ {Announced!Max(s)}], props[Announced!Max(s)])
  <2>1. h[s] = IF s = {} THEN base
               ELSE h[s \ {Announced!Max(s)}]
                        + Announced!serialized_size(props[Announced!Max(s)], h[s \ {Announced!Max(s)}])
    BY <1>1, <1>2, Zenon DEF Announces
  <2>2. k[s] = IF s = {} THEN Announced!PutLength(Announced!Zeros(at), n)
               ELSE Announced!PutProperty(k[s \ {Announced!Max(s)}], props[Announced!Max(s)])
    BY <1>1, <1>3, Zenon DEF Writes
  <2> HIDE DEF base
  <2> QED BY <2>1, <2>2
<1>6. Along(0)
  <2>1. 1..0 = {} /\ 1..0 \in SUBSET (1..n) OBVIOUS
  <2>2. h[1..0] = base /\ k[1..0] = Announced!PutLength(Announced!Zeros(at), n) BY <1>5, <2>1
  <2>3. /\ Announced!PutLength(Announced!Zeros(at), n) \in Seq(Nat)
        /\ Len(Announced!PutLength(Announced!Zeros(at), n)) = at + Announced!alignment(at) + 4
    BY ZerosAre, PutIs
  <2>4. at + Announced!alignment(at) + 4 = base
    <3>1. Announced!alignment(at) \in Nat BY DEF Announced!alignment
    <3> QED BY <3>1
  <2> HIDE DEF base
  <2> QED BY <2>2, <2>3, <2>4
<1>7. ASSUME NEW j \in Nat, j + 1 <= n, Along(j) PROVE Along(j + 1)
  <2>1. /\ 1..(j + 1) \in SUBSET (1..n) /\ 1..(j + 1) # {}
        /\ Announced!Max(1..(j + 1)) = j + 1 /\ (1..(j + 1)) \ {j + 1} = 1..j
    <3>1. 1..(j + 1) \in SUBSET (1..n)
      <4>1. j + 1 <= n BY <1>7
      <4> QED BY <4>1
    <3>2. 1..(j + 1) # {} /\ Announced!Max(1..(j + 1)) = j + 1 /\ (1..(j + 1)) \ {j + 1} = 1..j
      BY LastOf
    <3> QED BY <3>1, <3>2
  <2>2. j + 1 \in 1..n BY <1>7
  <2> DEFINE m == k[1..j]
             p == props[j + 1]
  <2>3. /\ h[1..(j + 1)] = h[1..j] + Announced!serialized_size(p, h[1..j])
        /\ k[1..(j + 1)] = Announced!PutProperty(m, p)
    BY <1>5, <2>1
  <2>4. m \in Seq(Nat) /\ h[1..j] = Len(m) /\ p \in Announced!Property BY <1>1, <1>7, <2>2
  <2> HIDE DEF m, p, base
  <2>5. /\ Announced!PutProperty(m, p) \in Seq(Nat)
        /\ Len(Announced!PutProperty(m, p)) = Len(m) + Announced!serialized_size(p, Len(m))
        /\ Len(m) \in Nat
    BY <2>4, PropertyPut
  <2> QED BY <2>3, <2>4, <2>5
<1> DEFINE Bad == {j \in Nat : j <= n /\ ~Along(j)}
<1> HIDE DEF Along
<1>8. Bad = {}
  <2> SUFFICES ASSUME Bad # {} PROVE FALSE OBVIOUS
  <2>1. PICK j \in Bad : \A i \in Bad : j <= i BY LeastOf
  <2>2. j # 0 BY <1>6, <2>1
  <2>3. j - 1 \in Nat /\ ~(j <= j - 1) /\ (j - 1) + 1 <= n /\ j - 1 <= n /\ (j - 1) + 1 = j
    BY <2>1, <2>2
  <2>4. Along(j - 1) BY <2>1, <2>3
  <2>5. Along((j - 1) + 1) BY <1>7, <2>3, <2>4
  <2> QED BY <2>1, <2>3, <2>5
<1>9. Along(n)
  <2>1. n <= n OBVIOUS
  <2> QED BY <1>8, <2>1
<1> QED BY <1>1, <1>4, <1>9 DEF Along

LEMMA PropertyInductive ==
    /\ Announced!Init => Announced!TypeOK
    /\ Announced!TypeOK /\ [Announced!Next]_properties => Announced!TypeOK'
<1>1. ASSUME Announced!Init PROVE Announced!TypeOK
  <2>1. props = <<>> /\ binary \in BOOLEAN BY <1>1 DEF Announced!Init
  <2>2. 0 \in 0..MaxProps BY PropertyAssumption
  <2>3. props \in [1..0 -> Announced!Property] /\ DOMAIN props = {} BY <2>1
  <2> QED BY <2>1, <2>2, <2>3 DEF Announced!TypeOK
<1>2. ASSUME Announced!TypeOK, [Announced!Next]_properties PROVE Announced!TypeOK'
  <2>1. PICK n \in 0..MaxProps : props \in [1..n -> Announced!Property]
    BY <1>2 DEF Announced!TypeOK
  <2>2. /\ n \in Nat /\ DOMAIN props = 1..n /\ binary \in BOOLEAN
        /\ \A i \in 1..n : props[i] \in Announced!Property
    BY <1>2, <2>1, PropertyAssumption DEF Announced!TypeOK
  <2> DEFINE Good == Announced!Property
  <2>3. props \in [1..n -> Good] BY <2>1, <2>2
  <2>4. ASSUME NEW m \in 0..MaxProps, props' \in [1..m -> Good], binary' = binary PROVE Announced!TypeOK'
    <3>1. binary' \in BOOLEAN BY <2>2, <2>4
    <3>2. props' \in [1..m -> Announced!Property] /\ DOMAIN props' = 1..m BY <2>4
    <3> QED BY <3>1, <3>2 DEF Announced!TypeOK
  <2>5. ASSUME NEW i \in 1..n, NEW p \in Good, binary' = binary, props' = [props EXCEPT ![i] = p]
        PROVE  Announced!TypeOK'
    <3>1. props' \in [1..n -> Good]
      <4> HIDE DEF Good
      <4> QED BY <2>3, <2>5
    <3> QED BY <2>1, <2>4, <2>5, <3>1
  <2>6. ASSUME NEW p \in Good, NEW s \in Size
        PROVE  /\ [p EXCEPT !.name = s] \in Good /\ [p EXCEPT !.value = s] \in Good
               /\ \A f \in BOOLEAN : [p EXCEPT !.propagate = f] \in Good
    BY DEF Announced!Property
  <2>7. ASSUME NEW a \in Size, NEW v \in Size, Announced!Construct(a, v) PROVE Announced!TypeOK'
    <3>1. Announced!Made(a, v) \in Good BY DEF Announced!Made, Announced!Property
    <3>2. 0 \in Size BY PropertyAssumption
    <3>3. PICK p \in Good : props' = Append(props, p)
      <4>1. [Announced!Made(a, v) EXCEPT !.propagate = TRUE] \in Good
        BY <2>6, <3>1, <3>2
      <4> QED BY <2>7, <3>1, <4>1 DEF Announced!Construct
    <3>4. Len(props) = n /\ Len(props) < MaxProps /\ binary' = binary
      BY <2>1, <2>2, <2>7 DEF Announced!Construct
    <3>5. n + 1 \in 0..MaxProps BY <2>2, <3>4, PropertyAssumption
    <3>6. props' \in [1..(n + 1) -> Good]
      <4> HIDE DEF Good
      <4>1. props \in Seq(Good) BY <2>2, <2>3
      <4>2. Append(props, p) \in Seq(Good) /\ Len(Append(props, p)) = n + 1
        BY <3>4, <4>1, AppendProperties
      <4> DEFINE q == Append(props, p)
      <4> HIDE DEF q
      <4>3. q \in Seq(Good) /\ Len(q) = n + 1 BY <4>2 DEF q
      <4>4. q \in [1..Len(q) -> Good] BY <4>3, LenProperties
      <4> QED BY <3>3, <4>3, <4>4, Zenon DEF q
    <3> QED BY <2>4, <3>4, <3>5, <3>6
  <2>8. ASSUME NEW i \in 1..n, NEW s \in Size, Announced!SetName(i, s) \/ Announced!SetValue(i, s)
        PROVE  Announced!TypeOK'
    <3>1. props[i] \in Good BY <2>3
    <3>2. \/ props' = [props EXCEPT ![i] = [props[i] EXCEPT !.name = s]]
          \/ props' = [props EXCEPT ![i] = [props[i] EXCEPT !.value = s]]
      BY <2>8 DEF Announced!SetName, Announced!SetValue
    <3>3. binary' = binary BY <2>8 DEF Announced!SetName, Announced!SetValue
    <3> HIDE DEF Good
    <3> QED BY <2>5, <2>6, <3>1, <3>2, <3>3
  <2>9. ASSUME NEW i \in 1..n, NEW f \in BOOLEAN, Announced!SetPropagate(i, f) PROVE Announced!TypeOK'
    <3>1. props[i] \in Good /\ 0 \in Size BY <2>3, PropertyAssumption
    <3>2. binary' = binary /\ props' = [props EXCEPT ![i].propagate = f]
      BY <2>9 DEF Announced!SetPropagate
    <3>3. props' = [props EXCEPT ![i] = [props[i] EXCEPT !.propagate = f]]
      BY <2>1, <3>2
    <3> HIDE DEF Good
    <3> QED BY <2>5, <2>6, <3>1, <3>2, <3>3
  <2>10. ASSUME NEW i \in 1..n, NEW j \in 1..n, Announced!Assign(i, j) PROVE Announced!TypeOK'
    <3>1. props[j] \in Good BY <2>3
    <3> HIDE DEF Good
    <3> QED BY <2>5, <2>10, <3>1 DEF Announced!Assign
  <2>11. ASSUME NEW i \in 1..n, NEW j \in 1..n, Announced!Move(i, j), ~binary PROVE Announced!TypeOK'
    <3>1. /\ i # j /\ binary' = binary
          /\ props' = [props EXCEPT ![i] = props[j], ![j].name = 0, ![j].value = 0]
      BY <2>11 DEF Announced!Move
    <3> DEFINE left == [[props[j] EXCEPT !.name = 0] EXCEPT !.value = 0]
    <3>2. props[j] \in Good /\ 0 \in Size BY <2>3, PropertyAssumption
    <3>3. [props[j] EXCEPT !.name = 0] \in Good
      <4> HIDE DEF Good
      <4> QED BY <2>6, <3>2
    <3>4. left \in Good
      <4> HIDE DEF Good
      <4> QED BY <2>6, <3>2, <3>3
    <3>5. props' = [k \in 1..n |-> IF k = j THEN left ELSE IF k = i THEN props[j] ELSE props[k]]
      BY <2>1, <3>1
    <3> HIDE DEF left, Good
    <3>6. props' \in [1..n -> Good] BY <2>3, <3>2, <3>4, <3>5
    <3> QED BY <2>1, <2>4, <3>1, <3>6
  <2>12. CASE UNCHANGED properties BY <2>1, <2>3, <2>4, <2>12 DEF properties
  <2> QED BY <1>2, <2>2, <2>7, <2>8, <2>9, <2>10, <2>11, <2>12 DEF Announced!Next, Announced!Move
<1> QED BY <1>1, <1>2

\* Buffers fit their properties and stacks their requests, for any sizes.
THEOREM SizesAlwaysFit == PartsSpec => []SizesFit
<1> DEFINE Inv == (part = "property" => Announced!TypeOK) /\ (part = "stack" => StackInv)
<1>1. PartsInit => Inv BY PropertyInductive, StackInductive DEF PartsInit
<1>2. Inv /\ [PartsNext]_parts => Inv'
  <2>1. [PartsNext]_parts => /\ part' = part
                             /\ part = "property" => [Announced!Next]_properties
                             /\ part = "stack" => [Stacks!Next]_stacks
    BY DEF PartsNext, parts
  <2> QED BY <2>1, PropertyInductive, StackInductive
<1>3. Inv => SizesFit
  <2>1. ASSUME Announced!TypeOK PROVE Announced!SizeIsLayout
    <3>1. \A at \in 0..4 : at \in Nat OBVIOUS
    <3> QED BY <2>1, <3>1, LayoutIs DEF Announced!SizeIsLayout
  <2> QED BY <2>1 DEF SizesFit, StackInv
<1> QED BY <1>1, <1>2, <1>3, PTL DEF PartsSpec

-----------------------------------------------------------------------------
(***************************************************************************)
(* The order of GUIDs, for any numbers of octets: memcmp compares rows of  *)
(* octets, and a row in front of another decides before it is looked at.   *)
(***************************************************************************)

\* The octets before the first difference of two rows are equal, and memcmp
\* subtracts the octets there.
LEMMA FirstDifference ==
    ASSUME NEW n \in Nat, NEW x \in [1..n -> Int], NEW y \in [1..n -> Int], x # y
    PROVE  \E i \in 1..n : /\ x[i] # y[i] /\ \A k \in 1..n : k < i => x[k] = y[k]
                           /\ Guids!memcmp(x, y) = x[i] - y[i]
<1> DEFINE D == Guids!Differ(x, y)
<1>1. D = {i \in 1..n : x[i] # y[i]} BY DEF Guids!Differ
<1> HIDE DEF D
<1>2. D # {} /\ D \in SUBSET Nat
  <2>1. \E i \in 1..n : x[i] # y[i] OBVIOUS
  <2>2. D # {} BY <1>1, <2>1
  <2>3. D \in SUBSET Nat BY <1>1
  <2> QED BY <2>2, <2>3
<1>3. PICK i \in D : \A k \in D : i <= k BY <1>2, LeastOf
<1>4. (CHOOSE j \in D : \A k \in D : j <= k) = i
  <2> DEFINE c == CHOOSE j \in D : \A k \in D : j <= k
  <2>1. c \in D /\ \A k \in D : c <= k BY <1>3
  <2> HIDE DEF c
  <2>2. c \in Nat /\ i \in Nat /\ c <= i /\ i <= c BY <1>2, <1>3, <2>1
  <2>3. c = i BY <2>2
  <2> QED BY <2>3 DEF c
<1>5. Guids!memcmp(x, y) = x[i] - y[i] BY <1>4 DEF Guids!memcmp, D
<1>6. ASSUME NEW k \in 1..n, k < i PROVE x[k] = y[k]
  <2>1. k \notin D BY <1>1, <1>3, <1>6
  <2> QED BY <1>1, <2>1
<1> QED BY <1>1, <1>3, <1>5, <1>6

\* What memcmp says is the difference at the first difference, wherever that is.
LEMMA MemcmpIs ==
    ASSUME NEW n \in Nat, NEW x \in [1..n -> Int], NEW y \in [1..n -> Int],
           NEW i \in 1..n, x[i] # y[i], \A k \in 1..n : k < i => x[k] = y[k]
    PROVE  Guids!memcmp(x, y) = x[i] - y[i]
<1>1. x # y OBVIOUS
<1>2. PICK j \in 1..n : /\ x[j] # y[j] /\ \A k \in 1..n : k < j => x[k] = y[k]
                        /\ Guids!memcmp(x, y) = x[j] - y[j]
  BY <1>1, FirstDifference
<1>3. j = i BY <1>2
<1> QED BY <1>2, <1>3

\* memcmp is 0 for equal rows only, and the two ways round have opposite signs.
LEMMA MemcmpRules ==
    ASSUME NEW n \in Nat, NEW x \in [1..n -> Int], NEW y \in [1..n -> Int]
    PROVE  /\ Guids!memcmp(x, y) \in Int
           /\ Guids!memcmp(x, y) = 0 <=> x = y
           /\ Guids!memcmp(y, x) = 0 - Guids!memcmp(x, y)
<1>1. CASE x = y BY <1>1 DEF Guids!memcmp
<1>2. CASE x # y
  <2>1. PICK i \in 1..n : /\ x[i] # y[i] /\ \A k \in 1..n : k < i => x[k] = y[k]
                          /\ Guids!memcmp(x, y) = x[i] - y[i]
    BY <1>2, FirstDifference
  <2>2. y[i] # x[i] /\ \A k \in 1..n : k < i => y[k] = x[k] BY <2>1
  <2>3. Guids!memcmp(y, x) = y[i] - x[i] BY <2>2, MemcmpIs
  <2>4. x[i] \in Int /\ y[i] \in Int OBVIOUS
  <2> QED BY <1>2, <2>1, <2>3, <2>4
<1> QED BY <1>1, <1>2

\* Two rows one after the other, of any numbers.
LEMMA RowsJoin ==
    ASSUME NEW n \in Nat, NEW m \in Nat, NEW x \in [1..n -> Int], NEW u \in [1..m -> Int]
    PROVE  /\ x \o u \in Seq(Int) /\ Len(x \o u) = n + m
           /\ \A i \in 1..(n + m) : (x \o u)[i] = IF i <= n THEN x[i] ELSE u[i - n]
<1>1. x \in Seq(Int) /\ u \in Seq(Int) OBVIOUS
<1>2. Len(x) = n /\ Len(u) = m BY <1>1, LenProperties
<1>3. /\ x \o u \in Seq(Int) /\ Len(x \o u) = Len(x) + Len(u)
      /\ \A i \in 1..(Len(x) + Len(u)) : (x \o u)[i] = IF i <= Len(x) THEN x[i] ELSE u[i - Len(x)]
  BY <1>1, ConcatProperties
<1> QED BY <1>2, <1>3

\* A row that is put in front decides first.
LEMMA MemcmpOfRows ==
    ASSUME NEW n \in Nat, NEW m \in Nat, NEW x \in [1..n -> Int], NEW y \in [1..n -> Int],
           NEW u \in [1..m -> Int], NEW v \in [1..m -> Int]
    PROVE  Guids!memcmp(x \o u, y \o v) =
               IF x = y THEN Guids!memcmp(u, v) ELSE Guids!memcmp(x, y)
<1> DEFINE p == x \o u
           q == y \o v
<1>3. /\ p \in Seq(Int) /\ Len(p) = n + m
      /\ \A i \in 1..(n + m) : p[i] = IF i <= n THEN x[i] ELSE u[i - n]
  BY RowsJoin
<1>4. /\ q \in Seq(Int) /\ Len(q) = n + m
      /\ \A i \in 1..(n + m) : q[i] = IF i <= n THEN y[i] ELSE v[i - n]
  BY RowsJoin
<1> HIDE DEF p, q
<1>5. p \in [1..(n + m) -> Int] /\ q \in [1..(n + m) -> Int] /\ n + m \in Nat
  BY <1>3, <1>4, LenProperties
<1>6. ASSUME x # y PROVE Guids!memcmp(p, q) = Guids!memcmp(x, y)
  <2>1. PICK i \in 1..n : /\ x[i] # y[i] /\ \A k \in 1..n : k < i => x[k] = y[k]
                          /\ Guids!memcmp(x, y) = x[i] - y[i]
    BY <1>6, FirstDifference
  <2>2. i \in 1..(n + m) /\ p[i] = x[i] /\ q[i] = y[i] BY <1>3, <1>4
  <2>3. \A k \in 1..(n + m) : k < i => p[k] = q[k] BY <1>3, <1>4, <2>1
  <2>4. Guids!memcmp(p, q) = p[i] - q[i] BY <1>5, <2>1, <2>2, <2>3, MemcmpIs
  <2> QED BY <2>1, <2>2, <2>4
<1>7. ASSUME x = y, u # v PROVE Guids!memcmp(p, q) = Guids!memcmp(u, v)
  <2>1. PICK i \in 1..m : /\ u[i] # v[i] /\ \A k \in 1..m : k < i => u[k] = v[k]
                          /\ Guids!memcmp(u, v) = u[i] - v[i]
    BY <1>7, FirstDifference
  <2>2. n + i \in 1..(n + m) /\ p[n + i] = u[i] /\ q[n + i] = v[i]
    <3>1. n + i \in 1..(n + m) /\ ~(n + i <= n) /\ (n + i) - n = i OBVIOUS
    <3> QED BY <1>3, <1>4, <3>1
  <2>3. ASSUME NEW k \in 1..(n + m), k < n + i PROVE p[k] = q[k]
    <3>1. CASE k <= n BY <1>3, <1>4, <1>7, <3>1
    <3>2. CASE ~(k <= n)
      <4>1. k - n \in 1..m /\ k - n < i BY <2>3, <3>2
      <4> QED BY <1>3, <1>4, <2>1, <3>2, <4>1
    <3> QED BY <3>1, <3>2
  <2>4. Guids!memcmp(p, q) = p[n + i] - q[n + i] BY <1>5, <2>1, <2>2, <2>3, MemcmpIs
  <2> QED BY <2>1, <2>2, <2>4
<1>8. ASSUME x = y, u = v PROVE Guids!memcmp(p, q) = Guids!memcmp(u, v)
  <2>1. p = q BY <1>8 DEF p, q
  <2> QED BY <1>8, <2>1 DEF Guids!memcmp
<1> QED BY <1>6, <1>7, <1>8 DEF p, q

\* The texts of GUIDs are characters.
Char == 0..255
Begins(x, y) == Len(x) <= Len(y) /\ \A j \in 1..Len(x) : y[j] = x[j]

LEMMA CharsJoin ==
    ASSUME NEW x \in Seq(Char), NEW y \in Seq(Char)
    PROVE  x \o y \in Seq(Char) /\ Begins(x, x \o y)
<1>1. x \o y \in Seq(Char) /\ Len(x \o y) = Len(x) + Len(y) BY ConcatProperties
<1>2. \A j \in 1..Len(x) : (x \o y)[j] = x[j] BY ConcatProperties
<1> QED BY <1>1, <1>2 DEF Begins

\* Pieces of text that are joined give a text, which begins with the first of them.
LEMMA TextsJoin ==
    ASSUME NEW n \in Nat, NEW fields \in [1..n -> Seq(Char)]
    PROVE  /\ Guids!FlattenSeq(fields) \in Seq(Char)
           /\ n # 0 => Begins(fields[1], Guids!FlattenSeq(fields))
<1> DEFINE Along(g, k) == \A i \in 1..k : g[i] = IF i = 1 THEN fields[i] ELSE g[i - 1] \o fields[i]
           Is(k) == \E g \in [1..k -> Seq(Char)] : Along(g, k)
           Bad == {k \in Nat : k <= n /\ ~Is(k)}
<1>1. fields \in Seq(Seq(Char)) /\ Len(fields) = n OBVIOUS
<1>2. Is(0)
  <2> DEFINE g == [i \in 1..0 |-> <<>>]
  <2>1. g \in [1..0 -> Seq(Char)] /\ Along(g, 0) OBVIOUS
  <2> QED BY <2>1
<1>3. ASSUME NEW k \in Nat, k + 1 <= n, Is(k) PROVE Is(k + 1)
  <2>1. PICK g \in [1..k -> Seq(Char)] : Along(g, k) BY <1>3
  <2> DEFINE new == IF k = 0 THEN fields[1] ELSE g[k] \o fields[k + 1]
             h == [i \in 1..(k + 1) |-> IF i = k + 1 THEN new ELSE g[i]]
  <2>2. k + 1 \in 1..n /\ 1 \in 1..n BY <1>3
  <2>3. fields[k + 1] \in Seq(Char) /\ fields[1] \in Seq(Char) BY <2>2
  <2>4. k # 0 => g[k] \in Seq(Char) OBVIOUS
  <2>5. new \in Seq(Char) BY <2>3, <2>4, CharsJoin
  <2> HIDE DEF new
  <2>6. h \in [1..(k + 1) -> Seq(Char)] BY <2>5
  <2>7. h[k + 1] = new /\ \A i \in 1..k : h[i] = g[i] OBVIOUS
  <2> HIDE DEF h
  <2>8. ASSUME NEW i \in 1..(k + 1)
        PROVE  h[i] = IF i = 1 THEN fields[i] ELSE h[i - 1] \o fields[i]
    <3>1. CASE i = k + 1
      <4>1. k # 0 => i # 1 /\ i - 1 = k /\ k \in 1..k BY <3>1
      <4> QED BY <2>7, <3>1, <4>1 DEF new
    <3>2. CASE i # k + 1
      <4>1. i \in 1..k /\ (i # 1 => i - 1 \in 1..k) BY <3>2
      <4> QED BY <2>1, <2>7, <4>1
    <3> QED BY <3>1, <3>2
  <2> QED BY <2>6, <2>8
<1> HIDE DEF Is
<1>4. Bad = {}
  <2> SUFFICES ASSUME Bad # {} PROVE FALSE OBVIOUS
  <2>1. PICK k \in Bad : \A m \in Bad : k <= m BY LeastOf
  <2>2. k # 0 BY <1>2, <2>1
  <2>3. k - 1 \in Nat /\ ~(k <= k - 1) /\ (k - 1) + 1 <= n /\ k - 1 <= n /\ (k - 1) + 1 = k
    BY <2>1, <2>2
  <2>4. Is(k - 1) BY <2>1, <2>3
  <2>5. Is((k - 1) + 1) BY <1>3, <2>3, <2>4
  <2> QED BY <2>1, <2>3, <2>5
<1>5. Is(n)
  <2>1. n <= n OBVIOUS
  <2> QED BY <1>4, <2>1
<1>6. CASE n = 0
  <2>1. fields \in Seq(Char) BY <1>6
  <2> QED BY <1>1, <1>6, <2>1 DEF Guids!FlattenSeq
<1>7. CASE n # 0
  <2> DEFINE Def(g) == g = [i \in 1..n |-> IF i = 1 THEN fields[i] ELSE g[i - 1] \o fields[i]]
             f == CHOOSE g : Def(g)
             Good(i) == f[i] \in Seq(Char) /\ Begins(fields[1], f[i])
             Wrong == {i \in Nat : i \in 1..n /\ ~Good(i)}
  <2>1. \E g : Def(g)
    <3>1. PICK g \in [1..n -> Seq(Char)] : Along(g, n) BY <1>5 DEF Is
    <3>2. Def(g) BY <3>1, Zenon
    <3> QED BY <3>2
  <2>2. Def(f) BY <2>1, Zenon
  <2>3. Guids!FlattenSeq(fields) = f[n]
    <3> HIDE DEF f
    <3> QED BY <1>1, <1>7 DEF Guids!FlattenSeq, f
  <2> HIDE DEF f
  <2>4. \A i \in 1..n : f[i] = IF i = 1 THEN fields[i] ELSE f[i - 1] \o fields[i] BY <2>2
  <2> HIDE DEF Def
  <2>5. Wrong = {}
    <3> SUFFICES ASSUME Wrong # {} PROVE FALSE OBVIOUS
    <3>1. PICK i \in Wrong : \A j \in Wrong : i <= j BY LeastOf
    <3>2. i \in 1..n /\ ~Good(i) BY <3>1
    <3>3. fields[i] \in Seq(Char) /\ 1 \in 1..n /\ fields[1] \in Seq(Char) BY <1>7, <3>2
    <3>4. i # 1
      <4>1. Begins(fields[1], fields[1]) BY <3>3 DEF Begins
      <4> QED BY <2>4, <3>2, <3>3, <4>1
    <3>5. i - 1 \in 1..n /\ ~(i <= i - 1) BY <3>2, <3>4
    <3>6. Good(i - 1) BY <3>1, <3>5
    <3>7. f[i - 1] \o fields[i] \in Seq(Char) /\ Begins(f[i - 1], f[i - 1] \o fields[i])
      BY <3>3, <3>6, CharsJoin
    <3>8. f[i] = f[i - 1] \o fields[i] BY <2>4, <3>2, <3>4
    <3>9. f[i] \in Seq(Char) /\ Begins(fields[1], f[i - 1]) /\ Begins(f[i - 1], f[i])
      BY <3>6, <3>7, <3>8
    <3>10. Len(fields[1]) \in Nat /\ Len(f[i - 1]) \in Nat /\ Len(f[i]) \in Nat BY <3>3, <3>6, <3>9
    <3>11. Begins(fields[1], f[i]) BY <3>9, <3>10 DEF Begins
    <3> QED BY <3>2, <3>9, <3>11
  <2>6. n \in 1..n BY <1>7
  <2> QED BY <2>3, <2>5, <2>6
<1> QED BY <1>6, <1>7

\* What is written, and every foreign text, is a row of characters, and what is
\* written is not read: its second character is the second digit of an octet, not a dot.
LEMMA TextsAreTexts ==
    /\ \A g \in Guids!Made : Guids!Write(g) \in Seq(Char) /\ ~Guids!Readable(Guids!Write(g))
    /\ \A c \in Foreign, e \in Foreign : Guids!ForeignText(c, e) \in Seq(Char)
<1>1. ASSUME NEW o \in Char
      PROVE  /\ <<Guids!Digit(o \div 16), Guids!Digit(o % 16)>> \in Seq(Char)
             /\ Guids!Digit(o % 16) # Guids!Dot
             /\ Guids!Shown(o) \in Seq(Char)
  <2>1. o \in Nat /\ o \div 16 \in 0..15 /\ o % 16 \in 0..15 BY DEF Char
  <2>2. \A x \in 0..15 : Guids!Digit(x) \in Char /\ Guids!Digit(x) # Guids!Dot
    BY DEF Guids!Digit, Guids!Dot, Char
  <2>3. Guids!Digit(o \div 16) \in Char /\ Guids!Digit(o % 16) \in Char BY <2>1, <2>2
  <2>4. o < 16 => Guids!Digit(o) \in Char
    <3>1. o < 16 => o \in 0..15 BY <2>1
    <3> QED BY <2>2, <3>1
  <2>5. Guids!Digit(o % 16) # Guids!Dot BY <2>1, <2>2
  <2> QED BY <2>3, <2>4, <2>5 DEF Guids!Shown
<1>2. ASSUME NEW n \in Nat, NEW fields \in [1..n -> Seq(Char)]
      PROVE  /\ Guids!Dotted(fields) \in Seq(Char)
             /\ n # 0 => Begins(fields[1], Guids!Dotted(fields))
  <2> DEFINE r == [i \in DOMAIN fields |-> IF i = 1 THEN fields[i] ELSE <<Guids!Dot>> \o fields[i]]
  <2>1. <<Guids!Dot>> \in Seq(Char) BY DEF Guids!Dot, Char
  <2>2. \A i \in 1..n : fields[i] \in Seq(Char) /\ <<Guids!Dot>> \o fields[i] \in Seq(Char)
    BY <2>1, CharsJoin
  <2>3. r \in [1..n -> Seq(Char)] BY <2>2
  <2>4. n # 0 => r[1] = fields[1]
    <3>1. n # 0 => 1 \in 1..n OBVIOUS
    <3> QED BY <3>1
  <2>5. Guids!Dotted(fields) = Guids!FlattenSeq(r) BY DEF Guids!Dotted
  <2> HIDE DEF r
  <2>6. Guids!FlattenSeq(r) \in Seq(Char) /\ (n # 0 => Begins(r[1], Guids!FlattenSeq(r)))
    BY <2>3, TextsJoin
  <2> QED BY <2>4, <2>5, <2>6
<1>3. <<Guids!Bar>> \in Seq(Char) BY DEF Guids!Bar, Char
<1>4. Prefix \in Nat \ {0} /\ Entity \in Nat \ {0} BY GuidAssumption
<1>5. ASSUME NEW g \in Guids!Made
      PROVE  Guids!Write(g) \in Seq(Char) /\ ~Guids!Readable(Guids!Write(g))
  <2>1. g.prefix \in [1..Prefix -> Char] /\ g.entity \in [1..Entity -> Char]
    <3>1. OctetValues \subseteq Char BY GuidAssumption DEF Char
    <3> QED BY <3>1 DEF Guids!Made
  <2> DEFINE p == [i \in 1..Prefix |-> <<Guids!Digit(g.prefix[i] \div 16), Guids!Digit(g.prefix[i] % 16)>>]
             e == [i \in 1..Entity |-> Guids!Shown(g.entity[i])]
  <2>2. p \in [1..Prefix -> Seq(Char)]
    <3>1. \A i \in 1..Prefix : <<Guids!Digit(g.prefix[i] \div 16), Guids!Digit(g.prefix[i] % 16)>> \in Seq(Char)
      BY <1>1, <2>1
    <3> QED BY <3>1
  <2>3. e \in [1..Entity -> Seq(Char)]
    <3>1. \A i \in 1..Entity : Guids!Shown(g.entity[i]) \in Seq(Char) BY <1>1, <2>1
    <3> QED BY <3>1
  <2> HIDE DEF p, e
  <2>4. Guids!Dotted(p) \in Seq(Char) /\ Guids!Dotted(e) \in Seq(Char) BY <1>2, <1>4, <2>2, <2>3
  <2>5. Guids!Dotted(p) \o <<Guids!Bar>> \in Seq(Char) BY <1>3, <2>4, CharsJoin
  <2>6. (Guids!Dotted(p) \o <<Guids!Bar>>) \o Guids!Dotted(e) \in Seq(Char) BY <2>4, <2>5, CharsJoin
  <2>7. <<Guids!Bar, 71, 85, 73, 68>> \in Seq(Char) BY DEF Guids!Bar, Char
  <2>8. CASE g = Guids!Unknown
    <3>1. Guids!Write(g) = <<Guids!Bar, 71, 85, 73, 68>> BY <2>8 DEF Guids!Write
    <3>2. Guids!CharsOfPrefix + 1 + 2 * (Entity - 1) # 5 BY <1>4 DEF Guids!CharsOfPrefix
    <3>3. Len(<<Guids!Bar, 71, 85, 73, 68>>) = 5 OBVIOUS
    <3> QED BY <2>7, <3>1, <3>2, <3>3 DEF Guids!Readable
  <2>9. CASE g # Guids!Unknown
    <3> DEFINE s == (Guids!Dotted(p) \o <<Guids!Bar>>) \o Guids!Dotted(e)
               pair == <<Guids!Digit(g.prefix[1] \div 16), Guids!Digit(g.prefix[1] % 16)>>
    <3>1. Guids!Write(g) = s BY <2>9 DEF Guids!Write, p, e
    <3>2. 1 \in 1..Prefix /\ p[1] = pair /\ g.prefix[1] \in Char
      <4>1. 1 \in 1..Prefix BY <1>4
      <4>2. p[1] = pair BY <4>1, Zenon DEF p
      <4>3. g.prefix[1] \in Char BY <2>1, <4>1
      <4> QED BY <4>1, <4>2, <4>3
    <3>3. Begins(pair, Guids!Dotted(p))
      <4> HIDE DEF pair
      <4> QED BY <1>2, <1>4, <2>2, <3>2
    <3>4. /\ Begins(Guids!Dotted(p), Guids!Dotted(p) \o <<Guids!Bar>>)
          /\ Begins(Guids!Dotted(p) \o <<Guids!Bar>>, s)
      BY <1>3, <2>4, <2>5, CharsJoin
    <3>5. Len(pair) = 2 /\ pair[2] = Guids!Digit(g.prefix[1] % 16) OBVIOUS
    <3>6. pair[2] # Guids!Dot BY <1>1, <3>2, <3>5
    <3> DEFINE q == Guids!Dotted(p)
               v == q \o <<Guids!Bar>>
    <3>7. Len(q) \in Nat /\ Len(v) \in Nat BY <2>4, <2>5
    <3>8. q[2] = pair[2] /\ 2 <= Len(q)
      <4> HIDE DEF pair, q
      <4> QED BY <3>3, <3>5 DEF Begins, q
    <3>9. v[2] = q[2] /\ 2 <= Len(v)
      <4> HIDE DEF pair, v, q
      <4> QED BY <3>4, <3>7, <3>8 DEF Begins, v, q
    <3>10. s[2] = v[2]
      <4> HIDE DEF pair, v, q, s
      <4> QED BY <3>4, <3>7, <3>9 DEF Begins, v, q
    <3>11. s[2 * 1] # Guids!Dot
      <4> HIDE DEF pair, v, q, s
      <4> QED BY <3>6, <3>8, <3>9, <3>10
    <3> HIDE DEF s
    <3>12. ~Guids!Readable(s) BY <3>2, <3>11 DEF Guids!Readable
    <3> QED BY <2>6, <3>1, <3>12 DEF s
  <2> QED BY <2>8, <2>9
<1>6. ASSUME NEW c \in Foreign, NEW x \in Foreign PROVE Guids!ForeignText(c, x) \in Seq(Char)
  <2> DEFINE p == [i \in 1..(Prefix + 1) |-> <<c>>]
             e == [i \in 1..(Entity - 1) |-> <<Guids!Dot, x>>]
  <2>1. c \in Char /\ x \in Char /\ Prefix + 1 \in Nat /\ Entity - 1 \in Nat
    BY GuidAssumption DEF Char
  <2>2. p \in [1..(Prefix + 1) -> Seq(Char)] BY <2>1
  <2>3. e \in [1..(Entity - 1) -> Seq(Char)]
    <3>1. Guids!Dot \in Char BY DEF Guids!Dot, Char
    <3>2. <<Guids!Dot, x>> \in Seq(Char) BY <2>1, <3>1
    <3> QED BY <3>2
  <2> HIDE DEF p, e
  <2>4. Guids!Dotted(p) \in Seq(Char) /\ Guids!FlattenSeq(e) \in Seq(Char)
    BY <1>2, <2>1, <2>2, <2>3, TextsJoin
  <2>5. Guids!Dotted(p) \o <<Guids!Bar>> \in Seq(Char) BY <1>3, <2>4, CharsJoin
  <2>6. (Guids!Dotted(p) \o <<Guids!Bar>>) \o Guids!FlattenSeq(e) \in Seq(Char)
    BY <2>4, <2>5, CharsJoin
  <2> QED BY <2>6 DEF Guids!ForeignText, p, e
<1> QED BY <1>5, <1>6

\* The invariant: two GUIDs, wherever the second comes from, and it is the unknown one
\* if it comes from a text that was written.
GuidInv == Guids!TypeOK /\ Guids!ReadBackIsUnknown

LEMMA GuidInductive ==
    /\ Guids!Init => GuidInv
    /\ GuidInv /\ [Guids!Next]_guids => GuidInv'
<1>1. Prefix \in Nat /\ Entity \in Nat /\ Entity >= 1 /\ OctetValues \subseteq Char
  BY GuidAssumption DEF Char
<1>2. /\ Guids!GUID = [prefix : [1..Prefix -> Char], entity : [1..Entity -> Char]]
      /\ 0 \in Char /\ \A x \in 48..57 : x - 48 \in Char
  BY DEF Guids!GUID, Char
<1>3. ASSUME NEW s \in Seq(Char) PROVE Guids!Read(s) \subseteq Guids!GUID
  <2>1. Guids!Unknown \in Guids!GUID BY <1>2 DEF Guids!Unknown
  <2>2. ASSUME Guids!Readable(s), NEW junk \in OctetValues
        PROVE  [prefix |-> Guids!ReadPrefix(s),
                entity |-> [i \in 1..Entity |->
                    IF i = 1 THEN junk ELSE s[Guids!CharsOfPrefix + 2 * i - 1] - 48]] \in Guids!GUID
    <3>1. Len(s) = 2 * Prefix + 1 + 1 + 2 * (Entity - 1)
      BY <2>2 DEF Guids!Readable, Guids!CharsOfPrefix
    <3>2. \A i \in 1..Len(s) : s[i] \in Char BY LenProperties
    <3>3. ASSUME NEW i \in 1..Prefix PROVE s[2 * i + 1] \in Char
      <4>1. 2 * i + 1 \in 1..Len(s) BY <1>1, <3>1
      <4> QED BY <3>2, <4>1
    <3>4. ASSUME NEW i \in 1..Entity, i # 1
          PROVE  s[Guids!CharsOfPrefix + 2 * i - 1] - 48 \in Char
      <4>1. i - 1 \in 1..(Entity - 1) BY <1>1, <3>4
      <4>2. s[Guids!CharsOfPrefix + 1 + 2 * (i - 1)] \in 48..57 BY <2>2, <4>1 DEF Guids!Readable
      <4>3. Guids!CharsOfPrefix + 1 + 2 * (i - 1) = Guids!CharsOfPrefix + 2 * i - 1
        BY <1>1 DEF Guids!CharsOfPrefix
      <4> QED BY <1>2, <4>2, <4>3
    <3>5. Guids!ReadPrefix(s) \in [1..Prefix -> Char] BY <3>3 DEF Guids!ReadPrefix
    <3>6. junk \in Char BY <1>1
    <3>7. [i \in 1..Entity |-> IF i = 1 THEN junk ELSE s[Guids!CharsOfPrefix + 2 * i - 1] - 48]
              \in [1..Entity -> Char]
      BY <3>4, <3>6
    <3> QED BY <1>2, <3>5, <3>7
  <2> QED BY <2>1, <2>2 DEF Guids!Read
<1>4. ASSUME NEW s, ~Guids!Readable(s) PROVE Guids!Read(s) = {Guids!Unknown}
  BY <1>4 DEF Guids!Read
<1>5. Guids!Init => GuidInv
  <2>1. Guids!Made \subseteq Guids!GUID BY <1>1, <1>2 DEF Guids!Made
  <2> QED BY <2>1 DEF Guids!Init, GuidInv, Guids!TypeOK, Guids!ReadBackIsUnknown
<1>6. ASSUME GuidInv, [Guids!Next]_guids PROVE GuidInv'
  <2>1. CASE Guids!ReadBack
    <3>1. /\ other' \in Guids!Read(Guids!Write(guid)) /\ from' = "written"
          /\ guid' = guid /\ guid \in Guids!Made
      BY <1>6, <2>1 DEF GuidInv, Guids!TypeOK, Guids!ReadBack
    <3>2. other' = Guids!Unknown BY <1>4, <3>1, TextsAreTexts
    <3>3. other' \in Guids!GUID BY <1>3, <3>1, TextsAreTexts
    <3> QED BY <3>1, <3>2, <3>3 DEF GuidInv, Guids!TypeOK, Guids!ReadBackIsUnknown
  <2>2. ASSUME NEW c \in Foreign, NEW x \in Foreign, Guids!ReadForeign(Guids!ForeignText(c, x))
        PROVE  GuidInv'
    <3>1. /\ other' \in Guids!Read(Guids!ForeignText(c, x)) /\ from' = "foreign"
          /\ guid' = guid /\ guid \in Guids!Made
      BY <1>6, <2>2 DEF GuidInv, Guids!TypeOK, Guids!ReadForeign
    <3>2. other' \in Guids!GUID BY <1>3, <3>1, TextsAreTexts
    <3> QED BY <3>1, <3>2 DEF GuidInv, Guids!TypeOK, Guids!ReadBackIsUnknown
  <2>3. CASE UNCHANGED guids
    BY <1>6, <2>3 DEF GuidInv, Guids!TypeOK, Guids!ReadBackIsUnknown, guids
  <2> QED BY <1>6, <2>1, <2>2, <2>3 DEF Guids!Next
<1> QED BY <1>5, <1>6

\* GUIDs are in one order, which keeps the entities of a process together.
LEMMA GuidsInOrder ==
    ASSUME GuidInv
    PROVE  Guids!OneOrder /\ Guids!ProcessInsideHost
<1>1. /\ Prefix \in Nat /\ Entity \in Nat /\ Host \in Nat /\ Process \in Nat
      /\ Host <= Process /\ Process <= Prefix /\ Process \in 0..Prefix /\ Host \in 0..Prefix
      /\ OctetValues \subseteq Int
  BY GuidAssumption
<1>2. /\ guid.prefix \in [1..Prefix -> Int] /\ other.prefix \in [1..Prefix -> Int]
      /\ guid.entity \in [1..Entity -> Int] /\ other.entity \in [1..Entity -> Int]
  <2>1. guid \in Guids!Made /\ other \in Guids!GUID BY DEF GuidInv, Guids!TypeOK
  <2>2. ASSUME NEW n \in Nat, NEW x \in [1..n -> Char] PROVE x \in [1..n -> Int]
    <3>1. \A i \in 1..n : x[i] \in Int
      <4>1. \A i \in 1..n : x[i] \in Char OBVIOUS
      <4>2. \A k \in Char : k \in Int BY DEF Char
      <4> QED BY ONLY <4>1, <4>2
    <3>2. x = [i \in 1..n |-> x[i]] OBVIOUS
    <3> QED BY ONLY <3>1, <3>2
  <2>3. \A n \in Nat : \A x \in [1..n -> OctetValues] : x \in [1..n -> Int] BY <1>1
  <2>4. guid.prefix \in [1..Prefix -> OctetValues] /\ guid.entity \in [1..Entity -> OctetValues]
    BY <2>1 DEF Guids!Made
  <2>5. other.prefix \in [1..Prefix -> Char] /\ other.entity \in [1..Entity -> Char]
    <3>1. Guids!GUID = [prefix : [1..Prefix -> Char], entity : [1..Entity -> Char]]
      BY DEF Guids!GUID, Char
    <3> QED BY <2>1, <3>1
  <2> QED BY <1>1, <2>2, <2>3, <2>4, <2>5
<1> PICK p \in [1..Prefix -> Int], q \in [1..Prefix -> Int],
         e \in [1..Entity -> Int], f \in [1..Entity -> Int] :
         p = guid.prefix /\ q = other.prefix /\ e = guid.entity /\ f = other.entity
  BY <1>2
<1> DEFINE Fits(x, y) == /\ Guids!memcmp(x, y) \in Int
                         /\ Guids!memcmp(x, y) = 0 <=> x = y
                         /\ Guids!memcmp(y, x) = 0 - Guids!memcmp(x, y)
<1>3. Fits(p, q) /\ Fits(e, f)
  <2>1. ASSUME NEW n \in Nat PROVE \A x \in [1..n -> Int], y \in [1..n -> Int] : Fits(x, y)
    BY MemcmpRules
  <2> HIDE DEF Fits
  <2>2. Prefix \in Nat /\ Entity \in Nat BY <1>1
  <2>3. Fits(p, q) BY ONLY <2>1, <2>2
  <2>4. Fits(e, f) BY ONLY <2>1, <2>2
  <2> QED BY <2>3, <2>4
<1>4. Guids!memcmp(p \o e, q \o f) = IF p = q THEN Guids!memcmp(e, f) ELSE Guids!memcmp(p, q)
  <2> DEFINE One(x, y, u, v) == Guids!memcmp(x \o u, y \o v) =
                       IF x = y THEN Guids!memcmp(u, v) ELSE Guids!memcmp(x, y)
  <2>1. ASSUME NEW n \in Nat, NEW m \in Nat
        PROVE  \A x \in [1..n -> Int], y \in [1..n -> Int] : \A u \in [1..m -> Int], v \in [1..m -> Int] :
                   One(x, y, u, v)
    BY MemcmpOfRows
  <2> HIDE DEF One
  <2>2. Prefix \in Nat /\ Entity \in Nat BY <1>1
  <2>3. One(p, q, e, f) BY ONLY <2>1, <2>2
  <2> QED BY <2>3 DEF One
<1> DEFINE c == Guids!memcmp(p, q)
           d0 == Guids!memcmp(e, f)
<1>5. /\ c \in Int /\ d0 \in Int /\ (c = 0 <=> p = q) /\ (d0 = 0 <=> e = f)
      /\ Guids!Less(guid, other) <=> c < 0 \/ (c = 0 /\ d0 < 0)
      /\ Guids!Less(other, guid) <=> 0 - c < 0 \/ (0 - c = 0 /\ 0 - d0 < 0)
      /\ Guids!NotEqual(guid, other) <=> p # q \/ e # f
  <2>1. c \in Int /\ d0 \in Int /\ (c = 0 <=> p = q) /\ (d0 = 0 <=> e = f) BY <1>3
  <2>2. /\ Guids!Less(guid, other) <=> c < 0 \/ (c = 0 /\ d0 < 0)
        /\ Guids!Less(other, guid) <=> 0 - c < 0 \/ (0 - c = 0 /\ 0 - d0 < 0)
    BY <1>3 DEF Guids!Less
  <2>3. Guids!NotEqual(guid, other) <=> p # q \/ e # f BY DEF Guids!NotEqual
  <2> HIDE DEF c, d0
  <2> QED BY <2>1, <2>2, <2>3
<1> HIDE DEF c, d0, Fits
<1>6. Guids!OneOrder
  <2>1. Guids!Less(guid, other) <=> Guids!memcmp(p \o e, q \o f) < 0 BY <1>3, <1>4, <1>5 DEF c, d0
  <2>2. ~(Guids!Less(guid, other) /\ Guids!Less(other, guid)) BY <1>5
  <2>3. Guids!NotEqual(guid, other) <=> Guids!Less(guid, other) \/ Guids!Less(other, guid)
    BY <1>5
  <2> QED BY <2>1, <2>2, <2>3 DEF Guids!OneOrder
<1>7. ASSUME NEW r \in [1..Prefix -> Int], NEW n \in 0..Prefix
      PROVE  /\ SubSeq(r, 1, n) \in [1..n -> Int]
             /\ \A i \in 1..n : SubSeq(r, 1, n)[i] = r[i]
  <2>1. n \in Int /\ \A i \in 1..n : r[i] \in Int BY <1>1
  <2>2. /\ SubSeq(r, 1, n) \in Seq(Int) /\ Len(SubSeq(r, 1, n)) = IF 1 <= n THEN n - 1 + 1 ELSE 0
        /\ \A i \in 1..(n - 1 + 1) : SubSeq(r, 1, n)[i] = r[1 + i - 1]
    BY <2>1, SubSeqProperties
  <2> DEFINE u == SubSeq(r, 1, n)
  <2> HIDE DEF u
  <2>3. u \in Seq(Int) /\ Len(u) = n /\ \A i \in 1..n : u[i] = r[i] BY <1>1, <2>2 DEF u
  <2>4. u \in [1..n -> Int] BY <2>3, LenProperties
  <2> QED BY <2>3, <2>4 DEF u
<1> DEFINE p8 == SubSeq(p, 1, Process)
           q8 == SubSeq(q, 1, Process)
           p4 == SubSeq(p, 1, Host)
           q4 == SubSeq(q, 1, Host)
<1>8. /\ p8 \in [1..Process -> Int] /\ \A i \in 1..Process : p8[i] = p[i]
      /\ q8 \in [1..Process -> Int] /\ \A i \in 1..Process : q8[i] = q[i]
  BY ONLY <1>1, <1>2, <1>7
<1>9. /\ p4 \in [1..Host -> Int] /\ \A i \in 1..Host : p4[i] = p[i]
      /\ q4 \in [1..Host -> Int] /\ \A i \in 1..Host : q4[i] = q[i]
  BY <1>1, <1>2, <1>7
<1> HIDE DEF p8, q8, p4, q4
<1>10. p8 = q8 => p4 = q4
  <2> SUFFICES ASSUME p8 = q8 PROVE p4 = q4 OBVIOUS
  <2>1. \A i \in 1..Host : i \in 1..Process BY <1>1
  <2>2. \A i \in 1..Host : p4[i] = q4[i] BY <1>8, <1>9, <2>1
  <2>3. p4 = [i \in 1..Host |-> p4[i]] /\ q4 = [i \in 1..Host |-> q4[i]] BY <1>9
  <2> QED BY <2>2, <2>3
<1>11. ASSUME p8 # q8 PROVE Guids!Less(guid, other) <=> Guids!memcmp(p8, q8) < 0
  <2>1. PICK i \in 1..Process : /\ p8[i] # q8[i] /\ \A k \in 1..Process : k < i => p8[k] = q8[k]
                                /\ Guids!memcmp(p8, q8) = p8[i] - q8[i]
    BY <1>1, <1>8, <1>11, FirstDifference
  <2>2. i \in 1..Prefix /\ p[i] # q[i] BY <1>1, <1>8, <2>1
  <2>3. \A k \in 1..Prefix : k < i => p[k] = q[k]
    <3>1. \A k \in 1..Prefix : k < i => k \in 1..Process BY <1>1
    <3> QED BY <1>8, <2>1, <3>1
  <2>4. c = p[i] - q[i] BY <1>1, <1>2, <2>2, <2>3, MemcmpIs DEF c
  <2>5. c = Guids!memcmp(p8, q8) /\ c # 0 BY <1>2, <1>8, <2>1, <2>2, <2>4
  <2> QED BY <1>3, <1>5, <2>5 DEF c
<1>12. Guids!ProcessInsideHost
 
    BY <1>10, <1>11
       DEF Guids!ProcessInsideHost, Guids!isOnSameProcessAs, Guids!isOnSameHostAs, p8, q8, p4, q4
<1> QED BY <1>6, <1>12

-----------------------------------------------------------------------------
(***************************************************************************)
(* Locators, for any texts, addresses and ports.                           *)
(***************************************************************************)

\* What the setters leave is a locator of the same kind.
Like(x, y) == y \in Place!Locator /\ y.kind = x.kind

\* Eight octets at the beginning.
LEMMA EightIs ==
    ASSUME NEW a \in [1..16 -> Place!Octet], NEW quad \in [1..8 -> Place!Octet]
    PROVE  Place!Part(a, 1, quad) \in [1..16 -> Place!Octet]
<1>1. Len(quad) = 8 OBVIOUS
<1>2. ASSUME NEW pos \in 1..2
      PROVE  Place!Part(a, pos, quad) \in [1..16 -> Place!Octet]
  <2>1. \A i \in pos..(pos + 8 - 1) : i - pos + 1 \in 1..8 OBVIOUS
  <2> QED BY <1>1, <2>1 DEF Place!Part
<1>3. 1 \in 1..2 OBVIOUS
<1> QED BY <1>2, <1>3

LEMMA PutAddress ==
    ASSUME NEW x \in Place!Locator, NEW a \in [1..16 -> Place!Octet]
    PROVE  Like(x, [x EXCEPT !.address = a]) /\ [x EXCEPT !.address = a].address = a
BY DEF Like, Place!Locator

LEMMA OctetsIs ==
    ASSUME NEW n \in Nat, NEW nums \in [1..n -> Nat]
    PROVE  Place!Octets(nums) \in [1..n -> Place!Octet]
<1>1. \A x \in Nat : x % 256 \in Place!Octet BY DEF Place!Octet
<1>2. \A i \in 1..n : nums[i] % 256 \in Place!Octet BY <1>1
<1> QED BY <1>2 DEF Place!Octets

\* Four octets at the end leave those in front of them.
LEMMA QuadIs ==
    ASSUME NEW old \in [1..16 -> Place!Octet], NEW quad \in [1..4 -> Place!Octet]
    PROVE  /\ Place!Part(old, 9, quad) \in [1..16 -> Place!Octet]
           /\ Place!Part(old, 13, quad) \in [1..16 -> Place!Octet]
           /\ \A i \in 1..12 : Place!Part(old, 13, quad)[i] = old[i]
<1>1. Len(quad) = 4 OBVIOUS
<1>2. ASSUME NEW pos \in 1..13
      PROVE  /\ Place!Part(old, pos, quad) \in [1..16 -> Place!Octet]
             /\ \A i \in 1..16 : i < pos => Place!Part(old, pos, quad)[i] = old[i]
  <2>1. \A i \in pos..(pos + 4 - 1) : i - pos + 1 \in 1..4 OBVIOUS
  <2>2. /\ Place!Part(old, pos, quad) \in [1..16 -> Place!Octet]
        /\ \A i \in 1..16 : Place!Part(old, pos, quad)[i] =
               IF i \in pos..(pos + 4 - 1) THEN quad[i - pos + 1] ELSE old[i]
    BY <1>1, <2>1 DEF Place!Part
  <2>3. \A i \in 1..16 : i < pos => i \notin pos..(pos + 4 - 1) OBVIOUS
  <2> QED BY <2>2, <2>3
<1>3. 9 \in 1..13 /\ 13 \in 1..13 /\ \A i \in 1..12 : i \in 1..16 /\ i < 13 OBVIOUS
<1> QED BY <1>2, <1>3

LEMMA SmallNumbers ==
    ASSUME NEW nums \in [1..4 -> Nat], \A i \in 1..4 : ~(nums[i] > 255)
    PROVE  nums \in [1..4 -> Place!Octet]
<1>1. ASSUME NEW i \in 1..4 PROVE nums[i] \in Place!Octet
  <2>1. nums[i] \in Nat /\ ~(nums[i] > 255) OBVIOUS
  <2> QED BY <2>1 DEF Place!Octet
<1> QED BY <1>1

LEMMA QuadSetters ==
    ASSUME NEW x \in Place!Locator, NEW q \in DottedTexts
    PROVE  /\ Like(x, Place!WithIPv4(x, q).loc)
           /\ \A i \in 1..12 : Place!WithIPv4(x, q).loc.address[i] = x.address[i]
           /\ Like(x, Place!WithWan(x, q).loc)
           /\ Like(x, [x EXCEPT !.address = Place!Part(@, 13, Place!Octets(q.num))])
           /\ \A i \in 1..12 :
                 [x EXCEPT !.address = Place!Part(@, 13, Place!Octets(q.num))].address[i] = x.address[i]
<1>1. q.num \in [1..4 -> Nat] BY LocatorAssumption
<1>2. x.address \in [1..16 -> Place!Octet] BY DEF Place!Locator
<1>3. Place!Octets(q.num) \in [1..4 -> Place!Octet] BY <1>1, OctetsIs
<1>4. Like(x, x) BY DEF Like, Place!Locator
<1> PICK old \in [1..16 -> Place!Octet] : old = x.address BY <1>2
<1>5. ASSUME NEW quad \in [1..4 -> Place!Octet]
      PROVE  /\ Place!Part(old, 9, quad) \in [1..16 -> Place!Octet]
             /\ Place!Part(old, 13, quad) \in [1..16 -> Place!Octet]
             /\ \A i \in 1..12 : Place!Part(old, 13, quad)[i] = old[i]
  BY QuadIs
<1>6. ASSUME NEW quad \in [1..4 -> Place!Octet]
      PROVE  /\ Like(x, [x EXCEPT !.address = Place!Part(@, 9, quad)])
             /\ Like(x, [x EXCEPT !.address = Place!Part(@, 13, quad)])
             /\ \A i \in 1..12 : [x EXCEPT !.address = Place!Part(@, 13, quad)].address[i] = x.address[i]
  <2> PICK a \in [1..16 -> Place!Octet] : a = Place!Part(old, 9, quad) BY <1>5
  <2> PICK b \in [1..16 -> Place!Octet] : b = Place!Part(old, 13, quad) BY <1>5
  <2>1. /\ Like(x, [x EXCEPT !.address = a])
        /\ Like(x, [x EXCEPT !.address = b]) /\ [x EXCEPT !.address = b].address = b
    BY PutAddress
  <2>2. \A i \in 1..12 : b[i] = old[i] BY <1>5
  <2> QED BY <2>1, <2>2
<1>7. /\ Like(x, Place!WithIPv4(x, q).loc)
      /\ \A i \in 1..12 : Place!WithIPv4(x, q).loc.address[i] = x.address[i]
  <2>1. CASE x.kind \notin Place!IPv4Kinds \/ \E i \in 1..4 : q.num[i] > 255
    <3>1. Place!WithIPv4(x, q).loc = x BY <2>1 DEF Place!WithIPv4
    <3> QED BY <1>4, <3>1
  <2>2. CASE ~(x.kind \notin Place!IPv4Kinds \/ \E i \in 1..4 : q.num[i] > 255)
    <3>1. Place!WithIPv4(x, q).loc = [x EXCEPT !.address = Place!Part(@, 13, q.num)]
      BY <2>2 DEF Place!WithIPv4
    <3> PICK nums \in [1..4 -> Nat] : nums = q.num BY <1>1
    <3>2. \A i \in 1..4 : ~(nums[i] > 255) BY <2>2
    <3>3. nums \in [1..4 -> Place!Octet] BY <3>2, SmallNumbers
    <3> PICK quad \in [1..4 -> Place!Octet] : quad = nums BY <3>3
    <3>4. Place!WithIPv4(x, q).loc = [x EXCEPT !.address = Place!Part(@, 13, quad)] BY <3>1
    <3>5. /\ Like(x, [x EXCEPT !.address = Place!Part(@, 13, quad)])
          /\ \A i \in 1..12 : [x EXCEPT !.address = Place!Part(@, 13, quad)].address[i] = x.address[i]
      BY <1>6
    <3> QED BY <3>4, <3>5
  <2> QED BY <2>1, <2>2
<1>8. Like(x, Place!WithWan(x, q).loc) BY <1>3, <1>6 DEF Place!WithWan
<1> QED BY <1>3, <1>6, <1>7, <1>8

LEMMA LanSetter ==
    ASSUME NEW x \in Place!Locator, NEW r \in LanTexts, NEW junk \in {0, 255}
    PROVE  /\ Like(x, Place!WithLan(x, r, junk).loc)
           /\ x.kind # Place!TCPv4 => Place!WithLan(x, r, junk).loc = x
           /\ x.kind # Place!TCPv4 \/ r.dotted => ~Place!WithLan(x, r, junk).ok
<1>1. CASE x.kind # Place!TCPv4 \/ r.dotted
  <2>1. Like(x, x) BY DEF Like, Place!Locator
  <2> QED BY <1>1, <2>1 DEF Place!WithLan
<1>2. CASE ~(x.kind # Place!TCPv4 \/ r.dotted)
  <2>1. r.num \in [1..8 -> Nat] BY LocatorAssumption
  <2> PICK nums \in [1..8 -> Nat] : nums = r.num BY <2>1
  <2> PICK n \in [1..8 -> Place!Octet] : n = Place!Octets(nums)
    <3>1. 8 \in Nat OBVIOUS
    <3>2. Place!Octets(nums) \in [1..8 -> Place!Octet] BY <3>1, OctetsIs
    <3> QED BY <3>2
  <2> DEFINE eight == <<n[1], n[2], junk, n[3], n[4], n[5], n[6], n[7]>>
  <2>2. Place!WithLan(x, r, junk).loc = [x EXCEPT !.address = Place!Part(@, 1, eight)]
    BY <1>2 DEF Place!WithLan
  <2>3. eight \in [1..8 -> Place!Octet]
    <3>1. /\ n[1] \in Place!Octet /\ n[2] \in Place!Octet /\ n[3] \in Place!Octet /\ n[4] \in Place!Octet
          /\ n[5] \in Place!Octet /\ n[6] \in Place!Octet /\ n[7] \in Place!Octet
      OBVIOUS
    <3> junk \in Place!Octet BY DEF Place!Octet
    <3>2. eight \in Seq(Place!Octet) /\ Len(eight) = 8 BY <3>1
    <3> HIDE DEF eight
    <3>3. eight \in [1..Len(eight) -> Place!Octet] BY <3>2, LenProperties
    <3> QED BY <3>2, <3>3
  <2> HIDE DEF eight
  <2>5. x.address \in [1..16 -> Place!Octet] BY DEF Place!Locator
  <2>6. Place!Part(x.address, 1, eight) \in [1..16 -> Place!Octet] BY <2>3, <2>5, EightIs
  <2> PICK a \in [1..16 -> Place!Octet] : a = Place!Part(x.address, 1, eight) BY <2>6
  <2> HIDE DEF eight
  <2>7. Like(x, [x EXCEPT !.address = a]) BY ONLY PutAddress
  <2> QED BY <1>2, <2>2, <2>7
<1> QED BY <1>1, <1>2

\* The invariant: a UDPv4 locator nobody wrote other parts into has nothing in
\* front of its address.
PlaceInv ==
    /\ Place!TypeOK /\ Place!LanIdClears
    /\ locator.kind = Place!UDPv4 /\ ~mixed => \A i \in 1..12 : locator.address[i] = 0

LEMMA PlaceInductive ==
    /\ Place!Init => PlaceInv
    /\ PlaceInv /\ [Place!Next]_places => PlaceInv'
<1>1. Place!Zeros(16) \in [1..16 -> Place!Octet] /\ \A i \in 1..16 : Place!Zeros(16)[i] = 0
  BY DEF Place!Zeros, Place!Octet
<1>2. ASSUME Place!Init PROVE PlaceInv
  <2>1. PICK k \in Place!Kinds, p \in Ports, q \in Ports :
            /\ locator = [kind |-> k, physical |-> p, logical |-> q, address |-> Place!Zeros(16)]
            /\ mixed = FALSE /\ last = "create"
    BY <1>2 DEF Place!Init
  <2>2. locator \in Place!Locator /\ locator.address = Place!Zeros(16)
    BY <1>1, <2>1 DEF Place!Locator, Place!Octet
  <2>3. mixed \in BOOLEAN /\ last \in {"create", "dotted", "other"} /\ last # "dotted" BY <2>1
  <2>4. Place!TypeOK /\ Place!LanIdClears BY <2>2, <2>3, Zenon DEF Place!TypeOK, Place!LanIdClears
  <2>5. \A i \in 1..12 : locator.address[i] = 0 BY <1>1, <2>2
  <2> QED BY <2>4, <2>5 DEF PlaceInv
<1>3. ASSUME PlaceInv, [Place!Next]_places PROVE PlaceInv'
  <2>1. locator \in Place!Locator /\ mixed \in BOOLEAN /\ last \in {"create", "dotted", "other"}
    BY <1>3 DEF PlaceInv, Place!TypeOK
  <2>2. locator.kind = Place!UDPv4 /\ ~mixed => \A i \in 1..12 : locator.address[i] = 0
    BY <1>3 DEF PlaceInv
  <2>3. ASSUME locator' \in Place!Locator, mixed' \in BOOLEAN, last' \in {"create", "other"},
               locator'.kind = Place!UDPv4 /\ ~mixed' => \A i \in 1..12 : locator'.address[i] = 0
        PROVE  PlaceInv'
    <3>1. last' \in {"create", "dotted", "other"} /\ last' # "dotted" BY <2>3
    <3> QED BY <2>3, <3>1, Zenon DEF PlaceInv, Place!TypeOK, Place!LanIdClears
  <2>4. ASSUME NEW x, Like(locator, x), Place!Change(x),
               locator.kind = Place!UDPv4 => \A i \in 1..12 : x.address[i] = locator.address[i]
        PROVE  PlaceInv'
    <3>1. locator' = x /\ mixed' = mixed /\ last' = "other"
      BY <2>1, <2>4 DEF Place!Change, Place!ChangePart
    <3>2. x \in Place!Locator /\ x.kind = locator.kind BY <2>4 DEF Like
    <3>3. last' \in {"create", "other"} BY <3>1
    <3> QED BY <2>1, <2>2, <2>3, <2>4, <3>1, <3>2, <3>3
  <2>5. ASSUME NEW t0 \in DottedTexts, NEW p \in Ports, NEW q \in Ports, NEW k \in Place!Kinds,
               NEW a \in Addresses, Place!CreateLocator(k, t0, a, p, q)
        PROVE  PlaceInv'
    <3> DEFINE fresh == [kind |-> k, physical |-> p, logical |-> q, address |-> Place!Zeros(16)]
    <3>1. fresh \in Place!Locator /\ fresh.kind = k /\ fresh.address = Place!Zeros(16)
      BY <1>1 DEF Place!Locator, Place!Octet
    <3>2. a \in [1..16 -> Place!Octet] BY LocatorAssumption DEF Place!Octet
    <3> HIDE DEF fresh
    <3>3. \/ Place!Create(Place!WithIPv4(fresh, t0).loc)
          \/ k # Place!UDPv4 /\ Place!Create([fresh EXCEPT !.address = a])
          \/ Place!Create(fresh)
      BY <2>5 DEF Place!CreateLocator, fresh, Place!IPv6Kinds, Place!UDPv4, Place!UDPv6, Place!TCPv6
    <3>4. 0 \in {0, 255} OBVIOUS
    <3>5. PICK x \in Place!Locator : /\ Place!Create(x)
                                     /\ x.kind = Place!UDPv4 => \A i \in 1..12 : x.address[i] = 0
      <4>1. CASE Place!Create(Place!WithIPv4(fresh, t0).loc)
        <5>1. /\ Place!WithIPv4(fresh, t0).loc \in Place!Locator
              /\ \A i \in 1..12 : Place!WithIPv4(fresh, t0).loc.address[i] = 0
          <6> PICK x \in Place!Locator : x = fresh BY <3>1
          <6>1. /\ Like(x, Place!WithIPv4(x, t0).loc)
                /\ \A i \in 1..12 : Place!WithIPv4(x, t0).loc.address[i] = x.address[i]
            BY QuadSetters
          <6>2. \A i \in 1..12 : x.address[i] = 0 BY <1>1, <3>1
          <6> QED BY <6>1, <6>2 DEF Like
        <5> QED BY <4>1, <5>1
      <4>2. CASE k # Place!UDPv4 /\ Place!Create([fresh EXCEPT !.address = a])
        <5>1. Like(fresh, [fresh EXCEPT !.address = a]) BY <3>1, <3>2, PutAddress
        <5> QED BY <3>1, <4>2, <5>1 DEF Like
      <4>3. CASE Place!Create(fresh)
        <5>1. \A i \in 1..12 : fresh.address[i] = 0 BY <1>1, <3>1
        <5> QED BY <3>1, <4>3, <5>1
      <4> QED BY <3>3, <4>1, <4>2, <4>3
    <3>6. locator' = x /\ mixed' = FALSE /\ last' = "create" BY <3>5 DEF Place!Create
    <3>7. mixed' \in BOOLEAN /\ last' \in {"create", "other"} BY <3>6
    <3> QED BY <2>3, <3>5, <3>6, <3>7
  <2>6. ASSUME NEW t0 \in DottedTexts, Place!SetIPv4(t0) PROVE PlaceInv'
    BY <2>1, <2>4, <2>6, QuadSetters DEF Place!SetIPv4
  <2>7. ASSUME NEW t0 \in DottedTexts, Place!SetIPv4Octets(t0) PROVE PlaceInv'
    BY <2>1, <2>4, <2>7, QuadSetters DEF Place!SetIPv4Octets
  <2>8. ASSUME NEW x, Like(locator, x), locator' = x, last' = "other", mixed' = TRUE \/ mixed' = mixed,
               locator.kind = Place!UDPv4 => mixed' = TRUE
        PROVE  PlaceInv'
    <3>1. x \in Place!Locator /\ x.kind = locator.kind BY <2>8 DEF Like
    <3>2. mixed' \in BOOLEAN BY <2>1, <2>8
    <3>3. last' \in {"create", "other"} BY <2>8
    <3> QED BY <2>3, <2>8, <3>1, <3>2, <3>3
  <2>9. ASSUME NEW t0 \in DottedTexts, Place!SetWan(t0) PROVE PlaceInv'
    <3> PICK x : x = Place!WithWan(locator, t0).loc OBVIOUS
    <3>1. Like(locator, x) BY <2>1, QuadSetters
    <3>2. /\ locator' = x /\ last' = "other"
          /\ IF locator.kind = Place!TCPv4 THEN mixed' = mixed ELSE mixed' = TRUE
      BY <2>1, <2>9 DEF Place!SetWan, Place!ChangePart
    <3>3. Place!TCPv4 # Place!UDPv4 BY DEF Place!TCPv4, Place!UDPv4
    <3> QED BY <2>8, <3>1, <3>2, <3>3
  <2>10. ASSUME NEW a \in Addresses, Place!SetIPv6(a) PROVE PlaceInv'
    <3> PICK x : x = [locator EXCEPT !.address = a] OBVIOUS
    <3>1. a \in [1..16 -> Place!Octet] BY LocatorAssumption DEF Place!Octet
    <3>2. Like(locator, x) BY <2>1, <3>1, PutAddress
    <3>3. /\ locator' = x /\ last' = "other"
          /\ IF locator.kind \in Place!IPv6Kinds THEN mixed' = mixed ELSE mixed' = TRUE
      BY <2>1, <2>10 DEF Place!SetIPv6, Place!ChangePart
    <3>4. Place!UDPv4 \notin Place!IPv6Kinds
      BY DEF Place!IPv6Kinds, Place!UDPv4, Place!UDPv6, Place!TCPv6
    <3> QED BY <2>8, <3>2, <3>3, <3>4
  <2>11. ASSUME NEW r \in LanTexts, Place!SetLanID(r) PROVE PlaceInv'
    <3>1. Place!TCPv4 # Place!UDPv4 BY DEF Place!TCPv4, Place!UDPv4
    <3>2. PICK junk \in {0, 255} : Place!Change(Place!WithLan(locator, r, junk).loc)
      BY <2>11 DEF Place!SetLanID
    <3>3. /\ Like(locator, Place!WithLan(locator, r, junk).loc)
          /\ locator.kind # Place!TCPv4 => Place!WithLan(locator, r, junk).loc = locator
      BY <2>1, LanSetter
    <3> QED BY <2>4, <3>1, <3>2, <3>3
  <2>12. ASSUME NEW r \in LanTexts, NEW w \in DottedTexts, NEW t0 \in DottedTexts,
                Place!SetIPv4address(r, w, t0)
         PROVE  PlaceInv'
    <3>1. Place!TCPv4 # Place!UDPv4 BY DEF Place!TCPv4, Place!UDPv4
    <3>2. PICK junk \in {0, 255} :
              LET x == Place!WithLan(locator, r, junk)
                  y == Place!WithWan(x.loc, w)
                  z == Place!WithIPv4(y.loc, t0)
              IN  /\ locator' = IF x.ok /\ y.ok /\ z.ok THEN z.loc
                                ELSE [locator EXCEPT !.address = Place!Zeros(16)]
                  /\ last' = IF r.dotted THEN "dotted" ELSE "other"
                  /\ UNCHANGED mixed
      BY <2>12 DEF Place!SetIPv4address
    <3> PICK x : x = Place!WithLan(locator, r, junk) OBVIOUS
    <3> PICK y : y = Place!WithWan(x.loc, w) OBVIOUS
    <3> PICK z : z = Place!WithIPv4(y.loc, t0) OBVIOUS
    <3> PICK none : none = [locator EXCEPT !.address = Place!Zeros(16)] OBVIOUS
    <3>3. /\ Like(locator, x.loc)
          /\ locator.kind # Place!TCPv4 \/ r.dotted => ~x.ok
      BY <2>1, LanSetter
    <3>4. Like(x.loc, y.loc)
      <4>1. x.loc \in Place!Locator BY <3>3 DEF Like
      <4> QED BY <4>1, QuadSetters
    <3>5. Like(y.loc, z.loc)
      <4>1. y.loc \in Place!Locator BY <3>4 DEF Like
      <4> QED BY <4>1, QuadSetters
    <3>6. z.loc \in Place!Locator /\ z.loc.kind = locator.kind BY ONLY <3>3, <3>4, <3>5 DEF Like
    <3>7. Like(locator, none) /\ none.address = Place!Zeros(16) BY <1>1, <2>1, PutAddress
    <3>8. /\ locator' = IF x.ok /\ y.ok /\ z.ok THEN z.loc ELSE none
          /\ last' = (IF r.dotted THEN "dotted" ELSE "other") /\ mixed' = mixed
      BY <3>2
    <3>9. none \in Place!Locator /\ none.kind = locator.kind BY <3>7 DEF Like
    <3>10. locator' \in Place!Locator BY <3>6, <3>8, <3>9
    <3>11. last' \in {"create", "dotted", "other"} BY <3>8
    <3>12. locator.kind = Place!UDPv4 \/ r.dotted => locator' = none
      <4>1. locator.kind = Place!UDPv4 \/ r.dotted => ~x.ok BY ONLY <3>1, <3>3, Zenon
      <4> QED BY ONLY <3>8, <4>1, Zenon
    <3>13. locator'.kind = locator.kind BY <3>6, <3>8, <3>9
    <3>14. \A i \in 1..16 : none.address[i] = 0 BY <1>1, <3>7
    <3>15. DOMAIN none.address = 1..16 BY <1>1, <3>7
    <3>16. Place!LanIdClears'
      <4>1. last' = "dotted" => r.dotted BY <3>8
      <4>2. \A i \in DOMAIN none.address : none.address[i] = 0 BY ONLY <3>14, <3>15
      <4>3. last' = "dotted" => Place!IsZero(none.address) BY <4>2 DEF Place!IsZero
      <4>4. last' = "dotted" => locator' = none BY <3>12, <4>1, Zenon
      <4>5. last' = "dotted" => Place!IsZero(locator'.address) BY <4>3, <4>4
      <4> QED BY <4>5 DEF Place!LanIdClears, Place!IsZero
    <3>17. locator'.kind = Place!UDPv4 => \A i \in 1..12 : locator'.address[i] = 0
      <4>1. \A i \in 1..12 : none.address[i] = 0 BY ONLY <3>14
      <4>2. locator'.kind = Place!UDPv4 => locator' = none BY <3>12, <3>13, Zenon
      <4> QED BY ONLY <4>1, <4>2
    <3>18. mixed' \in BOOLEAN BY <2>1, <3>8
    <3> QED BY <3>10, <3>11, <3>16, <3>17, <3>18, Zenon DEF PlaceInv, Place!TypeOK
  <2>13. ASSUME NEW p \in Ports,
                Place!SetPhysicalPort(p) \/ Place!SetLogicalPort(p) \/ Place!SetPortRTPS(p)
         PROVE  PlaceInv'
    <3>1. Place!SetPhysicalPort(p) \/ Place!SetLogicalPort(p) BY <2>13 DEF Place!SetPortRTPS
    <3> DEFINE x == [locator EXCEPT !.physical = p]
    <3>2. x \in Place!Locator /\ x.kind = locator.kind /\ x.address = locator.address
      BY <2>1 DEF Place!Locator
    <3>3. Place!Change(x) \/ Place!Change(locator)
      BY <3>1 DEF Place!SetPhysicalPort, Place!SetLogicalPort
    <3> HIDE DEF x
    <3>4. PICK z \in {x, locator} : locator' = z /\ mixed' = mixed /\ last' = "other"
      BY <2>1, <3>3 DEF Place!Change, Place!ChangePart
    <3>5. last' \in {"create", "other"} BY <3>4
    <3>6. mixed' \in BOOLEAN BY <2>1, <3>4
    <3>7. z \in Place!Locator /\ z.kind = locator.kind /\ z.address = locator.address BY <2>1, <3>2
    <3> QED BY <2>2, <2>3, <3>4, <3>5, <3>6, <3>7
  <2>14. CASE UNCHANGED places
    <3>1. locator' = locator /\ mixed' = mixed /\ last' = last BY <2>14 DEF places
    <3> QED BY <1>3, <3>1 DEF PlaceInv, Place!TypeOK, Place!LanIdClears
  <2> QED BY <1>3, <2>5, <2>6, <2>7, <2>9, <2>10, <2>11, <2>12, <2>13, <2>14 DEF Place!Next
<1> QED BY <1>2, <1>3

\* What the invariant says of a locator's address.
LEMMA PlaceHolds ==
    ASSUME PlaceInv
    PROVE  Place!TypeOK /\ Place!OneClass /\ Place!LanIdClears /\ Place!SameIPv4SameAddress
<1>1. locator \in Place!Locator BY DEF PlaceInv, Place!TypeOK
<1> PICK a \in [1..16 -> Place!Octet] : a = locator.address BY <1>1 DEF Place!Locator
<1>2. Len(a) = 16 /\ DOMAIN a = 1..16
  <2>1. DOMAIN a = 1..16 OBVIOUS
  <2> QED BY <2>1
<1> PICK ip : ip = Place!IPv4(locator) OBVIOUS
<1>3. ip \in Seq(Place!Octet) /\ Len(ip) = 4 /\ DOMAIN ip = 1..4 /\ \A i \in 1..4 : ip[i] = a[12 + i]
  <2>1. ip = SubSeq(a, 13, 16) BY DEF Place!IPv4
  <2>2. \A i \in 13..16 : a[i] \in Place!Octet OBVIOUS
  <2>3. /\ SubSeq(a, 13, 16) \in Seq(Place!Octet) /\ Len(SubSeq(a, 13, 16)) = IF 13 <= 16 THEN 16 - 13 + 1 ELSE 0
        /\ \A i \in 1..(16 - 13 + 1) : SubSeq(a, 13, 16)[i] = a[13 + i - 1]
    <3>1. 13 \in Int /\ 16 \in Int OBVIOUS
    <3> QED BY <2>2, <3>1, SubSeqProperties
  <2>4. ip \in Seq(Place!Octet) /\ Len(ip) = 4 BY <2>1, <2>3
  <2>5. \A i \in 1..4 : ip[i] = a[12 + i]
    <3>1. \A i \in 1..4 : i \in 1..(16 - 13 + 1) /\ 13 + i - 1 = 12 + i OBVIOUS
    <3> QED BY <2>1, <2>3, <3>1
  <2>6. DOMAIN ip = 1..4 BY <2>4, LenProperties
  <2> QED BY <2>4, <2>5, <2>6
<1> DEFINE four == locator.kind \in Place!IPv4Kinds
           zero4 == \A i \in 1..4 : ip[i] = 0
           zero16 == \A i \in 1..16 : a[i] = 0
<1>4. Place!IsZero(ip) <=> zero4 BY <1>3 DEF Place!IsZero
<1>5. Place!IsZero(locator.address) <=> zero16 BY <1>2 DEF Place!IsZero
<1>6. Place!isAny(locator) <=> IF four THEN zero4 ELSE zero16 BY <1>4, <1>5 DEF Place!isAny
<1>7. Place!isEmpty(locator) <=> IF four THEN zero4 ELSE zero16 BY <1>4, <1>5 DEF Place!isEmpty
<1>8. Place!IsLoopback(locator.address) => a[1] = 0 /\ a[16] = 1
  <2> SUFFICES ASSUME Place!IsLoopback(a) PROVE a[1] = 0 /\ a[16] = 1 OBVIOUS
  <2>1. a = [[i \in 1..16 |-> 0] EXCEPT ![16] = 1] BY <1>2 DEF Place!IsLoopback, Place!Zeros
  <2> QED BY <2>1
<1>9. ip = <<127, 0, 0, 1>> => ip[1] = 127 OBVIOUS
<1>10. Place!isLocal(locator) => IF four THEN ip[1] = 127 ELSE a[1] = 0 /\ a[16] = 1
  BY <1>8, <1>9 DEF Place!isLocal
<1>11. Place!OneClass
  <2>1. ~(Place!isLocal(locator) /\ Place!isAny(locator))
    <3>1. 1 \in 1..4 /\ 16 \in 1..16 OBVIOUS
    <3>2. CASE four BY <1>6, <1>10, <3>1, <3>2
    <3>3. CASE ~four BY <1>6, <1>10, <3>1, <3>3
    <3> QED BY <3>2, <3>3
  <2>2. ASSUME Place!isMulticast(locator), locator.kind # Place!TCPv4
        PROVE  ~Place!isLocal(locator) /\ ~Place!isAny(locator)
    <3>1. ~four BY <2>2 DEF Place!isMulticast, Place!IPv4Kinds
    <3>2. a[1] = 255 /\ 1 \in 1..16 BY <2>2 DEF Place!isMulticast
    <3> QED BY <1>6, <1>10, <3>1, <3>2
  <2>3. ASSUME Place!ip_equals_wan(locator) PROVE Place!hasIPv4(locator)
    <3>1. four /\ ~Place!IsZero(ip)
      BY <2>3 DEF Place!ip_equals_wan, Place!hasWan, Place!IPv4Kinds
    <3> QED BY <1>4, <1>7, <3>1 DEF Place!hasIPv4
  <2>4. ASSUME Place!hasIPv4(locator) \/ Place!hasIPv6(locator) PROVE ~Place!isAny(locator)
    BY <1>6, <1>7, <2>4 DEF Place!hasIPv4, Place!hasIPv6
  <2> QED BY <2>1, <2>2, <2>3, <2>4, Zenon DEF Place!OneClass
<1>12. Place!SameIPv4SameAddress
  <2> PICK made : made = [locator EXCEPT !.address = Place!Part(Place!Zeros(16), 13, ip)] OBVIOUS
  <2> SUFFICES ASSUME locator.kind = Place!UDPv4, ~mixed
               PROVE  Place!compareAddressAndPhysicalPort(locator, made)
    BY DEF Place!SameIPv4SameAddress
  <2>1. \A i \in 1..12 : a[i] = 0 BY DEF PlaceInv
  <2>2. Place!Part(Place!Zeros(16), 13, ip) = a
    <3>1. \A i \in 13..16 : i - 13 + 1 \in 1..4 /\ 12 + (i - 13 + 1) = i OBVIOUS
    <3>2. \A i \in 13..16 : ip[i - 13 + 1] = a[i] BY <1>3, <3>1
    <3>3. \A i \in 1..16 : i \notin 13..16 => i \in 1..12 OBVIOUS
    <3>4. 13 + Len(ip) - 1 = 16 BY <1>3
    <3>5. \A i \in 1..16 : (IF i \in 13..16 THEN ip[i - 13 + 1] ELSE 0) = a[i] BY <2>1, <3>2, <3>3
    <3>6. \A i \in 1..16 : Place!Zeros(16)[i] = 0 BY DEF Place!Zeros
    <3>7. Place!Part(Place!Zeros(16), 13, ip) =
              [i \in 1..16 |-> IF i \in 13..16 THEN ip[i - 13 + 1] ELSE Place!Zeros(16)[i]]
      BY <3>4 DEF Place!Part
    <3> PICK b : b = Place!Part(Place!Zeros(16), 13, ip) OBVIOUS
    <3>8. \A i \in 1..16 : b[i] = a[i]
      BY ONLY <3>5, <3>6, <3>7, b = Place!Part(Place!Zeros(16), 13, ip)
    <3>9. a = [i \in 1..16 |-> a[i]] OBVIOUS
    <3>10. b = [i \in 1..16 |-> b[i]] BY <3>7
    <3> QED BY ONLY <3>8, <3>9, <3>10, b = Place!Part(Place!Zeros(16), 13, ip)
  <2>3. made.kind = locator.kind /\ made.address = locator.address /\ made.physical = locator.physical
    BY <1>1, <2>2 DEF Place!Locator
  <2> QED BY <2>3 DEF Place!compareAddressAndPhysicalPort, Place!compareAddress
<1>13. Place!TypeOK /\ Place!LanIdClears BY DEF PlaceInv
<1> QED BY <1>11, <1>12, <1>13

\* Addresses and GUIDs classify and compare consistently, whatever the texts,
\* octets and ports are, and however many octets a GUID has.
THEOREM NamesAlwaysAgree == PartsSpec => []NamesAgree
<1> DEFINE Inv == (part = "locator" => PlaceInv) /\ (part = "guid" => GuidInv)
<1>1. PartsInit => Inv BY PlaceInductive, GuidInductive DEF PartsInit
<1>2. Inv /\ [PartsNext]_parts => Inv'
  <2>1. [PartsNext]_parts => /\ part' = part
                             /\ part = "locator" => [Place!Next]_places
                             /\ part = "guid" => [Guids!Next]_guids
    BY DEF PartsNext, parts
  <2> QED BY <2>1, PlaceInductive, GuidInductive
<1>3. Inv => NamesAgree BY PlaceHolds, GuidsInOrder DEF NamesAgree
<1> QED BY <1>1, <1>2, <1>3, PTL DEF PartsSpec

-----------------------------------------------------------------------------
(***************************************************************************)
(* The texts of IPv6 addresses, for any number of groups beyond three and  *)
(* any values of a group.                                                  *)
(***************************************************************************)

\* A text that IPv6isCorrect accepts has nothing but groups, but for one "::" and the
\* end beside it.
LEMMA CorrectIs ==
    ASSUME NEW n \in 1..(Groups + 1), NEW f \in [1..n -> Text6!Field], Text6!IPv6isCorrect(f)
    PROVE  /\ Len(f) = n /\ n \in 3..(Groups + 1)
           /\ Text6!Double(f) = {i \in 2..(n - 1) : f[i] = Text6!Empty}
           /\ \A i, j \in Text6!Double(f) : i = j
           /\ f[1] = Text6!Empty => 2 \in Text6!Double(f)
           /\ f[n] = Text6!Empty => n - 1 \in Text6!Double(f)
           /\ f[1] # Text6!Empty => f[1] \in GroupValue
           /\ f[n] # Text6!Empty => f[n] \in GroupValue
           /\ \A i \in 2..(n - 1) : i \notin Text6!Double(f) => f[i] \in GroupValue
<1>1. Groups \in Nat /\ n \in Nat BY TextAssumption
<1>2. Len(f) = n /\ DOMAIN f = 1..n BY <1>1
<1>3. n - 1 \in 2..Groups BY <1>2 DEF Text6!IPv6isCorrect
<1>4. Text6!Double(f) = {i \in 2..(n - 1) : f[i] = Text6!Empty} BY <1>2 DEF Text6!Double
<1>5. ASSUME NEW i \in 1..n PROVE f[i] # Text6!Empty => f[i] \in GroupValue
  <2>1. f[i] # Text6!Wrong BY <1>2 DEF Text6!IPv6isCorrect, Text6!Range
  <2> QED BY <2>1 DEF Text6!Field
<1>6. \A i, j \in Text6!Double(f) : i = j
  <2> SUFFICES ASSUME NEW i \in Text6!Double(f), NEW j \in Text6!Double(f), i # j PROVE FALSE
    OBVIOUS
  <2>1. Text6!Cardinality(Text6!Double(f)) < 2 BY DEF Text6!IPv6isCorrect
  <2>2. \A S : Text6!Cardinality(S) = Cardinality(S) BY DEF Text6!Cardinality, Cardinality
  <2>3. IsFiniteSet(Text6!Double(f))
    <3>1. IsFiniteSet(2..(n - 1)) BY <1>1, FS_Interval
    <3>2. Text6!Double(f) \in SUBSET (2..(n - 1)) BY <1>4
    <3> QED BY <3>1, <3>2, FS_Subset
  <2>4. IsFiniteSet({i}) /\ Cardinality({i}) = 1 BY FS_Singleton
  <2>5. Cardinality({i} \cup {j}) = 2
    <3>1. j \notin {i} OBVIOUS
    <3>2. Cardinality({i} \cup {j}) = IF j \in {i} THEN Cardinality({i}) ELSE Cardinality({i}) + 1
      BY ONLY <2>4, FS_AddElement
    <3>3. Cardinality({i} \cup {j}) = 1 + 1 BY <2>4, <3>1, <3>2, Zenon
    <3>4. 1 + 1 = 2 OBVIOUS
    <3> QED BY ONLY <3>3, <3>4, Zenon
  <2>6. {i} \cup {j} \in SUBSET Text6!Double(f) OBVIOUS
  <2>7. 2 <= Cardinality(Text6!Double(f)) BY <2>3, <2>5, <2>6, FS_Subset
  <2>8. Cardinality(Text6!Double(f)) \in Nat BY <2>3, FS_CardinalityType
  <2> QED BY <2>1, <2>2, <2>7, <2>8
<1>7. /\ f[1] = Text6!Empty => 2 \in Text6!Double(f)
      /\ f[n] = Text6!Empty => n - 1 \in Text6!Double(f)
  BY <1>2 DEF Text6!IPv6isCorrect
<1>8. 1 \in 1..n /\ n \in 1..n /\ \A i \in 2..(n - 1) : i \in 1..n BY <1>1, <1>3
<1>9. \A i \in 2..(n - 1) : i \notin Text6!Double(f) => f[i] \in GroupValue BY <1>4, <1>5, <1>8
<1>10. n \in 3..(Groups + 1) BY <1>1, <1>3
<1> QED BY <1>2, <1>4, <1>5, <1>6, <1>7, <1>8, <1>9, <1>10

LEMMA PaddedIs ==
    ASSUME NEW m \in Nat, NEW p \in Seq(GroupValue), Len(p) = m, NEW v \in GroupValue
    PROVE  /\ Text6!Padded(p, v) \in Text6!Address
           /\ m = Groups => Text6!Padded(p, v) = p
<1>1. Groups \in Nat BY TextAssumption
<1>2. \A g \in 1..Groups : g <= m => p[g] \in GroupValue BY <1>1
<1>3. Text6!Padded(p, v) = [g \in 1..Groups |-> IF g <= m THEN p[g] ELSE v] BY DEF Text6!Padded
<1>4. Text6!Padded(p, v) \in Text6!Address BY <1>2, <1>3 DEF Text6!Address
<1>5. ASSUME m = Groups PROVE Text6!Padded(p, v) = p
  <2>1. p = [g \in 1..Groups |-> p[g]] BY <1>1, <1>5
  <2>2. \A g \in 1..Groups : g <= m BY <1>1, <1>5
  <2> QED BY <1>3, <2>1, <2>2
<1> QED BY <1>4, <1>5

\* What is left of an accepted text: the groups from one place to another.
LEMMA PartIs ==
    ASSUME NEW n \in Nat, NEW f \in [1..n -> Text6!Field], NEW i \in 1..(n + 1), NEW k \in (i - 1)..n,
           \A j \in i..k : f[j] \in GroupValue
    PROVE  /\ SubSeq(f, i, k) \in Seq(GroupValue) /\ Len(SubSeq(f, i, k)) = k - i + 1
           /\ \A j \in 1..(k - i + 1) : SubSeq(f, i, k)[j] = f[i + j - 1]
<1>1. i \in Int /\ k \in Int OBVIOUS
<1>2. /\ SubSeq(f, i, k) \in Seq(GroupValue)
      /\ Len(SubSeq(f, i, k)) = IF i <= k THEN k - i + 1 ELSE 0
      /\ \A j \in 1..(k - i + 1) : SubSeq(f, i, k)[j] = f[i + j - 1]
  BY ONLY <1>1, \A j \in i..k : f[j] \in GroupValue, SubSeqProperties
<1>3. ~(i <= k) => k - i + 1 = 0 OBVIOUS
<1> QED BY <1>2, <1>3

\* What setIPv6 leaves for a text: the address meant, but for an open end.
Sound(f, zone, a, o) ==
    /\ o /\ Text6!Proper(f) =>
          /\ zone = <<>>
          /\ IF Text6!OpenEnd(f)
             THEN /\ a = Text6!Padded(SubSeq(f, 1, Len(f) - 2), f[Len(f) - 2])
                  /\ a # Text6!Meaning(f)
             ELSE a = Text6!Meaning(f)
    /\ Text6!Proper(f) /\ Text6!Double(f) # {} /\ f[1] # Text6!Empty /\ Text6!Last(f) # Text6!Empty
       => /\ ~o
          /\ LET i == CHOOSE j \in Text6!Double(f) : TRUE
             IN  a = Text6!Padded(SubSeq(f, 1, i - 1), 0)

\* "::" first: initial_zeros.
LEMMA LeadingIs ==
    ASSUME NEW n \in 1..(Groups + 1), NEW f \in [1..n -> Text6!Field], Text6!IPv6isCorrect(f),
           NEW zone \in Zones, f[1] = Text6!Empty, f[n] = Text6!Empty => zone = <<>>
    PROVE  /\ Text6!Leading(f, zone).addr \in Text6!Address
           /\ Text6!Leading(f, zone).ok = (zone = <<>>)
           /\ Text6!Leading(f, zone).addr = Text6!Meaning(f)
<1>1. /\ Len(f) = n /\ n \in 3..(Groups + 1) /\ 2 \in Text6!Double(f)
      /\ \A j \in Text6!Double(f) : j = 2
      /\ f[n] # Text6!Empty => f[n] \in GroupValue
      /\ \A j \in 3..(n - 1) : f[j] \in GroupValue
  <2>1. \A j \in 3..(n - 1) : j \in 2..(n - 1) /\ j # 2 OBVIOUS
  <2> QED BY <2>1, CorrectIs
<1>2. Groups \in Nat /\ 0 \in GroupValue BY TextAssumption
<1> DEFINE rest == IF f[n] = Text6!Empty THEN <<>> ELSE SubSeq(f, 3, n)
<1>3. /\ rest \in Seq(GroupValue) /\ Len(rest) \in 0..(Groups - 1)
  <2>1. CASE f[n] = Text6!Empty
    <3>1. rest = <<>> BY <2>1
    <3> QED BY <1>1, <1>2, <3>1
  <2>2. CASE f[n] # Text6!Empty
    <3>1. \A j \in 3..n : f[j] \in GroupValue
      <4>1. \A j \in 3..n : j \in 3..(n - 1) \/ j = n BY <1>1
      <4> QED BY <1>1, <2>2, <4>1
    <3>2. SubSeq(f, 3, n) \in Seq(GroupValue) /\ Len(SubSeq(f, 3, n)) = n - 3 + 1
      <4>1. n \in Nat /\ 3 \in 1..(n + 1) /\ n \in (3 - 1)..n BY <1>1, <1>2
      <4> QED BY <3>1, <4>1, PartIs
    <3> QED BY <1>1, <1>2, <2>2, <3>2
  <2> QED BY <2>1, <2>2
<1>4. Text6!Leading(f, zone) =
          [addr |-> [g \in 1..Groups |-> IF g <= Groups - Len(rest) THEN 0
                                         ELSE rest[Len(rest) - (Groups - g)]],
           ok |-> (zone = <<>>)]
  BY <1>1 DEF Text6!Leading
<1>5. Text6!Meaning(f) = [g \in 1..Groups |-> IF g <= Groups - Len(rest) THEN 0
                                              ELSE rest[Len(rest) - (Groups - g)]]
  <2>1. (CHOOSE j \in Text6!Double(f) : TRUE) = 2 BY <1>1
  <2> DEFINE before == SubSeq(f, 2, 1)
             zeros == Groups - Len(before) - Len(rest)
  <2>2. before = <<>> /\ Len(before) = 0
    <3>1. 2 \in Int /\ 1 \in Int /\ 1 < 2 OBVIOUS
    <3>2. before = <<>> BY ONLY <3>1, SubSeqEmpty
    <3> QED BY <3>2
  <2>3. Text6!Meaning(f) = [g \in 1..Groups |-> IF g <= Len(before) THEN before[g]
                                                ELSE IF g <= Len(before) + zeros THEN 0
                                                ELSE rest[g - Len(before) - zeros]]
    <3>1. Text6!Double(f) # {} /\ 2 - 1 = 1 /\ 2 + 1 = 3 BY <1>1
    <3> HIDE DEF before
    <3> QED BY <1>1, <2>1, <3>1 DEF Text6!Meaning, before
  <2>4. Len(rest) \in Int BY <1>3
  <2> HIDE DEF before, rest
  <2>5. zeros = Groups - Len(rest) BY <1>2, <2>2, <2>4
  <2> HIDE DEF zeros
  <2>6. ASSUME NEW g \in 1..Groups
        PROVE  /\ g <= Len(before) <=> FALSE
               /\ g <= Len(before) + zeros <=> g <= Groups - Len(rest)
               /\ g - Len(before) - zeros = Len(rest) - (Groups - g)
    BY <1>2, <2>2, <2>4, <2>5
  <2> QED BY <2>3, <2>6
<1>6. \A g \in 1..Groups : ~(g <= Groups - Len(rest)) => rest[Len(rest) - (Groups - g)] \in GroupValue
  <2> HIDE DEF rest
  <2> SUFFICES ASSUME NEW g \in 1..Groups, ~(g <= Groups - Len(rest))
               PROVE  rest[Len(rest) - (Groups - g)] \in GroupValue
    OBVIOUS
  <2>1. Len(rest) - (Groups - g) \in 1..Len(rest) BY <1>2, <1>3
  <2> QED BY <1>3, <2>1
<1> HIDE DEF rest
<1>7. Text6!Leading(f, zone).addr \in Text6!Address
  <2> DEFINE F == [g \in 1..Groups |-> IF g <= Groups - Len(rest) THEN 0
                                       ELSE rest[Len(rest) - (Groups - g)]]
  <2>1. F \in [1..Groups -> GroupValue] BY <1>2, <1>6
  <2>2. Text6!Leading(f, zone).addr = F BY <1>4
  <2> HIDE DEF F
  <2> QED BY <2>1, <2>2 DEF Text6!Address
<1> QED BY <1>4, <1>5, <1>7

\* What a text with "::" last means.
LEMMA OpenMeans ==
    ASSUME NEW n \in 1..(Groups + 1), NEW f \in [1..n -> Text6!Field], Text6!IPv6isCorrect(f),
           f[1] # Text6!Empty, f[n] = Text6!Empty
    PROVE  Text6!Meaning(f) = Text6!Padded(SubSeq(f, 1, n - 2), 0)
<1>1. /\ Len(f) = n /\ n \in 3..(Groups + 1) /\ n - 1 \in Text6!Double(f)
      /\ \A i, j \in Text6!Double(f) : i = j
      /\ f[1] \in GroupValue
      /\ \A j \in 2..(n - 1) : j \notin Text6!Double(f) => f[j] \in GroupValue
  BY CorrectIs
<1>2. Groups \in Nat BY TextAssumption
<1>3. (CHOOSE j \in Text6!Double(f) : TRUE) = n - 1 BY <1>1
<1> DEFINE p == SubSeq(f, 1, n - 2)
           zeros == Groups - Len(p) - Len(<<>>)
<1>4. Len(p) = n - 2
  <2>1. \A j \in 1..(n - 2) : j = 1 \/ (j \in 2..(n - 1) /\ j # n - 1) BY <1>1, <1>2
  <2>2. \A j \in 1..(n - 2) : f[j] \in GroupValue BY <1>1, <2>1
  <2>3. n \in Nat /\ 1 \in 1..(n + 1) /\ n - 2 \in (1 - 1)..n /\ n - 2 - 1 + 1 = n - 2 BY <1>1, <1>2
  <2> QED BY <2>2, <2>3, PartIs
<1>5. (n - 1) - 1 = n - 2 BY <1>1, <1>2
<1>6. Text6!Meaning(f) = [g \in 1..Groups |-> IF g <= Len(p) THEN p[g]
                                              ELSE IF g <= Len(p) + zeros THEN 0
                                              ELSE <<>>[g - Len(p) - zeros]]
  BY <1>1, <1>3, <1>5 DEF Text6!Meaning
<1> HIDE DEF p
<1>7. \A g \in 1..Groups : g <= Len(p) + zeros BY <1>1, <1>2, <1>4
<1> HIDE DEF zeros
<1>8. Text6!Meaning(f) = [g \in 1..Groups |-> IF g <= Len(p) THEN p[g] ELSE 0] BY <1>6, <1>7
<1> QED BY <1>8 DEF Text6!Padded, p

\* "::" last: final_zeros.
LEMMA TrailingIs ==
    ASSUME NEW n \in 1..(Groups + 1), NEW f \in [1..n -> Text6!Field], Text6!IPv6isCorrect(f),
           f[1] # Text6!Empty, f[n] = Text6!Empty
    PROVE  /\ Text6!Trailing(f).addr \in Text6!Address
           /\ Text6!Trailing(f).ok \in BOOLEAN
           /\ Text6!Trailing(f).ok =>
                 IF Text6!OpenEnd(f)
                 THEN /\ Text6!Trailing(f).addr = Text6!Padded(SubSeq(f, 1, Len(f) - 2), f[Len(f) - 2])
                      /\ Text6!Trailing(f).addr # Text6!Meaning(f)
                 ELSE Text6!Trailing(f).addr = Text6!Meaning(f)
<1>1. /\ Len(f) = n /\ n \in 3..(Groups + 1) /\ n - 1 \in Text6!Double(f)
      /\ \A i, j \in Text6!Double(f) : i = j
      /\ f[1] \in GroupValue
      /\ \A j \in 2..(n - 1) : j # n - 1 => f[j] \in GroupValue
  BY CorrectIs
<1>2. Groups \in Nat /\ 0 \in GroupValue BY TextAssumption
<1>3. \A j \in 1..(n - 2) : f[j] \in GroupValue
  <2>1. \A j \in 1..(n - 2) : j = 1 \/ (j \in 2..(n - 1) /\ j # n - 1) BY <1>1, <1>2
  <2> QED BY <1>1, <2>1
<1> DEFINE p == SubSeq(f, 1, n - 2)
<1>4. p \in Seq(GroupValue) /\ Len(p) \in Nat
  <2>1. n \in Nat /\ 1 \in 1..(n + 1) /\ n - 2 \in (1 - 1)..n BY <1>1, <1>2
  <2>2. p \in Seq(GroupValue) BY <1>3, <2>1, PartIs
  <2> QED BY <2>2
<1>5. n - 2 \in 1..(n - 2) BY <1>1, <1>2
<1>6. f[n - 2] \in GroupValue BY <1>3, <1>5
<1> HIDE DEF p
<1>7. \A v \in GroupValue : Text6!Padded(p, v) \in Text6!Address BY <1>4, PaddedIs
<1>8. CASE f[n - 2] = 65535
  <2>1. Text6!Trailing(f) = [addr |-> Text6!Padded(p, 0), ok |-> FALSE]
    BY <1>1, <1>8 DEF Text6!Trailing, p
  <2> QED BY <1>2, <1>7, <2>1
<1>9. CASE f[n - 2] # 65535
  <2>1. Text6!Trailing(f) = [addr |-> Text6!Padded(p, f[n - 2]), ok |-> TRUE]
    BY <1>1, <1>9 DEF Text6!Trailing, p
  <2>2. Text6!Padded(p, f[n - 2]) # Text6!Padded(p, 0) \/ f[n - 2] = 0
    <3>1. Len(p) = n - 2
      <4>1. n \in Nat /\ 1 \in 1..(n + 1) /\ n - 2 \in (1 - 1)..n /\ n - 2 - 1 + 1 = n - 2 BY <1>1, <1>2
      <4> QED BY <1>3, <4>1, PartIs DEF p
    <3>2. Groups \in 1..Groups /\ ~(Groups <= n - 2) BY <1>1, <1>2
    <3>3. \A v : Text6!Padded(p, v)[Groups] = v BY <3>1, <3>2 DEF Text6!Padded
    <3> QED BY <3>3
  <2>3. Text6!OpenEnd(f) <=> f[n - 2] # 0
    <3>1. Text6!Empty \notin GroupValue BY TextAssumption DEF Text6!Empty
    <3>2. Text6!Last(f) = f[n] BY <1>1 DEF Text6!Last
    <3> QED BY <1>1, <1>6, <3>1, <3>2 DEF Text6!OpenEnd
  <2>4. Text6!Meaning(f) = Text6!Padded(p, 0) BY OpenMeans DEF p
  <2>5. p = SubSeq(f, 1, Len(f) - 2) /\ Len(f) - 2 = n - 2 BY <1>1 DEF p
  <2> QED BY <1>6, <1>7, <2>1, <2>2, <2>3, <2>4, <2>5
<1> QED BY <1>8, <1>9

\* What Plain reads: the fields and then those of the zone.
LEMMA StreamIs ==
    ASSUME NEW n \in 1..(Groups + 1), NEW f \in [1..n -> Text6!Field], Text6!IPv6isCorrect(f),
           NEW zone \in Zones, f[1] # Text6!Empty, NEW s, s = f \o zone
    PROVE  /\ Len(zone) \in Nat /\ (Len(zone) = 0 => zone = <<>>)
           /\ Len(s) \in Nat /\ Len(s) = n + Len(zone) /\ s \in [1..Len(s) -> Text6!Field]
           /\ (zone = <<>> => s = f)
           /\ \A i \in 1..n : s[i] = f[i]
           /\ Text6!Stops(s) \subseteq 1..Len(s)
           /\ \A i \in 1..Len(s) : i \notin Text6!Stops(s) => s[i] \in GroupValue \/ (i = Len(s) /\ s[i] = Text6!Empty)
           /\ Text6!Double(f) \subseteq Text6!Stops(s)
           /\ \A i \in 1..n : i \in Text6!Stops(s) => i \in Text6!Double(f) \/ i - 1 \in Text6!Double(f)
<1>1. Groups \in Nat /\ n \in Nat BY TextAssumption
<1>2. f \in Seq(Text6!Field) /\ Len(f) = n BY <1>1
<1>3. zone \in Seq(Text6!Field) BY ZoneAssumption
<1>4. /\ s \in Seq(Text6!Field) /\ Len(s) = Len(f) + Len(zone)
      /\ \A i \in 1..(Len(f) + Len(zone)) : s[i] = IF i <= Len(f) THEN f[i] ELSE zone[i - Len(f)]
  BY <1>2, <1>3, ConcatProperties
<1>5. Len(zone) \in Nat /\ (Len(zone) = 0 => zone = <<>>) BY <1>3, EmptySeq, LenProperties
<1>6. zone = <<>> => s = f BY <1>2, ConcatEmptySeq
<1>7. Len(s) \in Nat /\ Len(s) = n + Len(zone) BY <1>1, <1>2, <1>4, <1>5
<1>8. s \in [1..Len(s) -> Text6!Field] BY <1>4, LenProperties
<1>9. \A i \in 1..n : s[i] = f[i] /\ i \in 1..Len(s)
  <2>1. \A i \in 1..n : i \in 1..(Len(f) + Len(zone)) /\ i <= Len(f) BY <1>1, <1>2, <1>5
  <2> QED BY <1>4, <2>1
<1>10. Text6!Stops(s) = {i \in 1..Len(s) : s[i] = Text6!Wrong \/ (s[i] = Text6!Empty /\ i < Len(s))}
  BY DEF Text6!Stops
<1> HIDE DEF Text6!Stops
<1>11. \A i \in 1..Len(s) : i \notin Text6!Stops(s) => s[i] \in GroupValue \/ (i = Len(s) /\ s[i] = Text6!Empty)
  <2> SUFFICES ASSUME NEW i \in 1..Len(s), i \notin Text6!Stops(s)
               PROVE  s[i] \in GroupValue \/ (i = Len(s) /\ s[i] = Text6!Empty)
    OBVIOUS
  <2>1. s[i] \in Text6!Field BY <1>8
  <2>2. s[i] # Text6!Wrong /\ ~(s[i] = Text6!Empty /\ i < Len(s)) BY <1>10
  <2>3. i < Len(s) \/ i = Len(s) BY <1>7
  <2>4. s[i] \in GroupValue \/ s[i] = Text6!Empty BY <2>1, <2>2 DEF Text6!Field
  <2> QED BY <2>2, <2>3, <2>4
<1>12. /\ Text6!Double(f) \subseteq Text6!Stops(s)
       /\ \A i \in 1..n : i \in Text6!Stops(s) => i \in Text6!Double(f) \/ i - 1 \in Text6!Double(f)
  <2>1. /\ Text6!Double(f) = {i \in 2..(n - 1) : f[i] = Text6!Empty}
        /\ f[n] = Text6!Empty => n - 1 \in Text6!Double(f)
        /\ f[1] \in GroupValue
        /\ f[n] # Text6!Empty => f[n] \in GroupValue
        /\ \A i \in 2..(n - 1) : i \notin Text6!Double(f) => f[i] \in GroupValue
    BY CorrectIs
  <2>2. Text6!Empty \notin GroupValue /\ Text6!Wrong \notin GroupValue /\ Text6!Empty # Text6!Wrong
    BY TextAssumption DEF Text6!Empty, Text6!Wrong
  <2>3. ASSUME NEW i \in Text6!Double(f) PROVE i \in Text6!Stops(s)
    <3>1. i \in 2..(n - 1) /\ f[i] = Text6!Empty BY <2>1
    <3>2. i \in 1..n /\ i < Len(s) BY <1>1, <1>5, <1>7, <3>1
    <3> QED BY <1>9, <1>10, <3>1, <3>2
  <2>4. ASSUME NEW i \in 1..n, i \in Text6!Stops(s), i \notin Text6!Double(f) PROVE i - 1 \in Text6!Double(f)
    <3>1. f[i] = Text6!Wrong \/ (f[i] = Text6!Empty /\ i < Len(s)) BY <1>9, <1>10, <2>4
    <3>2. i = 1 \/ i = n \/ i \in 2..(n - 1) BY <1>1
    <3>3. CASE i = 1 BY <2>1, <2>2, <3>1, <3>3
    <3>4. CASE i \in 2..(n - 1) BY <2>1, <2>2, <2>4, <3>1, <3>4
    <3>5. CASE i = n
      <4>1. f[n] # Text6!Wrong BY <2>1, <2>2
      <4>2. f[n] = Text6!Empty BY <3>1, <3>5, <4>1
      <4> QED BY <2>1, <3>5, <4>2
    <3> QED BY <3>2, <3>3, <3>4, <3>5
  <2> QED BY <2>3, <2>4
<1> QED BY <1>5, <1>6, <1>7, <1>8, <1>9, <1>10, <1>11, <1>12

\* "::" in between, or not at all.
LEMMA PlainIs ==
    ASSUME NEW n \in 1..(Groups + 1), NEW f \in [1..n -> Text6!Field], Text6!IPv6isCorrect(f),
           NEW zone \in Zones, f[1] # Text6!Empty
    PROVE  /\ Text6!Plain(f, zone).addr \in Text6!Address
           /\ Text6!Plain(f, zone).ok \in BOOLEAN
           /\ Text6!Double(f) = {} /\ Text6!Proper(f) =>
                 /\ Text6!Plain(f, zone).ok => zone = <<>>
                 /\ zone = <<>> => Text6!Plain(f, zone) = [addr |-> Text6!Meaning(f), ok |-> TRUE]
           /\ Text6!Double(f) # {} =>
                 /\ ~Text6!Plain(f, zone).ok
                 /\ Text6!Plain(f, zone).addr =
                        LET i == CHOOSE j \in Text6!Double(f) : TRUE
                        IN  Text6!Padded(SubSeq(f, 1, i - 1), 0)
<1>1. /\ Len(f) = n /\ n \in 3..(Groups + 1)
      /\ Text6!Double(f) \subseteq 2..(n - 1)
      /\ \A i, j \in Text6!Double(f) : i = j
      /\ f[n] = Text6!Empty => n - 1 \in Text6!Double(f)
  BY CorrectIs
<1>2. Groups \in Nat /\ 0 \in GroupValue /\ n \in Nat BY TextAssumption
<1> DEFINE s == f \o zone
           N == Len(s)
           S == Text6!Stops(s)
           groups == IF Text6!Last(s) = Text6!Empty THEN Text6!Front(s) ELSE s
<1>3. /\ Len(zone) \in Nat /\ (Len(zone) = 0 => zone = <<>>)
      /\ N \in Nat /\ N = n + Len(zone) /\ s \in [1..N -> Text6!Field]
      /\ (zone = <<>> => s = f)
      /\ \A i \in 1..n : s[i] = f[i]
      /\ S \subseteq 1..N
      /\ \A i \in 1..N : i \notin S => s[i] \in GroupValue \/ (i = N /\ s[i] = Text6!Empty)
      /\ Text6!Double(f) \subseteq S
      /\ \A i \in 1..n : i \in S => i \in Text6!Double(f) \/ i - 1 \in Text6!Double(f)
  BY StreamIs
<1>4. Text6!Plain(f, zone) =
          IF S # {} THEN [addr |-> Text6!Padded(SubSeq(s, 1, Text6!Min(S) - 1), 0), ok |-> FALSE]
          ELSE [addr |-> Text6!Padded(groups, Text6!Last(groups)), ok |-> N <= Groups]
  BY DEF Text6!Plain
<1> HIDE DEF s, N, S, groups
<1>5. Text6!Double(f) = {} /\ Text6!Proper(f) => n = Groups /\ Text6!Meaning(f) = f
  BY <1>1 DEF Text6!Proper, Text6!Meaning
<1>6. CASE S # {}
  <2> DEFINE m == Text6!Min(S)
  <2>1. m \in S /\ \A i \in S : m <= i
    <3>1. PICK x \in S : \A y \in S : x <= y
      <4>1. S \in SUBSET Nat BY <1>3
      <4> QED BY <1>6, <4>1, LeastOf
    <3> QED BY <3>1 DEF Text6!Min
  <2> HIDE DEF m
  <2>2. m \in 1..N BY <1>3, <2>1
  <2>3. \A j \in 1..(m - 1) : s[j] \in GroupValue
    <3> SUFFICES ASSUME NEW j \in 1..(m - 1) PROVE s[j] \in GroupValue OBVIOUS
    <3>1. j \in 1..N /\ j # N /\ ~(m <= j) BY <1>3, <2>2
    <3> QED BY <1>3, <2>1, <3>1
  <2>4. /\ SubSeq(s, 1, m - 1) \in Seq(GroupValue) /\ Len(SubSeq(s, 1, m - 1)) = m - 1
        /\ \A j \in 1..(m - 1) : SubSeq(s, 1, m - 1)[j] = s[j]
    <3>1. 1 \in 1..(N + 1) /\ m - 1 \in (1 - 1)..N /\ m - 1 - 1 + 1 = m - 1 /\ \A j \in 1..(m - 1) : 1 + j - 1 = j
      BY <1>3, <2>2
    <3> QED BY <1>3, <2>3, <3>1, PartIs
  <2>5. Text6!Plain(f, zone) = [addr |-> Text6!Padded(SubSeq(s, 1, m - 1), 0), ok |-> FALSE]
    BY <1>4, <1>6 DEF m
  <2>6. m - 1 \in Nat BY <1>3, <2>2
  <2>7. Text6!Padded(SubSeq(s, 1, m - 1), 0) \in Text6!Address BY <1>2, <2>4, <2>6, PaddedIs
  <2>8. CASE Text6!Double(f) = {}
    <3>1. ~(zone = <<>>)
      <4> SUFFICES ASSUME zone = <<>> PROVE FALSE OBVIOUS
      <4>1. m \in 1..n BY <1>1, <1>3, <2>2 DEF N
      <4> QED BY <1>3, <2>1, <2>8, <4>1
    <3> QED BY <2>5, <2>7, <2>8, <3>1
  <2>9. CASE Text6!Double(f) # {}
    <3> DEFINE c == CHOOSE j \in Text6!Double(f) : TRUE
    <3>1. c \in Text6!Double(f) BY <2>9
    <3> HIDE DEF c
    <3>2. c \in 2..(n - 1) BY <1>1, <3>1
    <3>3. m = c
      <4>1. m <= c BY <1>3, <2>1, <3>1
      <4>2. m \in 1..n BY <1>2, <2>2, <3>2, <4>1
      <4>3. m = c \/ m - 1 = c BY <1>1, <1>3, <2>1, <3>1, <4>2
      <4> QED BY <2>2, <3>2, <4>1, <4>3
    <3>4. /\ Len(SubSeq(f, 1, c - 1)) = c - 1
          /\ \A j \in 1..(c - 1) : SubSeq(f, 1, c - 1)[j] = f[j]
      <4>1. 1 \in 1..(n + 1) /\ c - 1 \in (1 - 1)..n /\ c - 1 - 1 + 1 = c - 1 /\ \A j \in 1..(c - 1) : 1 + j - 1 = j /\ j \in 1..n
        BY <1>2, <3>2
      <4>2. \A j \in 1..(c - 1) : f[j] \in GroupValue BY <1>3, <2>3, <3>3, <4>1
      <4> QED BY <1>2, <4>1, <4>2, PartIs
    <3>5. Text6!Padded(SubSeq(s, 1, m - 1), 0) = Text6!Padded(SubSeq(f, 1, c - 1), 0)
      <4>1. \A j \in 1..(c - 1) : SubSeq(s, 1, m - 1)[j] = SubSeq(f, 1, c - 1)[j]
        <5>1. \A j \in 1..(c - 1) : j \in 1..n BY <1>2, <3>2
        <5> QED BY <1>3, <2>4, <3>3, <3>4, <5>1
      <4>2. Len(SubSeq(s, 1, m - 1)) = c - 1 BY <2>4, <3>3
      <4>3. \A g \in 1..Groups : g <= c - 1 => g \in 1..(c - 1) BY <1>2, <3>2
      <4> QED BY <3>4, <4>1, <4>2, <4>3 DEF Text6!Padded
    <3> QED BY <2>5, <2>7, <2>9, <3>5 DEF c
  <2> QED BY <2>8, <2>9
<1>7. CASE S = {}
  <2>1. Text6!Double(f) = {} BY <1>3, <1>7
  <2>2. Text6!Plain(f, zone) = [addr |-> Text6!Padded(groups, Text6!Last(groups)), ok |-> N <= Groups]
    BY <1>4, <1>7
  <2>3. N >= 3 /\ N \in 1..N BY <1>1, <1>2, <1>3
  <2>4. \A j \in 1..(N - 1) : s[j] \in GroupValue
    <3> SUFFICES ASSUME NEW j \in 1..(N - 1) PROVE s[j] \in GroupValue OBVIOUS
    <3>1. j \in 1..N /\ j # N BY <1>3
    <3> QED BY <1>3, <1>7, <3>1
  <2>5. groups \in Seq(GroupValue) /\ Len(groups) \in Nat /\ Text6!Last(groups) \in GroupValue
    <3>1. CASE s[N] = Text6!Empty
      <4>1. groups = SubSeq(s, 1, N - 1) BY <3>1 DEF groups, N, Text6!Last, Text6!Front
      <4>2. /\ SubSeq(s, 1, N - 1) \in Seq(GroupValue) /\ Len(SubSeq(s, 1, N - 1)) = N - 1
            /\ \A j \in 1..(N - 1) : SubSeq(s, 1, N - 1)[j] = s[j]
        <5>1. /\ 1 \in 1..(N + 1) /\ N - 1 \in (1 - 1)..N /\ N - 1 - 1 + 1 = N - 1
              /\ \A j \in 1..(N - 1) : 1 + j - 1 = j
          BY <1>3, <2>3
        <5> QED BY <1>3, <2>4, <5>1, PartIs
      <4>3. N - 1 \in 1..(N - 1) /\ N - 1 \in Nat BY <1>3, <2>3
      <4>4. groups[N - 1] \in GroupValue BY <2>4, <4>1, <4>2, <4>3
      <4> QED BY <4>1, <4>2, <4>3, <4>4 DEF Text6!Last
    <3>2. CASE s[N] # Text6!Empty
      <4>1. groups = s BY <3>2 DEF groups, N, Text6!Last
      <4>2. s[N] \in GroupValue BY <1>3, <1>7, <2>3, <3>2
      <4>3. \A j \in 1..N : s[j] \in GroupValue
        <5>1. \A j \in 1..N : j = N \/ j \in 1..(N - 1) BY <1>3
        <5> QED BY <2>4, <4>2, <5>1
      <4>4. s \in [1..N -> GroupValue] BY <1>3, <4>3
      <4>5. s \in Seq(GroupValue) /\ Len(s) = N BY <1>3, <4>4 DEF N
      <4> QED BY <1>3, <4>1, <4>2, <4>5 DEF Text6!Last
    <3> QED BY <3>1, <3>2
  <2>6. Text6!Padded(groups, Text6!Last(groups)) \in Text6!Address BY <2>5, PaddedIs
  <2>7. ASSUME Text6!Proper(f), zone = <<>> PROVE Text6!Plain(f, zone) = [addr |-> Text6!Meaning(f), ok |-> TRUE]
    <3>1. s = f /\ N = n /\ n = Groups /\ Text6!Meaning(f) = f BY <1>1, <1>3, <1>5, <2>1, <2>7 DEF N
    <3>2. f[n] # Text6!Empty BY <1>1, <2>1
    <3>3. groups = f BY <1>1, <3>1, <3>2 DEF groups, Text6!Last
    <3>4. Text6!Padded(groups, Text6!Last(groups)) = f BY <1>1, <1>2, <2>5, <3>1, <3>3, PaddedIs
    <3> DEFINE fits == N <= Groups
    <3>5. fits = TRUE BY <1>2, <3>1
    <3>6. Text6!Plain(f, zone) = [addr |-> Text6!Padded(groups, Text6!Last(groups)), ok |-> fits]
      BY <2>2
    <3> HIDE DEF fits
    <3> QED BY <3>1, <3>4, <3>5, <3>6
  <2>8. ASSUME Text6!Proper(f), Text6!Plain(f, zone).ok PROVE zone = <<>>
    <3> DEFINE fits == N <= Groups
               padded == Text6!Padded(groups, Text6!Last(groups))
    <3>1. Text6!Plain(f, zone) = [addr |-> padded, ok |-> fits] BY <2>2
    <3> HIDE DEF fits, padded
    <3>2. Text6!Plain(f, zone).ok = fits BY ONLY <3>1
    <3>3. N <= Groups BY <2>8, <3>2, Zenon DEF fits
    <3>4. n = Groups BY <1>5, <2>1, <2>8
    <3> QED BY <1>2, <1>3, <3>3, <3>4
  <2>9. (N <= Groups) \in BOOLEAN OBVIOUS
  <2> QED BY <2>1, <2>2, <2>6, <2>7, <2>8, <2>9
<1> QED BY <1>6, <1>7

LEMMA ReadingIs ==
    ASSUME NEW tt \in Text6!Text, NEW before \in Text6!Address
    PROVE  /\ Text6!setIPv6(tt, before).addr \in Text6!Address
           /\ Text6!setIPv6(tt, before).ok \in BOOLEAN
           /\ Sound(tt.fields, tt.zone, Text6!setIPv6(tt, before).addr, Text6!setIPv6(tt, before).ok)
<1>1. PICK n \in 1..(Groups + 1) : tt.fields \in [1..n -> Text6!Field] BY DEF Text6!Text
<1> PICK f \in [1..n -> Text6!Field], zone \in Zones : f = tt.fields /\ zone = tt.zone
  BY <1>1 DEF Text6!Text
<1> DEFINE r == Text6!setIPv6(tt, before)
<1>2. Groups \in Nat /\ 0 \in GroupValue BY TextAssumption
<1>3. Text6!Last(f) = f[n]
  <2>1. Len(f) = n BY <1>2
  <2> QED BY <2>1 DEF Text6!Last
<1>4. CASE ~Text6!IPv6isCorrect(f)
  <2>1. r = [addr |-> before, ok |-> FALSE] BY <1>4 DEF Text6!setIPv6
  <2>2. ~Text6!Proper(f) BY <1>4 DEF Text6!Proper
  <2> QED BY <2>1, <2>2 DEF Sound
<1>5. CASE Text6!IPv6isCorrect(f) /\ f[1] = Text6!Empty /\ f[n] = Text6!Empty /\ zone # <<>>
  <2>1. r = [addr |-> Text6!Padded(<<>>, 0), ok |-> FALSE]
    <3>1. Len(f) = n BY <1>2
    <3> QED BY <1>5, <3>1 DEF Text6!setIPv6
  <2>2. Text6!Padded(<<>>, 0) \in Text6!Address
    <3>1. <<>> \in Seq(GroupValue) /\ Len(<<>>) = 0 /\ 0 \in Nat OBVIOUS
    <3> QED BY <1>2, <3>1, PaddedIs
  <2> QED BY <1>5, <2>1, <2>2 DEF Sound
<1>6. CASE Text6!IPv6isCorrect(f) /\ f[1] = Text6!Empty /\ ~(f[n] = Text6!Empty /\ zone # <<>>)
  <2>1. r = Text6!Leading(f, zone)
    <3>1. Len(f) = n BY <1>2
    <3> QED BY <1>6, <3>1 DEF Text6!setIPv6
  <2>2. /\ Text6!Leading(f, zone).addr \in Text6!Address
        /\ Text6!Leading(f, zone).ok = (zone = <<>>)
        /\ Text6!Leading(f, zone).addr = Text6!Meaning(f)
    BY <1>6, LeadingIs
  <2>3. ~Text6!OpenEnd(f)
    <3>1. CASE f[n] # Text6!Empty BY <1>3, <3>1 DEF Text6!OpenEnd
    <3>2. CASE f[n] = Text6!Empty
      <4>1. n - 1 = 2 /\ Len(f) = n BY <1>2, <1>6, <3>2, CorrectIs
      <4>2. Len(f) - 2 = 1 BY <1>2, <4>1
      <4> QED BY <1>6, <4>2 DEF Text6!OpenEnd
    <3> QED BY <3>1, <3>2
  <2> QED BY <1>6, <2>1, <2>2, <2>3 DEF Sound
<1>7. CASE Text6!IPv6isCorrect(f) /\ f[1] # Text6!Empty /\ f[n] = Text6!Empty /\ zone = <<>>
  <2>1. r = Text6!Trailing(f)
    <3>1. Len(f) = n BY <1>2
    <3> QED BY <1>7, <3>1 DEF Text6!setIPv6
  <2>2. /\ Text6!Trailing(f).addr \in Text6!Address /\ Text6!Trailing(f).ok \in BOOLEAN
        /\ Text6!Trailing(f).ok =>
              IF Text6!OpenEnd(f)
              THEN /\ Text6!Trailing(f).addr = Text6!Padded(SubSeq(f, 1, Len(f) - 2), f[Len(f) - 2])
                   /\ Text6!Trailing(f).addr # Text6!Meaning(f)
              ELSE Text6!Trailing(f).addr = Text6!Meaning(f)
    BY <1>7, TrailingIs
  <2> QED BY <1>3, <1>7, <2>1, <2>2 DEF Sound
<1>8. CASE Text6!IPv6isCorrect(f) /\ f[1] # Text6!Empty /\ ~(f[n] = Text6!Empty /\ zone = <<>>)
  <2>1. r = Text6!Plain(f, zone)
    <3>1. Len(f) = n BY <1>2
    <3> QED BY <1>8, <3>1 DEF Text6!setIPv6
  <2>2. /\ Text6!Plain(f, zone).addr \in Text6!Address
        /\ Text6!Plain(f, zone).ok \in BOOLEAN
        /\ Text6!Double(f) = {} /\ Text6!Proper(f) =>
              /\ Text6!Plain(f, zone).ok => zone = <<>>
              /\ zone = <<>> => Text6!Plain(f, zone) = [addr |-> Text6!Meaning(f), ok |-> TRUE]
        /\ Text6!Double(f) # {} =>
              /\ ~Text6!Plain(f, zone).ok
              /\ Text6!Plain(f, zone).addr =
                     LET i == CHOOSE j \in Text6!Double(f) : TRUE
                     IN  Text6!Padded(SubSeq(f, 1, i - 1), 0)
    BY <1>8, PlainIs
  <2>3. Text6!Double(f) = {} => ~Text6!OpenEnd(f)
    <3>1. Text6!Double(f) = {} => f[n] # Text6!Empty BY <1>8, CorrectIs
    <3> QED BY <1>3, <3>1 DEF Text6!OpenEnd
  <2>4. Text6!Double(f) = {} => Sound(f, zone, r.addr, r.ok)
    <3> SUFFICES ASSUME Text6!Double(f) = {}, r.ok, Text6!Proper(f)
                 PROVE  zone = <<>> /\ r.addr = Text6!Meaning(f)
      BY <2>3 DEF Sound
    <3>1. zone = <<>> BY <2>1, <2>2
    <3>2. Text6!Plain(f, zone) = [addr |-> Text6!Meaning(f), ok |-> TRUE] BY <2>2, <3>1
    <3> QED BY <2>1, <3>1, <3>2
  <2>5. Text6!Double(f) # {} => Sound(f, zone, r.addr, r.ok) BY <2>1, <2>2 DEF Sound
  <2> QED BY <2>1, <2>2, <2>4, <2>5
<1> QED BY <1>4, <1>5, <1>6, <1>7, <1>8

\* Two zero groups side by side.
Adjacent(a) == \E g \in 1..(Groups - 1) : a[g] = 0 /\ a[g + 1] = 0

LEMMA RunAround ==
    ASSUME NEW a \in Text6!Address, NEW g \in 1..(Groups - 1), a[g] = 0, a[g + 1] = 0
    PROVE  \E r \in Text6!Runs(a) : r[2] >= 2
<1>1. Groups \in Nat BY TextAssumption
<1> DEFINE S == {j \in 1..g : \A k \in j..g : a[k] = 0}
           E == {x \in Nat : x <= Groups - (g + 1) /\ \A k \in g..(Groups - x) : a[k] = 0}
<1>2. PICK j \in S : \A i \in S : j <= i
  <2>1. g \in S OBVIOUS
  <2>2. S \in SUBSET Nat OBVIOUS
  <2> HIDE DEF S
  <2> QED BY <2>1, <2>2, LeastOf
<1>3. PICK x \in E : \A y \in E : x <= y
  <2>1. Groups - (g + 1) \in E
    <3>1. Groups - (g + 1) \in Nat /\ Groups - (Groups - (g + 1)) = g + 1 BY <1>1
    <3>2. \A k \in g..(g + 1) : k = g \/ k = g + 1 OBVIOUS
    <3> QED BY <3>1, <3>2
  <2>2. E \in SUBSET Nat OBVIOUS
  <2> HIDE DEF E
  <2> QED BY <2>1, <2>2, LeastOf
<1> PICK e \in (g + 1)..Groups : e = Groups - x BY <1>1, <1>3
<1>4. j = 1 \/ a[j - 1] # 0
  <2> SUFFICES ASSUME j # 1, a[j - 1] = 0 PROVE FALSE OBVIOUS
  <2>1. j \in 1..g /\ j - 1 \in 1..g /\ ~(j <= j - 1) BY <1>2
  <2>2. \A k \in (j - 1)..g : k = j - 1 \/ k \in j..g BY <2>1
  <2>3. j - 1 \in S BY <1>2, <2>1, <2>2
  <2> QED BY <1>2, <2>1, <2>3
<1>5. e + 1 > Groups \/ a[e + 1] # 0
  <2> SUFFICES ASSUME e + 1 <= Groups, a[e + 1] = 0 PROVE FALSE BY <1>1
  <2>1. x - 1 \in Nat /\ x - 1 <= Groups - (g + 1) /\ Groups - (x - 1) = e + 1 /\ ~(x <= x - 1)
    BY <1>1, <1>3
  <2>2. \A k \in g..(e + 1) : k = e + 1 \/ k \in g..(Groups - x) BY <1>1
  <2>3. x - 1 \in E BY <1>3, <2>1, <2>2
  <2> QED BY <1>3, <2>1, <2>3
<1>6. j \in 1..Groups /\ e - j + 1 \in 1..Groups /\ e - j + 1 >= 2 BY <1>1, <1>2
<1>7. j + (e - j + 1) - 1 = e /\ j + (e - j + 1) = e + 1 BY <1>1, <1>2
<1>8. \A k \in j..e : a[k] = 0
  <2>1. \A k \in j..e : k \in j..g \/ k \in g..(Groups - x) BY <1>2
  <2> QED BY <1>2, <1>3, <2>1
<1>9. e <= Groups OBVIOUS
<1> PICK z \in 1..Groups : z = e - j + 1 BY <1>6
<1>10. /\ <<j, z>> \in (1..Groups) \X (1..Groups)
       /\ <<j, z>>[1] = j /\ <<j, z>>[2] = z
  BY <1>6
<1>11. j + z - 1 = e /\ j + z = e + 1 BY <1>7
<1> HIDE DEF S, E
<1>12. <<j, z>> \in Text6!Runs(a) BY <1>4, <1>5, <1>8, <1>9, <1>10, <1>11 DEF Text6!Runs
<1> QED BY <1>6, <1>10, <1>12

\* The first of the longest runs, where there are any.
LEMMA LongestIs ==
    ASSUME NEW a \in Text6!Address, Text6!Runs(a) # {}
    PROVE  /\ Text6!Longest(Text6!Runs(a)) \in Text6!Runs(a)
           /\ \A r \in Text6!Runs(a) : r[2] <= Text6!Longest(Text6!Runs(a))[2]
<1>1. Groups \in Nat BY TextAssumption
<1> DEFINE R == Text6!Runs(a)
           S == {Groups - r[2] : r \in R}
<1>2. \A r \in R : r[1] \in 1..Groups /\ r[2] \in 1..Groups BY DEF Text6!Runs
<1> HIDE DEF R
<1>3. PICK s \in S : \A v \in S : s <= v
  <2>1. S \in SUBSET Nat BY <1>1, <1>2
  <2>2. S # {} BY DEF R
  <2> HIDE DEF S
  <2> QED BY <2>1, <2>2, LeastOf
<1>4. PICK q \in R : s = Groups - q[2] BY <1>3
<1>5. \A r \in R : r[2] <= q[2]
  <2> SUFFICES ASSUME NEW r \in R PROVE r[2] <= q[2] OBVIOUS
  <2>1. Groups - r[2] \in S OBVIOUS
  <2>2. s <= Groups - r[2] BY <1>3, <2>1
  <2> QED BY <1>1, <1>2, <1>4, <2>2
<1> DEFINE F == {r[1] : r \in {w \in R : w[2] = q[2]}}
<1>6. PICK i \in F : \A k \in F : i <= k
  <2>1. F \in SUBSET Nat BY <1>2
  <2>2. q[1] \in F BY <1>4
  <2> HIDE DEF F
  <2> QED BY <2>1, <2>2, LeastOf
<1>7. PICK b \in R : b[2] = q[2] /\ b[1] = i BY <1>6
<1>8. \A r \in R : r[2] < b[2] \/ (r[2] = b[2] /\ b[1] <= r[1])
  <2> SUFFICES ASSUME NEW r \in R, ~(r[2] < b[2]) PROVE r[2] = b[2] /\ b[1] <= r[1] OBVIOUS
  <2>1. r[2] = q[2] BY <1>2, <1>5, <1>7
  <2>2. r[1] \in F BY <2>1
  <2> QED BY <1>6, <1>7, <2>1, <2>2
<1> DEFINE First(p) == p \in R /\ \A r \in R : r[2] < p[2] \/ (r[2] = p[2] /\ p[1] <= r[1])
<1>9. First(b) BY <1>8
<1>10. Text6!Longest(R) = CHOOSE p : First(p) BY DEF Text6!Longest
<1>11. First(Text6!Longest(R))
  <2> HIDE DEF First
  <2> QED BY <1>9, <1>10
<1>12. \A r \in R : r[2] <= Text6!Longest(R)[2]
  <2> SUFFICES ASSUME NEW r \in R PROVE r[2] <= Text6!Longest(R)[2] OBVIOUS
  <2>1. r[2] < Text6!Longest(R)[2] \/ r[2] = Text6!Longest(R)[2] BY <1>11
  <2>2. r[2] \in Int /\ Text6!Longest(R)[2] \in Int BY <1>2, <1>11
  <2> QED BY <2>1, <2>2
<1> QED BY <1>11, <1>12 DEF R

\* What toIPv6string leaves out: nothing, or a run, from where it is or from half its
\* size on.
LEMMA SkippedIs ==
    ASSUME NEW a \in Text6!Address
    PROVE  /\ ~Adjacent(a) => Text6!Skipped(a) = <<0, 0>>
           /\ Adjacent(a) =>
                 \E r \in Text6!Runs(a) :
                    /\ r[2] >= 2
                    /\ r[1] + r[2] > Groups => Text6!Skipped(a) = r
                    /\ r[1] + r[2] <= Groups =>
                          Text6!Skipped(a) = <<(r[2] + 1) \div 2 + 1, r[2]>>
<1>1. Groups \in Nat BY TextAssumption
<1> DEFINE R == Text6!Runs(a)
           l == Text6!Longest(R)
<1>2. \A r \in R : /\ r[1] \in 1..Groups /\ r[2] \in 1..Groups /\ r[1] + r[2] - 1 <= Groups
                   /\ \A g \in r[1]..(r[1] + r[2] - 1) : a[g] = 0
  BY DEF Text6!Runs
<1>3. R # {} => l \in R /\ \A r \in R : r[2] <= l[2] BY LongestIs
<1>4. Text6!Skipped(a) = IF R = {} \/ l[2] < 2 THEN <<0, 0>>
                         ELSE IF l[1] + l[2] > Groups THEN l
                         ELSE <<(l[2] + 1) \div 2 + 1, l[2]>>
  BY DEF Text6!Skipped
<1>5. ASSUME Adjacent(a) PROVE R # {} /\ ~(l[2] < 2)
  <2>1. PICK g \in 1..(Groups - 1) : a[g] = 0 /\ a[g + 1] = 0 BY <1>5 DEF Adjacent
  <2>2. PICK r \in R : r[2] >= 2 BY <2>1, RunAround
  <2> HIDE DEF R, l
  <2>3. l \in R /\ r[2] <= l[2] BY <1>3, <2>2
  <2>4. l[2] \in Int /\ r[2] \in Int BY <1>2, <2>3
  <2> QED BY <2>2, <2>3, <2>4
<1>6. ASSUME R # {}, ~(l[2] < 2) PROVE Adjacent(a)
  <2> HIDE DEF R, l
  <2>1. l \in R BY <1>3, <1>6
  <2>2. l[1] \in 1..(Groups - 1) /\ l[1] \in l[1]..(l[1] + l[2] - 1) /\ l[1] + 1 \in l[1]..(l[1] + l[2] - 1)
    BY <1>1, <1>2, <1>6, <2>1
  <2>3. a[l[1]] = 0 /\ a[l[1] + 1] = 0 BY <1>2, <2>1, <2>2
  <2> QED BY <2>2, <2>3 DEF Adjacent
<1>7. ASSUME ~Adjacent(a) PROVE Text6!Skipped(a) = <<0, 0>>
  <2> HIDE DEF R, l
  <2> QED BY <1>4, <1>6, <1>7
<1>8. ASSUME Adjacent(a)
      PROVE  \E r \in R : /\ r[2] >= 2
                          /\ r[1] + r[2] > Groups => Text6!Skipped(a) = r
                          /\ r[1] + r[2] <= Groups =>
                                Text6!Skipped(a) = <<(r[2] + 1) \div 2 + 1, r[2]>>
  <2> HIDE DEF R, l
  <2>1. l \in R /\ ~(l[2] < 2) /\ R # {} BY <1>3, <1>5, <1>8
  <2>2. l[1] \in Int /\ l[2] \in Int BY <1>2, <2>1
  <2>3. l[1] + l[2] > Groups => Text6!Skipped(a) = l BY <1>4, <2>1
  <2>4. l[1] + l[2] <= Groups => Text6!Skipped(a) = <<(l[2] + 1) \div 2 + 1, l[2]>>
    <3>1. l[1] + l[2] <= Groups => ~(l[1] + l[2] > Groups) BY <1>1, <2>2
    <3> QED BY <1>4, <2>1, <3>1
  <2>5. l[2] >= 2 BY <2>1, <2>2
  <2> QED BY <2>1, <2>3, <2>4, <2>5
<1> QED BY <1>7, <1>8

\* A piece of an address.
LEMMA PieceIs ==
    ASSUME NEW a \in Text6!Address, NEW i \in 1..(Groups + 1), NEW k \in (i - 1)..Groups
    PROVE  /\ SubSeq(a, i, k) \in Seq(GroupValue) /\ Len(SubSeq(a, i, k)) = k - i + 1
           /\ \A j \in 1..(k - i + 1) : SubSeq(a, i, k)[j] = a[i + j - 1]
<1>1. Groups \in Nat BY TextAssumption
<1>2. a \in [1..Groups -> Text6!Field] BY DEF Text6!Address, Text6!Field
<1>3. \A j \in i..k : a[j] \in GroupValue BY <1>1 DEF Text6!Address
<1> QED BY <1>1, <1>2, <1>3, PartIs

\* The texts written for an address with zeros side by side: nothing before the dots,
\* the groups up to place k and then one or two empty fields, or a hole.
Cut(a, k) == SubSeq(a, 1, k - 1) \o <<Text6!Empty>>
CutAtEnd(a, k) == SubSeq(a, 1, k - 1) \o (<<Text6!Empty>> \o <<Text6!Empty>>)
Holed(a, k, m) == SubSeq(a, 1, k - 1) \o (<<Text6!Empty>> \o SubSeq(a, m, Groups))

LEMMA WrittenIs ==
    ASSUME NEW a \in Text6!Address, Adjacent(a)
    PROVE  \/ Text6!toIPv6string(a) = <<Text6!Wrong, Text6!Empty>>
           \/ \E k \in 2..Groups : Text6!toIPv6string(a) = Cut(a, k)
           \/ \E k \in 2..(Groups - 1) :
                 /\ Text6!toIPv6string(a) = CutAtEnd(a, k)
                 /\ \E g \in k..Groups : a[g] # a[g - 1]
           \/ \E k \in 2..Groups, m \in 1..Groups :
                 /\ Text6!toIPv6string(a) = Holed(a, k, m)
                 /\ k + 2 <= m
<1>1. Groups \in Nat BY TextAssumption
<1>2. PICK r \in Text6!Runs(a) :
         /\ r[2] >= 2
         /\ r[1] + r[2] > Groups => Text6!Skipped(a) = r
         /\ r[1] + r[2] <= Groups => Text6!Skipped(a) = <<(r[2] + 1) \div 2 + 1, r[2]>>
  BY SkippedIs
<1> PICK q \in 1..Groups, size \in 1..Groups : q = r[1] /\ size = r[2] BY <1>2 DEF Text6!Runs
<1>3. /\ q + size - 1 <= Groups
      /\ \A g \in q..(q + size - 1) : a[g] = 0
      /\ q = 1 \/ a[q - 1] # 0
      /\ q + size > Groups \/ a[q + size] # 0
      /\ r = <<q, size>>
  BY <1>2 DEF Text6!Runs
<1>4. size >= 2 BY <1>2
<1> PICK k \in 1..Groups :
        /\ Text6!Skipped(a) = <<k, size>>
        /\ q + size > Groups => k = q
        /\ q + size <= Groups => k = (size + 1) \div 2 + 1
  <2>1. CASE q + size > Groups BY <1>1, <1>2, <1>3, <2>1
  <2>2. CASE q + size <= Groups
    <3>1. (size + 1) \div 2 + 1 \in 1..Groups BY <1>1, <1>4, <2>2
    <3> QED BY <1>1, <1>2, <2>2, <3>1
  <2> QED BY <1>1, <2>1, <2>2
<1> DEFINE behind == SubSeq(a, k + size, Groups)
           after == IF k + size - 1 > Groups THEN <<Text6!Empty>>
                    ELSE <<Text6!Empty>> \o IF behind = <<>> THEN <<Text6!Empty>> ELSE behind
<1>5. Text6!toIPv6string(a) = IF k = 1 THEN <<Text6!Wrong, Text6!Empty>>
                              ELSE SubSeq(a, 1, k - 1) \o after
  <2>1. <<k, size>>[1] = k /\ <<k, size>>[2] = size /\ size # 0 OBVIOUS
  <2> QED BY <2>1 DEF Text6!toIPv6string
<1>6. CASE k = 1 BY <1>5, <1>6
<1>7. CASE k # 1 /\ k + size - 1 > Groups
  <2>1. k \in 2..Groups BY <1>1, <1>7
  <2> QED BY <1>5, <1>7, <2>1 DEF Cut
<1>8. CASE k # 1 /\ k + size - 1 = Groups
  <2>1. k \in 2..(Groups - 1) BY <1>1, <1>4, <1>8
  <2>2. behind = <<>>
    <3>1. k + size \in Int /\ Groups \in Int /\ Groups < k + size BY <1>1, <1>8
    <3> QED BY ONLY <3>1, SubSeqEmpty
  <2>3. after = <<Text6!Empty>> \o <<Text6!Empty>>
    <3>1. ~(k + size - 1 > Groups) BY <1>1, <1>8
    <3> HIDE DEF behind
    <3> QED BY <2>2, <3>1
  <2>4. \E g \in k..Groups : a[g] # a[g - 1]
    <3>1. CASE q + size > Groups
      <4>1. a[k] = 0 /\ a[k - 1] # 0 BY <1>1, <1>3, <1>8, <3>1
      <4>2. k \in k..Groups BY <1>1
      <4> QED BY <4>1, <4>2
    <3>2. CASE q + size <= Groups
      <4>1. a[q + size] # 0 BY <1>1, <1>3, <3>2
      <4>2. a[q + size - 1] = 0 BY <1>3, <1>4
      <4>3. q + size \in k..Groups BY <1>1, <1>4, <3>2
      <4> QED BY <4>1, <4>2, <4>3
    <3> QED BY <1>1, <3>1, <3>2
  <2> HIDE DEF after
  <2> QED BY <1>5, <1>8, <2>1, <2>3, <2>4 DEF CutAtEnd
<1>9. CASE k # 1 /\ k + size - 1 < Groups
  <2> PICK m \in 1..Groups : m = k + size BY <1>1, <1>9
  <2>1. k \in 2..Groups /\ k + 2 <= m BY <1>1, <1>4, <1>9
  <2>2. behind # <<>>
    <3>1. Len(behind) = Groups - m + 1
      <4>1. m \in 1..(Groups + 1) /\ Groups \in (m - 1)..Groups BY <1>1
      <4> QED BY <4>1, PieceIs
    <3> HIDE DEF behind
    <3>2. Groups - m + 1 # 0 BY <1>1
    <3> QED BY <3>1, <3>2
  <2>3. after = <<Text6!Empty>> \o SubSeq(a, m, Groups)
    <3>1. ~(k + size - 1 > Groups) BY <1>1, <1>9
    <3> QED BY <2>2, <3>1
  <2> HIDE DEF after, behind
  <2> QED BY <1>5, <1>9, <2>1, <2>3 DEF Holed
<1> QED BY <1>1, <1>6, <1>7, <1>8, <1>9

LEMMA JoinedIs ==
    ASSUME NEW p \in Seq(GroupValue), NEW q \in Seq(Text6!Field), NEW m \in Nat, NEW n \in Nat,
           Len(p) = m, Len(q) = n
    PROVE  /\ p \o q \in [1..(m + n) -> Text6!Field]
           /\ \A i \in 1..m : (p \o q)[i] = p[i]
           /\ \A i \in 1..n : (p \o q)[m + i] = q[i]
<1>1. p \in Seq(Text6!Field) BY DEF Text6!Field
<1> DEFINE z == p \o q
<1>2. /\ z \in Seq(Text6!Field) /\ Len(z) = m + n
      /\ \A i \in 1..(m + n) : z[i] = IF i <= m THEN p[i] ELSE q[i - m]
  BY ONLY <1>1, q \in Seq(Text6!Field), Len(p) = m, Len(q) = n, ConcatProperties
<1> HIDE DEF z
<1>3. z \in [1..(m + n) -> Text6!Field] BY <1>2, LenProperties
<1>4. \A i \in 1..m : i \in 1..(m + n) /\ i <= m OBVIOUS
<1>5. \A i \in 1..n : m + i \in 1..(m + n) /\ ~(m + i <= m) /\ (m + i) - m = i OBVIOUS
<1>6. (\A i \in 1..m : z[i] = p[i]) /\ (\A i \in 1..n : z[m + i] = q[i]) BY <1>2, <1>4, <1>5
<1> QED BY <1>3, <1>6 DEF z

LEMMA GroupsBefore ==
    ASSUME NEW a \in Text6!Address, NEW k \in 2..Groups
    PROVE  /\ SubSeq(a, 1, k - 1) \in Seq(GroupValue) /\ Len(SubSeq(a, 1, k - 1)) = k - 1
           /\ \A j \in 1..(k - 1) : SubSeq(a, 1, k - 1)[j] = a[j]
<1>1. Groups \in Nat BY TextAssumption
<1> PICK i \in 1..(Groups + 1) : i = 1 BY <1>1
<1> PICK h \in (i - 1)..Groups : h = k - 1 BY <1>1
<1>2. /\ SubSeq(a, i, h) \in Seq(GroupValue) /\ Len(SubSeq(a, i, h)) = h - i + 1
      /\ \A j \in 1..(h - i + 1) : SubSeq(a, i, h)[j] = a[i + j - 1]
  BY PieceIs
<1>3. h - i + 1 = k - 1 /\ \A j \in 1..(k - 1) : i + j - 1 = j OBVIOUS
<1> QED BY <1>2, <1>3

LEMMA CutIs ==
    ASSUME NEW a \in Text6!Address, NEW k \in 2..Groups
    PROVE  /\ Cut(a, k) \in [1..k -> Text6!Field]
           /\ \A i \in 1..(k - 1) : Cut(a, k)[i] = a[i]
           /\ Cut(a, k)[k] = Text6!Empty
<1>1. Groups \in Nat BY TextAssumption
<1> DEFINE p == SubSeq(a, 1, k - 1)
           e == <<Text6!Empty>>
<1>2. p \in Seq(GroupValue) /\ Len(p) = k - 1 /\ \A j \in 1..(k - 1) : p[j] = a[j]
  BY GroupsBefore
<1>3. e \in Seq(Text6!Field) /\ Len(e) = 1 /\ e[1] = Text6!Empty BY DEF Text6!Field
<1>4. k - 1 \in Nat /\ 1 \in Nat /\ (k - 1) + 1 = k /\ 1 \in 1..1 BY <1>1
<1> HIDE DEF p, e
<1>5. /\ p \o e \in [1..((k - 1) + 1) -> Text6!Field]
      /\ \A i \in 1..(k - 1) : (p \o e)[i] = p[i]
      /\ \A i \in 1..1 : (p \o e)[(k - 1) + i] = e[i]
  BY ONLY <1>2, <1>3, <1>4, JoinedIs, ZenonT(40)
<1>6. Cut(a, k) = p \o e BY DEF Cut, p, e
<1> QED BY <1>2, <1>3, <1>4, <1>5, <1>6

LEMMA CutAtEndIs ==
    ASSUME NEW a \in Text6!Address, NEW k \in 2..(Groups - 1)
    PROVE  /\ CutAtEnd(a, k) \in [1..(k + 1) -> Text6!Field]
           /\ \A i \in 1..(k - 1) : CutAtEnd(a, k)[i] = a[i]
           /\ CutAtEnd(a, k)[k] = Text6!Empty /\ CutAtEnd(a, k)[k + 1] = Text6!Empty
<1>1. Groups \in Nat BY TextAssumption
<1> DEFINE p == SubSeq(a, 1, k - 1)
           e == <<Text6!Empty>> \o <<Text6!Empty>>
<1>2. p \in Seq(GroupValue) /\ Len(p) = k - 1 /\ \A j \in 1..(k - 1) : p[j] = a[j]
  BY <1>1, k \in 2..Groups, GroupsBefore
<1>3. e \in Seq(Text6!Field) /\ Len(e) = 2 /\ e[1] = Text6!Empty /\ e[2] = Text6!Empty
  BY DEF Text6!Field
<1>4. /\ k - 1 \in Nat /\ 2 \in Nat /\ (k - 1) + 2 = k + 1 /\ (k - 1) + 1 = k
      /\ 1 \in 1..2 /\ 2 \in 1..2
  BY <1>1
<1> HIDE DEF p, e
<1>5. /\ p \o e \in [1..((k - 1) + 2) -> Text6!Field]
      /\ \A i \in 1..(k - 1) : (p \o e)[i] = p[i]
      /\ \A i \in 1..2 : (p \o e)[(k - 1) + i] = e[i]
  BY ONLY <1>2, <1>3, <1>4, JoinedIs, ZenonT(40)
<1>6. CutAtEnd(a, k) = p \o e BY DEF CutAtEnd, p, e
<1> QED BY <1>2, <1>3, <1>4, <1>5, <1>6

LEMMA HoledIs ==
    ASSUME NEW a \in Text6!Address, NEW k \in 2..Groups, NEW m \in 1..Groups, k + 2 <= m
    PROVE  \E n \in (k + 1)..(Groups + 1) :
              /\ Holed(a, k, m) \in [1..n -> Text6!Field]
              /\ Holed(a, k, m)[1] = a[1]
              /\ Holed(a, k, m)[k] = Text6!Empty
              /\ Holed(a, k, m)[n] = a[Groups]
<1>1. Groups \in Nat BY TextAssumption
<1> DEFINE p == SubSeq(a, 1, k - 1)
           e == <<Text6!Empty>>
           s == SubSeq(a, m, Groups)
           x == Groups - m + 1
<1>2. p \in Seq(GroupValue) /\ Len(p) = k - 1 /\ \A j \in 1..(k - 1) : p[j] = a[j]
  BY GroupsBefore
<1>3. s \in Seq(GroupValue) /\ Len(s) = x /\ s[x] = a[Groups]
  <2>1. m \in 1..(Groups + 1) /\ Groups \in (m - 1)..Groups BY <1>1
  <2>2. x \in 1..x /\ m + x - 1 = Groups BY <1>1
  <2>3. s \in Seq(GroupValue) /\ Len(s) = x /\ \A j \in 1..x : s[j] = a[m + j - 1] BY <2>1, PieceIs
  <2> HIDE DEF s, x
  <2> QED BY <2>2, <2>3
<1>4. x \in Nat /\ x >= 1 /\ k + x \in (k + 1)..(Groups + 1) BY <1>1
<1> HIDE DEF p, s, x
<1>5. e \o s \in Seq(Text6!Field) /\ Len(e \o s) = 1 + x /\ (e \o s)[1] = Text6!Empty
      /\ (e \o s)[1 + x] = a[Groups]
  <2>1. e \in Seq(Text6!Field) /\ Len(e) = 1 /\ e[1] = Text6!Empty BY DEF Text6!Field
  <2>2. s \in Seq(Text6!Field) BY <1>3 DEF Text6!Field
  <2> HIDE DEF e
  <2>3. e \o s \in Seq(Text6!Field) /\ Len(e \o s) = Len(e) + Len(s)
    BY ONLY <2>1, <2>2, ConcatProperties
  <2>4. \A j \in 1..(1 + x) : (e \o s)[j] = IF j <= 1 THEN e[j] ELSE s[j - 1]
    <3>1. \A j \in 1..(Len(e) + Len(s)) : (e \o s)[j] = IF j <= Len(e) THEN e[j] ELSE s[j - Len(e)]
      BY ONLY <2>1, <2>2, ConcatProperties
    <3> QED BY <1>3, <2>1, <3>1
  <2>5. 1 \in 1..(1 + x) /\ 1 + x \in 1..(1 + x) /\ ~(1 + x <= 1) /\ (1 + x) - 1 = x BY <1>4
  <2> QED BY <1>3, <2>1, <2>3, <2>4, <2>5
<1>6. /\ k - 1 \in Nat /\ 1 + x \in Nat /\ (k - 1) + (1 + x) = k + x /\ (k - 1) + 1 = k
      /\ 1 \in 1..(1 + x) /\ 1 + x \in 1..(1 + x) /\ 1 \in 1..(k - 1)
  BY <1>1, <1>4
<1> DEFINE q == e \o s
<1>7. Holed(a, k, m) = p \o q BY DEF Holed, p, s
<1> HIDE DEF e
<1>8. q \in Seq(Text6!Field) /\ Len(q) = 1 + x /\ q[1] = Text6!Empty /\ q[1 + x] = a[Groups] BY <1>5
<1> HIDE DEF q
<1>9. /\ p \o q \in [1..((k - 1) + (1 + x)) -> Text6!Field]
      /\ \A i \in 1..(k - 1) : (p \o q)[i] = p[i]
      /\ \A i \in 1..(1 + x) : (p \o q)[(k - 1) + i] = q[i]
  BY ONLY <1>2, <1>6, <1>8, JoinedIs, ZenonT(40)
<1> DEFINE z == p \o q
<1> HIDE DEF z
<1>10. /\ z \in [1..(k + x) -> Text6!Field] /\ z[1] = a[1]
       /\ z[k] = Text6!Empty /\ z[k + x] = a[Groups]
  <2>1. /\ z \in [1..((k - 1) + (1 + x)) -> Text6!Field]
        /\ \A i \in 1..(k - 1) : z[i] = p[i]
        /\ \A i \in 1..(1 + x) : z[(k - 1) + i] = q[i]
    BY <1>9 DEF z
  <2>2. z[1] = a[1] BY <1>2, <1>6, <2>1
  <2>3. z[k] = Text6!Empty BY <1>6, <1>8, <2>1
  <2>4. z[k + x] = a[Groups] BY <1>6, <1>8, <2>1
  <2>5. z \in [1..(k + x) -> Text6!Field] BY <1>6, <2>1
  <2> QED BY <2>2, <2>3, <2>4, <2>5
<1> QED BY <1>4, <1>7, <1>10 DEF z

\* Reading the text of an address.
ReadsBack(a, f) ==
    LET r == Text6!setIPv6([fields |-> f, zone |-> <<>>], a)
    IN  r.ok /\ r.addr = a

LEMMA TextIs ==
    ASSUME NEW n \in 1..(Groups + 1), NEW f \in [1..n -> Text6!Field]
    PROVE  [fields |-> f, zone |-> <<>>] \in Text6!Text
BY ZoneAssumption DEF Text6!Text

\* Without zeros side by side, nothing is left out.
LEMMA WholeIsRead ==
    ASSUME NEW a \in Text6!Address, ~Adjacent(a)
    PROVE  /\ [fields |-> Text6!toIPv6string(a), zone |-> <<>>] \in Text6!Text
           /\ ReadsBack(a, Text6!toIPv6string(a))
<1>1. Groups \in Nat /\ Groups > 3 /\ GroupValue \subseteq Nat /\ 0 \in GroupValue BY TextAssumption
<1>2. Text6!toIPv6string(a) = a
  <2>1. Text6!Skipped(a) = <<0, 0>> BY SkippedIs
  <2>2. <<0, 0>>[2] = 0 OBVIOUS
  <2> QED BY <2>1, <2>2 DEF Text6!toIPv6string
<1>3. Groups \in 1..(Groups + 1) /\ a \in [1..Groups -> Text6!Field] /\ Len(a) = Groups
  BY <1>1 DEF Text6!Address, Text6!Field
<1>4. \A i \in 1..Groups : a[i] # Text6!Empty /\ a[i] # Text6!Wrong
  BY <1>1 DEF Text6!Address, Text6!Empty, Text6!Wrong
<1>5. 1 \in 1..Groups /\ Groups \in 1..Groups /\ Groups - 1 \in 2..Groups /\ Groups - 1 # Groups
  BY <1>1
<1>6. Text6!Double(a) = {}
  <2>1. \A i \in 2..(Groups - 1) : i \in 1..Groups BY <1>1
  <2> QED BY <1>3, <1>4, <2>1 DEF Text6!Double
<1>7. Text6!Cardinality({}) < 2
  <2>1. \A S : Text6!Cardinality(S) = Cardinality(S) BY DEF Text6!Cardinality, Cardinality
  <2>2. Cardinality({}) = 0 BY FS_EmptySet
  <2> QED BY <2>1, <2>2
<1>8. Text6!Wrong \notin Text6!Range(a) BY <1>3, <1>4 DEF Text6!Range
<1>9. a[1] # Text6!Empty /\ a[Groups] # Text6!Empty BY <1>4, <1>5
<1>10. Text6!IPv6isCorrect(a)
  BY <1>3, <1>5, <1>6, <1>7, <1>8, <1>9 DEF Text6!IPv6isCorrect
<1>11. <<>> \in Zones BY ZoneAssumption
<1>12. Text6!Plain(a, <<>>) = [addr |-> a, ok |-> TRUE]
  <2>1. Text6!Proper(a) BY <1>3, <1>10 DEF Text6!Proper
  <2>2. Text6!Meaning(a) = a BY <1>6 DEF Text6!Meaning
  <2> QED BY <1>3, <1>6, <1>9, <1>10, <1>11, <2>1, <2>2, PlainIs
<1>13. Text6!setIPv6([fields |-> a, zone |-> <<>>], a) = Text6!Plain(a, <<>>)
  BY <1>3, <1>9, <1>10 DEF Text6!setIPv6
<1>14. [fields |-> a, zone |-> <<>>] \in Text6!Text BY <1>3, TextIs
<1>15. ReadsBack(a, a)
  <2>1. Text6!setIPv6([fields |-> a, zone |-> <<>>], a) = [addr |-> a, ok |-> TRUE]
    BY ONLY <1>12, <1>13
  <2> QED BY <2>1 DEF ReadsBack
<1> QED BY <1>2, <1>14, <1>15

LEMMA RefusedIs ==
    ASSUME NEW a, NEW f, ~Text6!IPv6isCorrect(f)
    PROVE  ~ReadsBack(a, f)
<1>1. Text6!setIPv6([fields |-> f, zone |-> <<>>], a) = [addr |-> a, ok |-> FALSE]
  BY DEF Text6!setIPv6
<1> QED BY <1>1 DEF ReadsBack

\* A text that ends in one empty field is not correct.
LEMMA CutIsRefused ==
    ASSUME NEW a \in Text6!Address, NEW k \in 2..Groups
    PROVE  /\ [fields |-> Cut(a, k), zone |-> <<>>] \in Text6!Text
           /\ ~ReadsBack(a, Cut(a, k))
<1>1. Groups \in Nat /\ GroupValue \subseteq Nat BY TextAssumption
<1> DEFINE f == Cut(a, k)
<1>2. /\ f \in [1..k -> Text6!Field]
      /\ \A i \in 1..(k - 1) : f[i] = a[i]
      /\ f[k] = Text6!Empty
  BY CutIs
<1> HIDE DEF f
<1>3. k \in 1..(Groups + 1) /\ k \in 1..k /\ k - 1 \in 1..(k - 1) /\ k - 1 \in 1..Groups BY <1>1
<1>4. ~Text6!IPv6isCorrect(f)
  <2> SUFFICES ASSUME Text6!IPv6isCorrect(f) PROVE FALSE OBVIOUS
  <2>1. k - 1 \in Text6!Double(f) BY <1>2, <1>3, CorrectIs
  <2>2. Text6!Double(f) = {i \in 2..(k - 1) : f[i] = Text6!Empty} BY <1>2, <1>3, CorrectIs
  <2>3. a[k - 1] = Text6!Empty BY <1>2, <1>3, <2>1, <2>2
  <2> QED BY <1>1, <1>3, <2>3 DEF Text6!Address, Text6!Empty
<1>5. [fields |-> f, zone |-> <<>>] \in Text6!Text BY <1>2, <1>3, TextIs
<1>6. ~ReadsBack(a, f) BY <1>4, RefusedIs
<1> QED BY <1>5, <1>6 DEF f

\* One that starts with the dots is not correct.
LEMMA DottedIsRefused ==
    ASSUME NEW a \in Text6!Address
    PROVE  LET f == <<Text6!Wrong, Text6!Empty>>
           IN  [fields |-> f, zone |-> <<>>] \in Text6!Text /\ ~ReadsBack(a, f)
<1>1. Groups \in Nat BY TextAssumption
<1> DEFINE f == <<Text6!Wrong, Text6!Empty>>
<1>2. f \in [1..2 -> Text6!Field] /\ 2 \in 1..(Groups + 1) /\ Len(f) = 2
  BY <1>1, TextAssumption DEF Text6!Field
<1>3. ~Text6!IPv6isCorrect(f)
  <2>1. 2 - 1 \notin 2..Groups OBVIOUS
  <2> QED BY <1>2, <2>1 DEF Text6!IPv6isCorrect
<1> HIDE DEF f
<1>4. [fields |-> f, zone |-> <<>>] \in Text6!Text BY <1>2, TextIs
<1>5. ~ReadsBack(a, f) BY <1>3, RefusedIs
<1> QED BY <1>4, <1>5 DEF f

\* One with a hole is read up to the hole.
LEMMA HoledIsRefused ==
    ASSUME NEW a \in Text6!Address, NEW k \in 2..Groups, NEW m \in 1..Groups, k + 2 <= m
    PROVE  /\ [fields |-> Holed(a, k, m), zone |-> <<>>] \in Text6!Text
           /\ ~ReadsBack(a, Holed(a, k, m))
<1>1. Groups \in Nat /\ Groups > 3 /\ GroupValue \subseteq Nat BY TextAssumption
<1> DEFINE f == Holed(a, k, m)
<1>2. PICK n \in (k + 1)..(Groups + 1) :
         /\ f \in [1..n -> Text6!Field]
         /\ f[1] = a[1] /\ f[k] = Text6!Empty /\ f[n] = a[Groups]
  BY HoledIs
<1> HIDE DEF f
<1>3. n \in 1..(Groups + 1) /\ k \in 2..(n - 1) /\ Len(f) = n BY <1>1, <1>2
<1>4. f[1] # Text6!Empty /\ f[n] # Text6!Empty
  <2>1. 1 \in 1..Groups /\ Groups \in 1..Groups BY <1>1
  <2>2. a[1] \in Nat /\ a[Groups] \in Nat BY <1>1, <2>1 DEF Text6!Address
  <2> QED BY <1>2, <2>2 DEF Text6!Empty
<1>5. ASSUME Text6!IPv6isCorrect(f) PROVE ~ReadsBack(a, f)
  <2>1. k \in Text6!Double(f) BY <1>2, <1>3 DEF Text6!Double
  <2>2. ~Text6!Plain(f, <<>>).ok BY <1>2, <1>3, <1>4, <1>5, <2>1, ZoneAssumption, PlainIs
  <2>3. Text6!setIPv6([fields |-> f, zone |-> <<>>], a) = Text6!Plain(f, <<>>)
    BY <1>3, <1>4, <1>5 DEF Text6!setIPv6
  <2> QED BY <2>2, <2>3 DEF ReadsBack
<1>6. ~ReadsBack(a, f) BY <1>5, RefusedIs
<1>7. [fields |-> f, zone |-> <<>>] \in Text6!Text BY <1>2, <1>3, TextIs
<1> QED BY <1>6, <1>7 DEF f

\* One that ends in "::" is filled with the last group before it.
LEMMA CutAtEndIsRefused ==
    ASSUME NEW a \in Text6!Address, NEW k \in 2..(Groups - 1), \E g \in k..Groups : a[g] # a[g - 1]
    PROVE  /\ [fields |-> CutAtEnd(a, k), zone |-> <<>>] \in Text6!Text
           /\ ~ReadsBack(a, CutAtEnd(a, k))
<1>1. Groups \in Nat /\ GroupValue \subseteq Nat BY TextAssumption
<1> DEFINE f == CutAtEnd(a, k)
           p == SubSeq(f, 1, k - 1)
<1>2. /\ f \in [1..(k + 1) -> Text6!Field]
      /\ \A i \in 1..(k - 1) : f[i] = a[i]
      /\ f[k] = Text6!Empty /\ f[k + 1] = Text6!Empty
  BY CutAtEndIs
<1> HIDE DEF f
<1>3. k + 1 \in 1..(Groups + 1) /\ Len(f) = k + 1 /\ (k + 1) - 2 = k - 1 /\ k - 1 \in 1..(k - 1) /\ 1 \in 1..(k - 1)
  BY <1>1, <1>2
<1>4. f[1] # Text6!Empty
  <2>1. 1 \in 1..Groups BY <1>1
  <2>2. a[1] \in Nat BY <1>1, <2>1 DEF Text6!Address
  <2> QED BY <1>2, <1>3, <2>2 DEF Text6!Empty
<1>5. Len(p) = k - 1
  <2>1. \A i \in 1..(k - 1) : f[i] \in GroupValue BY <1>1, <1>2 DEF Text6!Address
  <2>2. k + 1 \in Nat /\ 1 \in 1..(k + 1 + 1) /\ k - 1 \in (1 - 1)..(k + 1) /\ k - 1 - 1 + 1 = k - 1 OBVIOUS
  <2> QED BY <1>2, <2>1, <2>2, PartIs
<1>6. \A v : Text6!Padded(p, v) = [g \in 1..Groups |-> IF g <= k - 1 THEN p[g] ELSE v]
  BY <1>5 DEF Text6!Padded
<1> HIDE DEF p
<1>7. Text6!Padded(p, a[k - 1]) # a
  <2> SUFFICES ASSUME Text6!Padded(p, a[k - 1]) = a PROVE FALSE OBVIOUS
  <2>1. \A g \in k..Groups : g \in 1..Groups /\ ~(g <= k - 1) BY <1>1
  <2>2. \A g \in k..Groups : a[g] = a[k - 1]
    <3>1. \A g \in 1..Groups : a[g] = IF g <= k - 1 THEN p[g] ELSE a[k - 1]
      <4>1. a = [g \in 1..Groups |-> IF g <= k - 1 THEN p[g] ELSE a[k - 1]] BY <1>6, Zenon
      <4> QED BY ONLY <4>1
    <3> QED BY <2>1, <3>1
  <2>3. \A g \in k..Groups : g - 1 = k - 1 \/ g - 1 \in k..Groups BY <1>1
  <2>4. \A g \in k..Groups : a[g - 1] = a[k - 1] BY <2>2, <2>3
  <2> QED BY <2>2, <2>4
<1>8. ASSUME Text6!IPv6isCorrect(f) PROVE ~ReadsBack(a, f)
  <2>1. Text6!setIPv6([fields |-> f, zone |-> <<>>], a) = Text6!Trailing(f)
    BY <1>2, <1>3, <1>4, <1>8 DEF Text6!setIPv6
  <2>2. f[k - 1] = a[k - 1] /\ Len(f) - 2 = k - 1 BY <1>2, <1>3
  <2>3. p = SubSeq(f, 1, Len(f) - 2) /\ f[Len(f) - 2] = a[k - 1] BY <2>2, Zenon DEF p
  <2>4. CASE a[k - 1] = 65535
    <3>1. Text6!Trailing(f) = [addr |-> Text6!Padded(p, 0), ok |-> FALSE]
      BY ONLY <2>3, <2>4 DEF Text6!Trailing
    <3> QED BY <2>1, <3>1 DEF ReadsBack
  <2>5. CASE a[k - 1] # 65535
    <3>1. Text6!Trailing(f) = [addr |-> Text6!Padded(p, a[k - 1]), ok |-> TRUE]
      BY ONLY <2>3, <2>5 DEF Text6!Trailing
    <3> QED BY <1>7, <2>1, <3>1 DEF ReadsBack
  <2> QED BY <2>4, <2>5
<1>9. ~ReadsBack(a, f) BY <1>8, RefusedIs
<1>10. [fields |-> f, zone |-> <<>>] \in Text6!Text BY <1>2, <1>3, TextIs
<1> QED BY <1>9, <1>10 DEF f

\* The text of an address is a text, and reads back exactly without zeros side by side.
LEMMA TextReadsBack ==
    ASSUME NEW a \in Text6!Address
    PROVE  /\ [fields |-> Text6!toIPv6string(a), zone |-> <<>>] \in Text6!Text
           /\ ReadsBack(a, Text6!toIPv6string(a)) <=> ~Adjacent(a)
<1>1. CASE ~Adjacent(a) BY <1>1, WholeIsRead
<1>2. CASE Adjacent(a)
  <2> DEFINE Refused(f) == [fields |-> f, zone |-> <<>>] \in Text6!Text /\ ~ReadsBack(a, f)
  <2>1. CASE Text6!toIPv6string(a) = <<Text6!Wrong, Text6!Empty>>
    BY <1>2, <2>1, DottedIsRefused
  <2>2. ASSUME NEW k \in 2..Groups, Text6!toIPv6string(a) = Cut(a, k) PROVE Refused(Text6!toIPv6string(a))
    BY <2>2, CutIsRefused
  <2>3. ASSUME NEW k \in 2..(Groups - 1), Text6!toIPv6string(a) = CutAtEnd(a, k),
               \E g \in k..Groups : a[g] # a[g - 1]
        PROVE  Refused(Text6!toIPv6string(a))
    BY <2>3, CutAtEndIsRefused
  <2>4. ASSUME NEW k \in 2..Groups, NEW m \in 1..Groups, Text6!toIPv6string(a) = Holed(a, k, m), k + 2 <= m
        PROVE  Refused(Text6!toIPv6string(a))
    BY <2>4, HoledIsRefused
  <2>5. Refused(Text6!toIPv6string(a))
    <3> HIDE DEF Refused
    <3>1. Text6!toIPv6string(a) = <<Text6!Wrong, Text6!Empty>> => Refused(Text6!toIPv6string(a))
      BY DottedIsRefused DEF Refused
    <3> QED BY <1>2, <2>2, <2>3, <2>4, <3>1, WrittenIs
  <2> QED BY <1>2, <2>5
<1> QED BY <1>1, <1>2

\* The invariant: an address, and what has been read of a text is sound for that text.
TextInv == Text6!TypeOK /\ (read => Sound(text.fields, text.zone, addr, ok))

LEMMA TextInductive ==
    /\ Text6!Init => TextInv
    /\ TextInv /\ [Text6!Next]_texts => TextInv'
<1>1. Text6!Init => TextInv
  <2> SUFFICES ASSUME Text6!Init PROVE TextInv OBVIOUS
  <2>1. addr \in Text6!Address BY TextAssumption DEF Text6!Init, Text6!Address
  <2> QED BY <2>1 DEF Text6!Init, TextInv, Text6!TypeOK
<1>2. ASSUME TextInv, [Text6!Next]_texts PROVE TextInv'
  <2>1. CASE Text6!SetIPv6
    <3>1. /\ Text6!setIPv6(text, addr).addr \in Text6!Address
          /\ Text6!setIPv6(text, addr).ok \in BOOLEAN
          /\ Sound(text.fields, text.zone, Text6!setIPv6(text, addr).addr, Text6!setIPv6(text, addr).ok)
      BY <1>2, ReadingIs DEF TextInv, Text6!TypeOK
    <3>2. text \in Text6!Text BY <1>2 DEF TextInv, Text6!TypeOK
    <3>3. /\ text' = text /\ read' = TRUE
          /\ addr' = Text6!setIPv6(text, addr).addr
          /\ ok' = Text6!setIPv6(text, addr).ok
      BY <2>1 DEF Text6!SetIPv6
    <3>4. Text6!TypeOK' BY <3>1, <3>2, <3>3 DEF Text6!TypeOK
    <3>5. Sound(text.fields, text.zone, addr', ok') BY <3>1, <3>3, Zenon
    <3> QED BY <3>3, <3>4, <3>5 DEF TextInv, Sound
  <2>2. CASE Text6!Write
    <3>1. addr \in Text6!Address /\ ok \in BOOLEAN BY <1>2 DEF TextInv, Text6!TypeOK
    <3>2. /\ text' = [fields |-> Text6!toIPv6string(addr), zone |-> <<>>] /\ read' = FALSE
          /\ addr' = addr /\ ok' = ok
      BY <2>2 DEF Text6!Write
    <3>3. text' \in Text6!Text BY <3>1, <3>2, TextReadsBack
    <3> QED BY <3>1, <3>2, <3>3 DEF TextInv, Text6!TypeOK
  <2>3. CASE UNCHANGED texts
    <3>1. text' = text /\ addr' = addr /\ ok' = ok /\ read' = read BY <2>3 DEF texts
    <3> QED BY <1>2, <3>1 DEF TextInv, Text6!TypeOK
  <2> QED BY <1>2, <2>1, <2>2, <2>3 DEF Text6!Next
<1> QED BY <1>1, <1>2

LEMMA TextHolds ==
    ASSUME TextInv
    PROVE  Text6!TypeOK /\ Text6!AcceptedIsMeant /\ Text6!MiddleRefused /\ Text6!RoundTrip
<1>1. Text6!TypeOK BY DEF TextInv
<1>2. Text6!AcceptedIsMeant
  <2>1. read => Sound(text.fields, text.zone, addr, ok) BY DEF TextInv
  <2> QED BY <2>1 DEF Sound, Text6!AcceptedIsMeant
<1>3. Text6!MiddleRefused
  <2>1. read => Sound(text.fields, text.zone, addr, ok) BY DEF TextInv
  <2> QED BY <2>1 DEF Sound, Text6!MiddleRefused
<1>4. Text6!RoundTrip
  <2>1. addr \in Text6!Address BY <1>1 DEF Text6!TypeOK
  <2>2. ReadsBack(addr, Text6!toIPv6string(addr)) <=> ~Adjacent(addr) BY <2>1, TextReadsBack
  <2>3. Adjacent(addr) <=> \E g \in 1..(Groups - 1) : addr[g] = 0 /\ addr[g + 1] = 0
    BY DEF Adjacent
  <2> QED BY <2>2, <2>3 DEF ReadsBack, Text6!RoundTrip
<1> QED BY <1>1, <1>2, <1>3, <1>4

\* TextsReadBack, for any number of groups beyond three and any number of octets of a
\* GUID: setIPv6 leaves the address that an accepted proper text means exactly unless the
\* text ends in "::" behind a group that is not 0, when it repeats that group; it refuses
\* one with "::" between groups; what toIPv6string writes reads back exactly without zeros
\* side by side, and the text that operator<< writes of a GUID is read by operator>> as
\* the unknown one.
THEOREM TextsAreRead == PartsSpec => []TextsReadBack
<1> DEFINE Inv == (part = "text" => TextInv) /\ (part = "guid" => GuidInv)
<1>1. PartsInit => Inv BY TextInductive, GuidInductive DEF PartsInit
<1>2. Inv /\ [PartsNext]_parts => Inv'
  <2>1. [PartsNext]_parts => /\ part' = part
                             /\ part = "text" => [Text6!Next]_texts
                             /\ part = "guid" => [Guids!Next]_guids
    BY DEF PartsNext, parts
  <2> QED BY <2>1, TextInductive, GuidInductive
<1>3. Inv => TextsReadBack BY TextHolds DEF TextsReadBack, GuidInv
<1> QED BY <1>1, <1>2, <1>3, PTL DEF PartsSpec

=============================================================================
