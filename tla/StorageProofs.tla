---------------------------- MODULE StorageProofs ----------------------------
(***************************************************************************)
(* Proofs about what the RTPS storage keeps.  First the fragments of a     *)
(* CacheChange, for any payload lengths, any fragment sizes and any width  *)
(* of the numbers that is enough for the lengths.                          *)
(***************************************************************************)
EXTENDS MCStorage, SequenceTheorems, WellFoundedInduction, TLAPS

\* A set of numbers has a least one.
LEMMA LeastOf ==
    ASSUME NEW T \in SUBSET Nat, T # {}
    PROVE  \E x \in T : \A y \in T : x <= y
<1>1. IsWellFoundedOn(OpToRel(<, Nat), Nat) BY NatLessThanWellFounded
<1>2. PICK x \in T : \A y \in T : ~(<<y, x>> \in OpToRel(<, Nat)) BY <1>1, WFMin
<1>3. \A y \in T : ~(y < x) BY <1>2 DEF OpToRel
<1> QED BY <1>3

\* g says where a loop that applies F again and again is after each of n rounds from a.
Rounds(g, D, F, a, n) ==
    g \in [0..n -> D] /\ g[0] = a /\ \A k \in 1..n : g[k] = F[g[k - 1]]

\* There is such a g.
LEMMA Iterates ==
    ASSUME NEW D, NEW F \in [D -> D], NEW a \in D, NEW n \in Nat
    PROVE  \E g : Rounds(g, D, F, a, n)
<1> DEFINE IsTo(g, m) == g \in [0..m -> D] /\ g = [k \in 0..m |-> IF k = 0 THEN a ELSE F[g[k - 1]]]
           Open == {m \in Nat : ~\E g : IsTo(g, m)}
<1>1. Open = {}
  <2> SUFFICES ASSUME Open # {} PROVE FALSE OBVIOUS
  <2> HIDE DEF IsTo
  <2>1. PICK m \in Open : \A k \in Open : m <= k
    <3>1. Open \in SUBSET Nat OBVIOUS
    <3> HIDE DEF Open
    <3> QED BY <3>1, LeastOf
  <2>2. m # 0
    <3> SUFFICES IsTo([k \in 0..0 |-> a], 0) OBVIOUS
    <3> QED BY DEF IsTo
  <2>3. m \in Nat /\ m - 1 \in Nat /\ m - 1 \notin Open BY <2>1, <2>2
  <2>4. PICK g : IsTo(g, m - 1) BY <2>3
  <2> DEFINE h == [k \in 0..m |-> IF k = m THEN F[g[m - 1]] ELSE g[k]]
  <2>5. IsTo(h, m)
    <3>1. /\ g \in [0..(m - 1) -> D]
          /\ g = [k \in 0..(m - 1) |-> IF k = 0 THEN a ELSE F[g[k - 1]]]
      BY <2>4 DEF IsTo
    <3>2. m - 1 \in 0..(m - 1) /\ m - 1 \in 0..m /\ m \in 0..m /\ m - 1 # m BY <2>3
    <3>3. h \in [0..m -> D]
      <4>1. F[g[m - 1]] \in D BY <3>1, <3>2
      <4>2. \A k \in 0..m : k # m => k \in 0..(m - 1) BY <2>3
      <4> QED BY <3>1, <4>1, <4>2
    <3>4. ASSUME NEW k \in 0..m
          PROVE  h[k] = IF k = 0 THEN a ELSE F[h[k - 1]]
      <4>1. CASE k = m
        <5>1. h[m - 1] = g[m - 1] BY <3>2
        <5> QED BY <2>2, <3>2, <4>1, <5>1
      <4>2. CASE k # m /\ k # 0
        <5>1. k \in 0..(m - 1) /\ k - 1 \in 0..m /\ k - 1 # m BY <2>3, <4>2
        <5>2. h[k] = g[k] /\ h[k - 1] = g[k - 1] BY <4>2, <5>1
        <5>3. g[k] = F[g[k - 1]] BY <3>1, <4>2, <5>1
        <5> QED BY <4>2, <5>2, <5>3
      <4>3. CASE k = 0
        <5>1. 0 \in 0..(m - 1) /\ 0 \in 0..m BY <2>3
        <5>2. h[0] = g[0] BY <2>2, <5>1
        <5>3. g[0] = a BY <3>1, <5>1
        <5> QED BY <4>3, <5>2, <5>3
      <4> QED BY <4>1, <4>2, <4>3
    <3> HIDE DEF h
    <3>5. h = [k \in 0..m |-> h[k]] BY <3>3
    <3>6. h = [k \in 0..m |-> IF k = 0 THEN a ELSE F[h[k - 1]]] BY <3>4, <3>5
    <3> QED BY <3>3, <3>6 DEF IsTo
  <2> HIDE DEF h
  <2> QED BY <2>1, <2>5
<1>2. PICK g : IsTo(g, n)
  <2> HIDE DEF IsTo
  <2> QED BY <1>1
<1>3. 0 \in 0..n /\ \A k \in 1..n : k \in 0..n /\ k # 0 OBVIOUS
<1>4. g[0] = a /\ \A k \in 1..n : g[k] = F[g[k - 1]] BY <1>2, <1>3
<1> QED BY <1>2, <1>4 DEF Rounds

\* The largest and the smallest element, once they are known.
LEMMA MaxIs ==
    ASSUME NEW S \in SUBSET Int, NEW m \in S, \A x \in S : x <= m
    PROVE  Max(S) = m
<1>1. \E x \in S : \A y \in S : x >= y OBVIOUS
<1>2. Max(S) \in S /\ \A y \in S : Max(S) >= y BY <1>1 DEF Max
<1>3. m \in Int /\ Max(S) \in Int BY <1>2
<1>4. Max(S) >= m /\ m >= Max(S) BY <1>2
<1> QED BY <1>3, <1>4

LEMMA MinIs ==
    ASSUME NEW S \in SUBSET Int, NEW m \in S, \A x \in S : m <= x
    PROVE  Min(S) = m
<1>1. \E x \in S : \A y \in S : x =< y OBVIOUS
<1>2. Min(S) \in S /\ \A y \in S : Min(S) =< y BY <1>1 DEF Min
<1>3. m \in Int /\ Min(S) \in Int BY <1>2
<1>4. Min(S) =< m /\ m =< Min(S) BY <1>2
<1> QED BY <1>3, <1>4

LEMMA MinOfTwo ==
    ASSUME NEW a \in Int, NEW b \in Int
    PROVE  Min({a, b}) = IF a <= b THEN a ELSE b
BY DEF Min

LEMMA MaxOfTwo ==
    ASSUME NEW a \in Int, NEW b \in Int
    PROVE  Max({a, b}) = IF a >= b THEN a ELSE b
BY DEF Max

\* The number of fragments: the last one begins inside the payload.
LEMMA FragmentCount ==
    ASSUME NEW l \in 0..MaxLength, NEW s \in Sizes
    PROVE  /\ Fragments(l, s) \in 0..MaxLength
           /\ Fragments(l, s) > 0 => s > 0 /\ (Fragments(l, s) - 1) * s < l
<1>1. s \in Nat /\ MaxLength \in Nat /\ l \in Nat BY LengthAssumption
<1>2. CASE s = 0 BY <1>1, <1>2 DEF Fragments
<1>3. CASE s > 0
  <2> DEFINE n == (l + s - 1) \div s
  <2>1. n \in Int /\ n * s <= l + s - 1 /\ l + s - 1 < n * s + s BY <1>1, <1>3
  <2>2. (n - 1) * s = n * s - s BY <1>1, <2>1
  <2>3. n >= 0 BY <1>1, <1>3
  <2>4. n <= l
    <3> SUFFICES ASSUME n > l PROVE FALSE BY <1>1, <2>1
    <3>1. PICK k \in Nat : n = l + 1 + k
      <4>1. n - l - 1 \in Nat /\ n = l + 1 + (n - l - 1) BY <1>1, <2>1
      <4> QED BY <4>1
    <3>2. n * s = l * s + s + k * s BY <1>1, <3>1
    <3>3. k * s >= 0 BY <1>1, <3>1
    <3>4. l * s >= l
      <4>1. PICK j \in Nat : s = 1 + j
        <5>1. s - 1 \in Nat /\ s = 1 + (s - 1) BY <1>1, <1>3
        <5> QED BY <5>1
      <4>2. l * s = l + l * j /\ l * j >= 0 BY <1>1, <4>1
      <4> QED BY <1>1, <4>2
    <3> HIDE DEF n
    <3> QED BY <1>1, <2>1, <3>2, <3>3, <3>4
  <2>5. Fragments(l, s) = n BY <1>1, <1>3 DEF Fragments
  <2> HIDE DEF n
  <2> QED BY <1>1, <1>3, <2>1, <2>2, <2>3, <2>4, <2>5
<1> QED BY <1>1, <1>2, <1>3

\* A set of numbers below a bound has a largest one.
LEMMA LargestOf ==
    ASSUME NEW n \in Nat, NEW S \in SUBSET (0..n), S # {}
    PROVE  \E x \in S : \A y \in S : y <= x
<1> DEFINE T == {k \in Nat : n - k \in S}
<1>1. T \in SUBSET Nat OBVIOUS
<1>2. T # {}
  <2>1. PICK x : x \in S OBVIOUS
  <2>2. n - x \in Nat /\ n - (n - x) = x BY <2>1
  <2> QED BY <2>1, <2>2
<1> HIDE DEF T
<1>3. PICK k \in T : \A j \in T : k <= j BY <1>1, <1>2, LeastOf
<1>4. k \in Nat /\ n - k \in S BY <1>3 DEF T
<1>5. ASSUME NEW y \in S PROVE y <= n - k
  <2>1. n - y \in Nat /\ n - (n - y) = y OBVIOUS
  <2>2. n - y \in T BY <2>1 DEF T
  <2>3. k <= n - y BY <1>3, <2>2
  <2> QED BY <1>4, <2>3
<1> QED BY <1>4, <1>5

LEMMA GreatestOf ==
    ASSUME NEW n \in Nat, NEW S \in SUBSET (0..n), S # {}
    PROVE  Max(S) \in S /\ \A x \in S : x <= Max(S)
<1>1. PICK m \in S : \A y \in S : y <= m BY LargestOf
<1>2. S \in SUBSET Int OBVIOUS
<1>3. Max(S) = m BY <1>1, <1>2, MaxIs
<1> QED BY <1>1, <1>3

\* A product grows with its factor.
LEMMA ProductGrows ==
    ASSUME NEW a \in Int, NEW b \in Int, NEW c \in Nat, a <= b
    PROVE  a * c <= b * c
<1>1. PICK k \in Nat : b = a + k
  <2>1. b - a \in Nat /\ b = a + (b - a) OBVIOUS
  <2> QED BY <2>1
<1>2. b * c = a * c + k * c /\ k * c >= 0 BY <1>1
<1> QED BY <1>2

\* A number below the modulus is its own remainder.
LEMMA RemainderIs ==
    ASSUME NEW w \in Nat \ {0}, NEW q \in Int, NEW r \in 0..(w - 1)
    PROVE  (q * w + r) % w = r
OBVIOUS

LEMMA SmallRemainder ==
    ASSUME NEW w \in Nat \ {0}, NEW r \in 0..(w - 1)
    PROVE  r % w = r
<1>1. (0 * w + r) % w = r BY RemainderIs
<1> QED BY <1>1

LEMMA QuotientIs ==
    ASSUME NEW w \in Nat \ {0}, NEW s \in Int
    PROVE  \E c \in Int, r \in 0..(w - 1) : s = c * w + r
<1> DEFINE n == s \div w
<1>1. n \in Int /\ n * w <= s /\ s < n * w + w OBVIOUS
<1> HIDE DEF n
<1>2. PICK p \in Int : p = n * w BY <1>1
<1>3. s - p \in 0..(w - 1) /\ s = n * w + (s - p) BY <1>1, <1>2
<1> QED BY <1>1, <1>3

-----------------------------------------------------------------------------
\* What the fields say while no copy was refused.
FieldsFit ==
    /\ count > 0 => size > 0 /\ (count - 1) * size < len
    /\ ~refused => len <= max

\* The list has lost its first fragment only if that one came.  Where all nodes are one,
\* either nothing has arrived and it ends the list behind the first fragment, or the list
\* is empty, and no walk goes on for ever.
NodeSays ==
    /\ ~refused /\ count > 0 =>
          /\ first # 0 => 0 \in received
          /\ OneNode =>
                \/ first = 0 /\ received = {} /\ head[3] = count /\ \A b \in 4..6 : head[b] = 0
                \/ first = count /\ 0 \in received
    /\ hung => refused \/ ~OneNode

FragmentsInv == TypeOK /\ FieldsFit /\ NodeSays

FieldsTyped ==
    len \in 0..MaxLength /\ max \in 0..MaxLength /\ size \in Sizes \cup {0} /\ count \in 0..MaxLength

\* A payload as a call finds it.
Payloads == [NodeBytes -> Byte]

\* Nodes are in the first bytes, and all in one place if sizes are multiples of four.
LEMMA NodeIs ==
    ASSUME NEW i \in Int, NEW s \in Nat
    PROVE  /\ NodeOf(i, s) \in 0..3
           /\ s % 4 = 0 => NodeOf(i, s) = 3
<1> DEFINE x == i * s + 3
<1>1. x \in Int OBVIOUS
<1>2. x % 4 \in 0..3
  <2> HIDE DEF x
  <2> QED BY <1>1
<1>3. ASSUME s % 4 = 0 PROVE x % 4 = 3
  <2>1. PICK q \in Int : s = 4 * q
    <3>1. PICK c \in Int, r \in 0..3 : s = c * 4 + r
      <4>1. s \in Int /\ 4 \in Nat \ {0} OBVIOUS
      <4>2. \E c \in Int, r \in 0..(4 - 1) : s = c * 4 + r BY <4>1, QuotientIs
      <4> QED BY <4>2
    <3>2. (c * 4 + r) % 4 = r BY <3>1, RemainderIs
    <3>3. r = 0 BY <1>3, <3>1, <3>2
    <3> QED BY <3>1, <3>3
  <2>2. i * s = (i * q) * 4 BY <2>1
  <2>3. i * q \in Int BY <2>1
  <2>4. ((i * q) * 4 + 3) % 4 = 3 BY <2>3, RemainderIs
  <2> QED BY <2>2, <2>4
<1> QED BY <1>2, <1>3 DEF NodeOf

LEMMA BytesAre ==
    /\ MaxLength \in Nat /\ FAR \in Nat /\ FAR = MaxLength + 1 /\ 0 \in Byte /\ FAR \in Byte
    /\ \A x : x \in Byte <=> x \in 0..FAR
    /\ \A b : b \in NodeBytes <=> b \in 0..6
BY LengthAssumption DEF Byte, NodeBytes, FAR

\* What a node says is an index of a fragment, or FAR.
LEMMA FollowingIs ==
    ASSUME TypeOK, NEW h \in Payloads, NEW i \in Int
    PROVE  Following(h, i) \in Byte
<1>1. size \in Nat BY LengthAssumption DEF TypeOK
<1>2. NodeOf(i, size) \in 0..3 BY <1>1, NodeIs
<1>3. \A b \in 0..6 : h[b] \in Byte BY BytesAre DEF Payloads
<1> QED BY <1>2, <1>3, BytesAre DEF Following

\* The rounds of a walk along the list.
WalkSteps(h, i, last) ==
    /\ Walk(h, i, last) \in [0..count -> Byte]
    /\ Walk(h, i, last)[0] = i
    /\ \A k \in 1..count : Walk(h, i, last)[k] = IF Walk(h, i, last)[k - 1] >= last
                                               THEN Walk(h, i, last)[k - 1]
                                               ELSE Following(h, Walk(h, i, last)[k - 1])

\* A walk goes round by round from one byte to another.
LEMMA WalkIs ==
    ASSUME TypeOK, NEW h \in Payloads, NEW i \in Byte, NEW last \in Int
    PROVE  WalkSteps(h, i, last)
<1>1. count \in Nat BY LengthAssumption DEF TypeOK
<1> DEFINE F == [x \in Byte |-> IF x >= last THEN x ELSE Following(h, x)]
           Is(g) == g = [k \in 0..count |->
                            IF k = 0 THEN i
                            ELSE LET at == g[k - 1] IN IF at >= last THEN at ELSE Following(h, at)]
           to == CHOOSE g : Is(g)
<1>2. F \in [Byte -> Byte]
  <2>1. \A x \in Byte : Following(h, x) \in Byte BY FollowingIs, BytesAre
  <2> QED BY <2>1
<1>3. PICK g \in [0..count -> Byte] : g[0] = i /\ \A k \in 1..count : g[k] = F[g[k - 1]]
  <2> HIDE DEF F
  <2>1. PICK g : Rounds(g, Byte, F, i, count) BY <1>1, <1>2, Iterates
  <2>2. g \in [0..count -> Byte] /\ g[0] = i /\ \A k \in 1..count : g[k] = F[g[k - 1]]
    BY <2>1 DEF Rounds
  <2> QED BY <2>2
<1>4. Is(g)
  <2>1. \A k \in 0..count : k = 0 \/ (k \in 1..count /\ k # 0 /\ k - 1 \in 0..count) BY <1>1
  <2>2. \A k \in 0..count : k # 0 =>
            g[k] = IF g[k - 1] >= last THEN g[k - 1] ELSE Following(h, g[k - 1])
    BY <1>3, <2>1
  <2> HIDE DEF F
  <2>3. \A k \in 0..count :
            g[k] = IF k = 0 THEN i ELSE IF g[k - 1] >= last THEN g[k - 1] ELSE Following(h, g[k - 1])
    BY <1>3, <2>2
  <2>4. g = [k \in 0..count |-> g[k]] BY <1>3
  <2> QED BY <2>3, <2>4
<1>5. Is(to)
  <2> HIDE DEF Is
  <2> QED BY <1>4
<1>6. Walk(h, i, last) = to BY DEF Walk
<1> HIDE DEF to, F
<1>a. \A x \in Byte : Following(h, x) \in Byte
  <2>1. \A x \in Byte : x \in Int BY BytesAre
  <2> QED BY <2>1, FollowingIs
<1>7. \A k \in 0..count : k = 0 \/ (k \in 1..count /\ k # 0 /\ k - 1 \in 0..count) BY <1>1
<1>8. /\ to[0] = i
      /\ \A k \in 1..count : to[k] = IF to[k - 1] >= last THEN to[k - 1] ELSE Following(h, to[k - 1])
  <2>1. \A k \in 1..count : k \in 0..count /\ k # 0 BY <1>1
  <2>2. 0 \in 0..count BY <1>1
  <2> QED BY <1>5, <2>1, <2>2
<1> DEFINE Bad == {k \in 0..count : to[k] \notin Byte}
<1>9. Bad = {}
  <2> SUFFICES ASSUME Bad # {} PROVE FALSE OBVIOUS
  <2>1. PICK k \in Bad : \A j \in Bad : k <= j
    <3>1. Bad \in SUBSET Nat BY <1>1
    <3> HIDE DEF Bad
    <3> QED BY <3>1, LeastOf
  <2>2. k # 0 BY <1>8
  <2>3. k \in 1..count /\ k - 1 \in 0..count /\ k - 1 \notin Bad BY <1>1, <1>7, <2>1, <2>2
  <2>4. to[k - 1] \in Byte BY <2>3
  <2>5. Following(h, to[k - 1]) \in Byte BY <1>a, <2>4
  <2> QED BY <1>8, <2>1, <2>3, <2>4, <2>5
<1>10. to \in [0..count -> Byte]
  <2>1. to = [k \in 0..count |-> IF k = 0 THEN i
                                ELSE LET at == to[k - 1] IN IF at >= last THEN at ELSE Following(h, at)]
    BY <1>5
  <2> HIDE DEF Is
  <2> QED BY <1>9, <2>1
<1> QED BY <1>6, <1>8, <1>10 DEF WalkSteps

\* A walk that has reached its end stays there.
LEMMA WalkRests ==
    ASSUME TypeOK, NEW h \in Payloads, NEW i \in Byte, NEW last \in Int, i >= last
    PROVE  Skip(h, i, last) = i
<1> DEFINE w == Walk(h, i, last)
<1>1. w[0] = i /\ \A k \in 1..count : w[k] = IF w[k - 1] >= last THEN w[k - 1] ELSE Following(h, w[k - 1])
  BY WalkIs DEF WalkSteps
<1>2. count \in Nat BY LengthAssumption DEF TypeOK
<1> HIDE DEF w
<1> DEFINE Bad == {k \in 0..count : w[k] # i}
<1>3. Bad = {}
  <2> SUFFICES ASSUME Bad # {} PROVE FALSE OBVIOUS
  <2>1. PICK k \in Bad : \A j \in Bad : k <= j
    <3>1. Bad \in SUBSET Nat BY <1>2
    <3> HIDE DEF Bad
    <3> QED BY <3>1, LeastOf
  <2>2. k \in 1..count /\ k - 1 \in 0..count /\ k - 1 \notin Bad BY <1>1, <1>2, <2>1
  <2>3. w[k - 1] = i BY <2>2
  <2> QED BY <1>1, <2>1, <2>2, <2>3
<1>4. w[count] = i BY <1>2, <1>3
<1> QED BY <1>4 DEF w, Skip

\* Where all nodes are one a call finds the payload as it was left.
LEMMA FoundIs ==
    ASSUME TypeOK, NEW h \in Found
    PROVE  h \in Payloads /\ (max >= 7 => h = head)
<1>1. PICK rest \in Data : h = [b \in NodeBytes |-> IF b < max THEN head[b] ELSE rest[b]] BY DEF Found
<1>2. rest \in Payloads /\ head \in Payloads BY DataAssumption DEF Payloads, TypeOK
<1>3. h \in Payloads
  <2>1. \A b \in NodeBytes : (IF b < max THEN head[b] ELSE rest[b]) \in Byte BY <1>2 DEF Payloads
  <2> QED BY <1>1, <2>1 DEF Payloads
<1>4. ASSUME max >= 7 PROVE h = head
  <2>1. \A b \in NodeBytes : b < max BY <1>4, BytesAre DEF TypeOK
  <2>2. h = [b \in NodeBytes |-> head[b]] BY <1>1, <2>1
  <2> QED BY <1>2, <2>2 DEF Payloads
<1> QED BY <1>3, <1>4

\* While nothing has arrived a walk along the one node ends after one round.
LEMMA ShortWalk ==
    ASSUME TypeOK, OneNode, first = 0, head[3] = count, \A b \in 4..6 : head[b] = 0,
           NEW last \in 1..count
    PROVE  Walk(head, 0, last)[0] = 0 /\ \A k \in 1..count : Walk(head, 0, last)[k] = count
<1>1. /\ count \in Nat /\ 0 \in Byte /\ head \in Payloads /\ size \in Nat /\ size % 4 = 0
      /\ last \in Int
  BY LengthAssumption, BytesAre DEF TypeOK, Payloads, OneNode
<1> DEFINE w == Walk(head, 0, last)
<1>2. w[0] = 0 /\ \A k \in 1..count : w[k] = IF w[k - 1] >= last THEN w[k - 1] ELSE Following(head, w[k - 1])
  <2>1. WalkSteps(head, 0, last) BY <1>1, WalkIs
  <2> QED BY <2>1 DEF WalkSteps
<1> HIDE DEF w
<1>3. Following(head, 0) = count
  <2>1. NodeOf(0, size) = 3 BY <1>1, NodeIs
  <2>2. \A k \in 1..3 : 3 + k \in 4..6 OBVIOUS
  <2> QED BY <2>1, <2>2 DEF Following
<1> DEFINE Bad == {k \in 1..count : w[k] # count}
<1>4. Bad = {}
  <2> SUFFICES ASSUME Bad # {} PROVE FALSE OBVIOUS
  <2>1. PICK k \in Bad : \A j \in Bad : k <= j
    <3>1. Bad \in SUBSET Nat OBVIOUS
    <3> HIDE DEF Bad
    <3> QED BY <3>1, LeastOf
  <2>2. k = 1 \/ (k - 1 \in 1..count /\ k - 1 \notin Bad) BY <1>1, <2>1
  <2>3. w[1] = count
    <3>1. 1 \in 1..count /\ 1 - 1 = 0 BY <1>1
    <3>2. w[1] = IF w[1 - 1] >= last THEN w[1 - 1] ELSE Following(head, w[1 - 1]) BY <1>2, <3>1
    <3> QED BY <1>2, <1>3, <3>2
  <2>4. k # 1 => w[k] = count
    <3> SUFFICES ASSUME k # 1 PROVE w[k] = count OBVIOUS
    <3>1. w[k - 1] = count BY <2>2
    <3>2. w[k] = IF w[k - 1] >= last THEN w[k - 1] ELSE Following(head, w[k - 1]) BY <1>2, <2>1
    <3> QED BY <1>1, <3>1, <3>2
  <2> QED BY <2>1, <2>3, <2>4
<1> QED BY <1>2, <1>4 DEF w

\* So what is received of it from the first on is all of it, and it is the first fragment.
LEMMA SkipsAll ==
    ASSUME TypeOK, OneNode, first = 0, head[3] = count, \A b \in 4..6 : head[b] = 0,
           NEW last \in 1..count
    PROVE  Skip(head, 0, last) = count
<1>1. count \in 1..count BY LengthAssumption DEF TypeOK
<1> QED BY <1>1, ShortWalk DEF Skip

LEMMA MissingIsFirst ==
    ASSUME TypeOK, OneNode, first = 0, head[3] = count, \A b \in 4..6 : head[b] = 0, count > 0
    PROVE  MissingFragments(head) = {1}
<1>1. count \in Nat BY LengthAssumption DEF TypeOK
<1>2. count \in 1..count BY <1>1
<1>3. Walk(head, 0, count)[0] = 0 /\ \A k \in 1..count : Walk(head, 0, count)[k] = count
  BY <1>2, ShortWalk
<1>4. \A k \in 0..count : k = 0 \/ k \in 1..count BY <1>1
<1>5. {Walk(head, 0, count)[k] : k \in 0..count} \cap 0..(count - 1) = {0}
  <2>1. 0 \in 0..count /\ 0 \in 0..(count - 1) /\ count \notin 0..(count - 1) BY <1>1, <1>2
  <2> QED BY <1>3, <1>4, <2>1
<1>6. MissingFragments(head) = {i + 1 : i \in {0}} BY <1>5 DEF MissingFragments
<1> QED BY <1>6

Numbers == 0..(MaxLength + 1) \cup {W - 1}

\* Where accepted fragments go, in 32-bit arithmetic: the first is one of the
\* sample, and they end with the sample at the latest unless their number is so
\* large that the sum has wrapped, which puts their end before their beginning.
LEMMA Places ==
    ASSUME FieldsTyped, FieldsFit, NEW start \in Numbers, NEW n \in Numbers,
           NEW incoming \in 0..MaxLength, Accepted(start, n, incoming), size > 0, (start - 1) % W < count
    PROVE  /\ start - 1 \in 0..(count - 1) /\ (start - 1) % W = start - 1
           /\ Offset(start) = (start - 1) * size /\ Offset(start) \in Nat /\ Length(start, n) \in Nat
           /\ \/ /\ start - 1 + n \in 0..count /\ (start - 1 + n) % W = start - 1 + n
                 /\ Offset(start) + Length(start, n) <= len
                 /\ start - 1 + n < count => incoming >= Length(start, n) /\ Length(start, n) = size * n
              \/ (start - 1 + n) % W = start - 2 /\ start - 2 >= 0
<1>1. /\ MaxLength \in Nat /\ W \in Nat /\ W > 2 * MaxLength /\ size \in Nat /\ size > 0
      /\ count \in 1..MaxLength /\ len \in 0..MaxLength
      /\ (count - 1) * size < len
  <2>1. size \in Nat /\ count \in 0..MaxLength /\ len \in 0..MaxLength
    BY LengthAssumption DEF FieldsTyped
  <2>2. W \in Nat \ {0} /\ start - 1 \in Int BY LengthAssumption DEF Numbers
  <2>3. (start - 1) % W >= 0 BY <2>2
  <2>4. count > 0 BY <2>1, <2>2, <2>3
  <2> QED BY <2>1, <2>4, LengthAssumption DEF FieldsFit
<1>2. start - 1 \in 0..(count - 1) /\ (start - 1) % W = start - 1
  <2>1. CASE start = 0
    <3>1. (start - 1) % W = W - 1
      <4>1. (-1 * W + (W - 1)) % W = W - 1 BY <1>1, RemainderIs
      <4> QED BY <1>1, <2>1, <4>1
    <3> QED BY <1>1, <3>1
  <2>2. CASE start # 0
    <3>1. start - 1 \in 0..(W - 1) BY <1>1, <2>2 DEF Numbers
    <3>2. (start - 1) % W = start - 1 BY <1>1, <3>1, SmallRemainder
    <3> QED BY <1>1, <3>1, <3>2
  <2> QED BY <2>1, <2>2
<1> DEFINE i == start - 1
<1>3. i * size <= (count - 1) * size /\ i * size \in Nat
  <2>1. i * size <= (count - 1) * size BY <1>1, <1>2, ProductGrows
  <2>2. i \in Nat /\ size \in Nat BY <1>1, <1>2
  <2> QED BY <2>1, <2>2
<1>4. Offset(start) = i * size
  <2>1. i * size \in 0..(W - 1) BY <1>1, <1>3
  <2> QED BY <1>1, <2>1, SmallRemainder DEF Offset
<1>5. Length(start, n) \in Nat
  <2>1. W \in Nat \ {0} /\ size * n \in Int /\ len - Offset(start) \in Int
    BY <1>1, <1>3, <1>4 DEF Numbers
  <2>2. (size * n) % W \in Nat /\ (len - Offset(start)) % W \in Nat BY <2>1
  <2> QED BY <2>2 DEF Length
<1>6. LastIndex(start, n) = (i + n) % W
  <2>1. start \in Int /\ n \in Int BY <1>1 DEF Numbers
  <2>2. start + n - 1 = i + n BY <2>1
  <2> QED BY <2>2 DEF LastIndex
<1>7. CASE n \in 0..(MaxLength + 1)
  <2>1. (i + n) % W = i + n
    <3>1. i + n \in 0..(W - 1) BY <1>1, <1>2, <1>7
    <3> QED BY <1>1, <3>1, SmallRemainder
  <2>2. i + n \in 0..count BY <1>1, <1>2, <1>6, <1>7, <2>1 DEF Accepted
  <2>3. CASE i + n = count
    <3>1. Length(start, n) = (len - i * size) % W BY <1>1, <1>4, <1>6, <2>1, <2>3 DEF Length
    <3>2. len - i * size \in 0..(W - 1) BY <1>1, <1>3
    <3>3. Length(start, n) = len - i * size BY <1>1, <3>1, <3>2, SmallRemainder
    <3>4. Offset(start) + Length(start, n) <= len BY <1>1, <1>3, <1>4, <3>3
    <3>5. ~(i + n < count) BY <1>1, <2>3
    <3> QED BY <1>2, <1>3, <1>4, <1>5, <2>1, <2>2, <3>4, <3>5
  <2>4. CASE i + n < count
    <3>1. (i + n) * size <= (count - 1) * size BY <1>1, <1>2, <1>7, <2>4, ProductGrows
    <3>2. (i + n) * size = i * size + size * n BY <1>1, <1>2, <1>7
    <3>3. size * n \in Nat BY <1>1, <1>7
    <3>4. size * n \in 0..(W - 1) BY <1>1, <1>3, <3>1, <3>2, <3>3
    <3>5. Length(start, n) = size * n BY <1>1, <1>6, <2>1, <2>4, <3>4, SmallRemainder DEF Length
    <3>6. incoming >= Length(start, n) BY <1>6, <2>1, <2>4 DEF Accepted
    <3>7. Offset(start) + Length(start, n) <= len BY <1>1, <1>3, <1>4, <3>1, <3>2, <3>3, <3>5
    <3> QED BY <1>2, <1>3, <1>4, <1>5, <2>1, <2>2, <3>5, <3>6, <3>7
  <2> QED BY <1>1, <2>2, <2>3, <2>4
<1>8. CASE n = W - 1
  <2>1. CASE i = 0
    <3>1. (i + n) % W = W - 1 BY <1>1, <1>8, <2>1, SmallRemainder
    <3>2. W - 1 <= count BY <1>6, <3>1 DEF Accepted
    <3> QED BY <1>1, <1>7, <1>8, <3>2
  <2>2. CASE i > 0
    <3>1. (1 * W + (i - 1)) % W = i - 1 BY <1>1, <1>2, <2>2, RemainderIs
    <3>2. i + n = 1 * W + (i - 1) BY <1>1, <1>2, <1>8
    <3>3. i - 1 = start - 2 /\ start - 2 >= 0 BY <1>1, <1>2, <2>2 DEF Numbers
    <3>4. (i + n) % W = start - 2 BY <3>1, <3>2, <3>3
    <3> QED BY <1>2, <1>3, <1>4, <1>5, <3>3, <3>4
  <2>3. i = 0 \/ i > 0 BY <1>1, <1>2 DEF Numbers
  <2> QED BY <2>1, <2>2, <2>3
<1> QED BY <1>7, <1>8 DEF Numbers

\* The walks of receivedFragments end in bytes that an index fills.
LEMMA WalksEnd ==
    ASSUME TypeOK, NEW h \in Payloads, NEW initial \in Nat, NEW last \in Int
    PROVE  /\ Reached(h, initial) \in Byte /\ Skip(h, first, last) \in Byte
           /\ Unlinked(h, initial, last) \in Payloads \/ ~Changes(h, initial, last)
           /\ OutsideNode(h, initial) => max < 7
<1>1. /\ count \in Nat /\ first \in Byte /\ size \in Nat /\ max \in Nat
      /\ Byte \subseteq Int /\ 0 \in 0..count /\ count \in 0..count
  BY LengthAssumption, BytesAre DEF TypeOK, Byte
<1>2. \A i \in Byte, l \in Int : Walk(h, i, l) \in [0..count -> Byte] /\ Walk(h, i, l)[0] = i
  BY WalkIs DEF WalkSteps
<1>3. \A i \in Byte, l \in Int : Skip(h, i, l) \in Byte BY <1>1, <1>2 DEF Skip
<1>4. Reached(h, initial) \in Byte BY <1>1, <1>3 DEF Reached
<1>5. \A i \in Byte, l \in Int : i < l => LastBefore(h, i, l) \in Byte
  <2> SUFFICES ASSUME NEW i \in Byte, NEW l \in Int, i < l PROVE LastBefore(h, i, l) \in Byte
    OBVIOUS
  <2> DEFINE S == {k \in 0..count : Walk(h, i, l)[k] < l}
  <2>1. S \in SUBSET (0..count) /\ 0 \in S BY <1>1, <1>2
  <2> HIDE DEF S
  <2>2. Max(S) \in 0..count BY <1>1, <2>1, GreatestOf
  <2>3. LastBefore(h, i, l) = Walk(h, i, l)[Max(S)] BY DEF LastBefore, S
  <2>4. Walk(h, i, l) \in [0..count -> Byte] BY <1>2
  <2>5. Walk(h, i, l)[Max(S)] \in Byte
    <3> DEFINE w == Walk(h, i, l)
    <3>1. w \in [0..count -> Byte] BY <2>4
    <3> HIDE DEF w
    <3>2. w[Max(S)] \in Byte BY <2>2, <3>1
    <3> QED BY <3>2 DEF w
  <2> QED BY <2>3, <2>5
<1>6. ASSUME Changes(h, initial, last) PROVE Unlinked(h, initial, last) \in Payloads
  <2>1. CASE initial <= first BY <2>1 DEF Unlinked
  <2>2. CASE ~(initial <= first)
    <3> DEFINE p == NodeOf(LastBefore(h, first, initial), size)
               q == NodeOf(LastBefore(h, Reached(h, initial), last), size)
    <3>1. first < initial BY <1>1, <2>2
    <3>2. Reached(h, initial) < last BY <1>6 DEF Changes
    <3>3. /\ LastBefore(h, first, initial) \in Int
          /\ LastBefore(h, Reached(h, initial), last) \in Int
      <4>1. first \in Byte /\ initial \in Int BY <1>1
      <4>2. /\ LastBefore(h, first, initial) \in Byte
            /\ LastBefore(h, Reached(h, initial), last) \in Byte
        BY <1>4, <1>5, <3>1, <3>2, <4>1, Zenon
      <4> QED BY <1>1, <4>2
    <3>4. p \in 0..3 /\ q \in 0..3 BY <1>1, <3>3, NodeIs
    <3>5. Unlinked(h, initial, last) = [b \in NodeBytes |-> IF b \in p..(p + 3) THEN h[q + (b - p)] ELSE h[b]]
      BY <2>2 DEF Unlinked
    <3> HIDE DEF p, q
    <3>6. ASSUME NEW b \in NodeBytes PROVE (IF b \in p..(p + 3) THEN h[q + (b - p)] ELSE h[b]) \in Byte
      <4>1. b \in 0..6 BY BytesAre
      <4>2. b \in p..(p + 3) => q + (b - p) \in 0..6 BY <3>4, <4>1
      <4>3. b \in p..(p + 3) => q + (b - p) \in NodeBytes BY <4>2, BytesAre
      <4> QED BY <4>3 DEF Payloads
    <3> QED BY <3>5, <3>6 DEF Payloads
  <2> QED BY <2>1, <2>2
<1>7. ASSUME OutsideNode(h, initial) PROVE max < 7
  <2>1. initial > first /\ NodeOf(LastBefore(h, first, initial), size) + 4 > max
    BY <1>7 DEF OutsideNode
  <2>2. LastBefore(h, first, initial) \in Int
    <3>1. first \in Byte /\ initial \in Int /\ first < initial BY <1>1, <2>1
    <3>2. LastBefore(h, first, initial) \in Byte BY <1>5, <3>1, Zenon
    <3> QED BY <1>1, <3>2
  <2>3. NodeOf(LastBefore(h, first, initial), size) \in 0..3 BY <1>1, <2>2, NodeIs
  <2> QED BY <1>1, <2>1, <2>3
<1> QED BY <1>1, <1>3, <1>4, <1>6, <1>7

\* Where all nodes are one, no walk goes on for ever, and only fragments from the first on
\* change the list, when nothing has arrived yet.
LEMMA OneNodeWalks ==
    ASSUME FragmentsInv, ~refused, OneNode, NEW h \in Found,
           NEW initial \in 0..(count - 1), NEW last \in 0..count
    PROVE  /\ ~Loops(h, initial, last)
           /\ Changes(h, initial, last) =>
                 /\ initial = 0 /\ first = 0 /\ received = {}
                 /\ FirstMissing(h, initial, last) = count
<1>1. TypeOK /\ FieldsFit /\ NodeSays BY DEF FragmentsInv
<1>2. /\ count \in Nat /\ initial \in Nat /\ last \in Nat /\ count > 0 /\ first \in Byte /\ count \in Byte
      /\ len \in Nat /\ max \in Nat /\ len <= max
  BY <1>1, LengthAssumption, BytesAre DEF TypeOK, FieldsFit
<1>3. h = head /\ h \in Payloads
  <2>1. max >= 7 BY <1>2 DEF OneNode
  <2> QED BY <1>1, <2>1, FoundIs
<1>4. CASE first = count /\ 0 \in received
  <2>1. Reached(h, initial) = count
    BY <1>1, <1>2, <1>3, <1>4, WalkRests DEF Reached
  <2>2. Skip(h, count, last) = count BY <1>1, <1>2, <1>3, WalkRests
  <2>3. ~Loops(h, initial, last) BY <1>2, <2>1, <2>2 DEF Loops
  <2>4. ~Changes(h, initial, last) BY <1>2, <2>1 DEF Changes
  <2> QED BY <2>3, <2>4
<1>5. CASE first = 0 /\ received = {} /\ head[3] = count /\ \A b \in 4..6 : head[b] = 0
  <2>1. \A l \in 1..count : Skip(h, 0, l) = count BY <1>1, <1>3, <1>5, SkipsAll
  <2>2. Skip(h, 0, 0) = 0 BY <1>1, <1>3, BytesAre, WalkRests
  <2>3. CASE initial = 0
    <3>1. Reached(h, initial) = 0 BY <1>5, <2>2, <2>3 DEF Reached
    <3>2. last = 0 \/ last \in 1..count BY <1>2
    <3>3. ~(Skip(h, 0, last) < last) BY <1>2, <2>1, <2>2, <3>2
    <3>4. ~Loops(h, initial, last) BY <2>3, <3>1, <3>3 DEF Loops
    <3>5. Changes(h, initial, last) => FirstMissing(h, initial, last) = count
      <4> SUFFICES ASSUME Changes(h, initial, last) PROVE FirstMissing(h, initial, last) = count
        OBVIOUS
      <4>1. last \in 1..count BY <1>2, <3>1, <3>2 DEF Changes
      <4>2. FirstMissing(h, initial, last) = Skip(h, 0, last) BY <1>5, <2>3 DEF FirstMissing
      <4> QED BY <2>1, <4>1, <4>2
    <3> QED BY <1>5, <2>3, <3>4, <3>5
  <2>4. CASE initial # 0
    <3>1. initial \in 1..count BY <1>2, <2>4
    <3>2. Reached(h, initial) = count BY <1>5, <2>1, <3>1 DEF Reached
    <3>3. Skip(h, count, last) = count BY <1>1, <1>2, <1>3, WalkRests
    <3>4. ~Loops(h, initial, last) BY <1>2, <3>2, <3>3 DEF Loops
    <3>5. ~Changes(h, initial, last) BY <1>2, <3>2 DEF Changes
    <3> QED BY <3>4, <3>5
  <2> QED BY <2>3, <2>4
<1> QED BY <1>1, <1>2, <1>4, <1>5 DEF NodeSays

\* The fragments of a sample have numbers.
LEMMA FragmentsBelow ==
    ASSUME NEW n \in 0..MaxLength
    PROVE  0..(n - 1) \subseteq Fragment /\ (n > 0 => 0 \in 0..(n - 1)) /\ 0 \in 0..FAR /\ n \in 0..FAR
BY LengthAssumption, BytesAre DEF Fragment

\* Fragments that are taken lie in the payload: what has wrapped is not taken.
LEMMA TakenFit ==
    ASSUME TypeOK, FieldsFit, NEW start \in Numbers, NEW n \in Numbers, NEW incoming \in 0..MaxLength,
           Accepted(start, n, incoming), size > 0, (start - 1) % W < count,
           NEW last, last = Min({(((start - 1) % W) + n) % W, count})
    PROVE  /\ (start - 1) % W \in 0..(count - 1) /\ last \in 0..count
           /\ Offset(start) \in Nat /\ Length(start, n) \in Nat
           /\ last > (start - 1) % W =>
                 /\ Offset(start) + Length(start, n) <= len
                 /\ last < count => incoming >= Length(start, n)
<1> DEFINE i == (start - 1) % W
<1>1. count \in Nat /\ W \in Nat \ {0} BY LengthAssumption DEF TypeOK
<1>2. /\ i = start - 1 /\ i \in 0..(count - 1)
      /\ Offset(start) \in Nat /\ Length(start, n) \in Nat
      /\ \/ /\ i + n \in 0..count /\ (i + n) % W = i + n
            /\ Offset(start) + Length(start, n) <= len
            /\ i + n < count => incoming >= Length(start, n)
         \/ (i + n) % W = i - 1 /\ i - 1 >= 0
  <2>1. FieldsTyped BY DEF TypeOK, FieldsTyped
  <2>2. start - 2 = (start - 1) - 1 BY <1>1 DEF Numbers
  <2> QED BY <2>1, <2>2, Places
<1>3. last = Min({(i + n) % W, count}) OBVIOUS
<1> HIDE DEF i
<1>4. (i + n) % W \in Nat
  <2>1. i \in Int /\ n \in Int BY <1>1, <1>2 DEF Numbers
  <2> QED BY <1>1, <2>1
<1>5. last = IF (i + n) % W <= count THEN (i + n) % W ELSE count BY <1>1, <1>3, <1>4, MinOfTwo
<1>6. last \in 0..count BY <1>1, <1>4, <1>5
<1>7. ASSUME last > i
      PROVE  /\ Offset(start) + Length(start, n) <= len
             /\ last < count => incoming >= Length(start, n)
  <2>1. ~((i + n) % W = i - 1 /\ i - 1 >= 0) BY <1>1, <1>2, <1>5, <1>7
  <2>2. /\ i + n \in 0..count /\ (i + n) % W = i + n /\ Offset(start) + Length(start, n) <= len
        /\ i + n < count => incoming >= Length(start, n)
    BY <1>2, <2>1
  <2>3. last = i + n
    <3>1. (i + n) % W <= count BY <1>1, <2>2
    <3>2. last = (i + n) % W BY <1>5, <3>1, Zenon
    <3> QED BY <2>2, <3>2, Zenon
  <2> QED BY <2>2, <2>3
<1> QED BY <1>2, <1>6, <1>7 DEF i

\* Fragments that arrive keep the invariant, and their data stays inside.
LEMMA AddKeeps ==
    ASSUME FragmentsInv, NEW start \in Numbers, NEW n \in Numbers, NEW incoming \in 0..MaxLength,
           AddFragments(start, n, incoming)
    PROVE  FragmentsInv' /\ StaysWithin
<1> DEFINE i == (start - 1) % W
           last == Min({(i + n) % W, count})
<1>1. TypeOK /\ FieldsFit /\ NodeSays BY DEF FragmentsInv
<1>2. /\ count \in 0..MaxLength /\ MaxLength \in Nat /\ len \in 0..MaxLength /\ max \in 0..MaxLength
      /\ Byte \subseteq Nat /\ first \in Byte /\ refused \in BOOLEAN /\ hung \in BOOLEAN
      /\ overWrite \in BOOLEAN /\ overRead \in BOOLEAN /\ nodeOutside \in BOOLEAN
  BY <1>1, LengthAssumption, BytesAre DEF TypeOK, Byte
<1>3. UNCHANGED <<len, max, size, count, refused>> BY DEF AddFragments
<1>4. Accepted(start, n, incoming) /\ size > 0 /\ i < count BY DEF AddFragments
<1>5. PICK h \in Found :
          \/ /\ Loops(h, i, last)
             /\ hung' = TRUE
             /\ UNCHANGED <<first, head, received, overWrite, overRead, nodeOutside>>
          \/ /\ ~Loops(h, i, last)
             /\ Changes(h, i, last)
             /\ first' = FirstMissing(h, i, last)
             /\ CopyIn(Unlinked(h, i, last), Offset(start), Length(start, n), incoming)
             /\ nodeOutside' = (nodeOutside \/ OutsideNode(h, i))
             /\ received' = received \cup i..(last - 1)
             /\ UNCHANGED hung
  BY DEF AddFragments
<1>6. /\ i \in 0..(count - 1) /\ last \in 0..count
      /\ Offset(start) \in Nat /\ Length(start, n) \in Nat
      /\ last > i => /\ Offset(start) + Length(start, n) <= len
                     /\ last < count => incoming >= Length(start, n)
  <2>1. last = Min({(((start - 1) % W) + n) % W, count}) OBVIOUS
  <2> HIDE DEF last
  <2> QED BY <1>1, <1>4, <2>1, TakenFit
<1> HIDE DEF i, last
<1>7. i \in Nat /\ last \in Int /\ count > 0 BY <1>2, <1>6
<1>8. h \in Payloads BY <1>1, FoundIs
<1>9. /\ Reached(h, i) \in Byte /\ Skip(h, first, last) \in Byte
      /\ Changes(h, i, last) => Unlinked(h, i, last) \in Payloads
      /\ OutsideNode(h, i) => max < 7
  BY <1>1, <1>7, <1>8, WalksEnd
<1>10. FieldsFit' BY <1>1, <1>3 DEF FieldsFit
<1>11. ASSUME OneNode, ~refused
       PROVE  /\ ~Loops(h, i, last)
              /\ Changes(h, i, last) => /\ i = 0 /\ first = 0 /\ received = {}
                                        /\ FirstMissing(h, i, last) = count
  BY <1>6, <1>11, OneNodeWalks
<1>12. CASE /\ Loops(h, i, last) /\ hung' = TRUE
            /\ UNCHANGED <<first, head, received, overWrite, overRead, nodeOutside>>
  <2>1. TypeOK' BY <1>1, <1>3, <1>12, Zenon DEF TypeOK
  <2>2. refused \/ ~OneNode BY <1>11, <1>12
  <2>3. NodeSays' BY <1>1, <1>3, <1>12, <2>2 DEF NodeSays, OneNode
  <2>4. StaysWithin BY <1>12 DEF StaysWithin
  <2> QED BY <1>10, <2>1, <2>3, <2>4 DEF FragmentsInv
<1>13. CASE /\ ~Loops(h, i, last)
            /\ Changes(h, i, last)
            /\ first' = FirstMissing(h, i, last)
            /\ CopyIn(Unlinked(h, i, last), Offset(start), Length(start, n), incoming)
            /\ nodeOutside' = (nodeOutside \/ OutsideNode(h, i))
            /\ received' = received \cup i..(last - 1)
            /\ UNCHANGED hung
  <2>1. i < last
    <3>1. ~(Reached(h, i) < i) BY <1>13 DEF Loops
    <3>2. Reached(h, i) < last BY <1>13 DEF Changes
    <3>3. Reached(h, i) \in Nat BY <1>2, <1>9
    <3> QED BY <1>7, <3>1, <3>2, <3>3
  <2>2. i..(last - 1) \subseteq 0..(count - 1) /\ i \in i..(last - 1) /\ last - 1 \in i..(last - 1)
    BY <1>2, <1>6, <1>7, <2>1
  <2>3. received' \subseteq Fragment
    <3>1. i..(last - 1) \subseteq Fragment BY <1>2, <2>2, FragmentsBelow
    <3>2. received \subseteq Fragment BY <1>1 DEF TypeOK
    <3> QED BY <1>13, <3>1, <3>2
  <2>4. first' \in Byte BY <1>2, <1>9, <1>13 DEF FirstMissing
  <2>5. /\ head' \in Payloads
        /\ overWrite' = (overWrite \/ Offset(start) + Length(start, n) > max)
        /\ overRead' = (overRead \/ Length(start, n) > incoming)
    <3>1. PICK data_ \in Data :
              head' = [b \in NodeBytes |-> IF b \in Offset(start)..(Offset(start) + Length(start, n) - 1)
                                      THEN data_[b] ELSE Unlinked(h, i, last)[b]]
      BY <1>13 DEF CopyIn
    <3>2. data_ \in Payloads /\ Unlinked(h, i, last) \in Payloads
      BY <1>9, <1>13, DataAssumption DEF Payloads
    <3>3. head' \in Payloads BY <3>1, <3>2 DEF Payloads
    <3> QED BY <1>13, <3>3 DEF CopyIn
  <2>6. overWrite' \in BOOLEAN /\ overRead' \in BOOLEAN /\ nodeOutside' \in BOOLEAN
    <3>1. (Offset(start) + Length(start, n) > max) \in BOOLEAN /\ (Length(start, n) > incoming) \in BOOLEAN
      BY <1>2, <1>6
    <3>2. OutsideNode(h, i) \in BOOLEAN BY <1>2, <1>7 DEF OutsideNode
    <3> QED BY <1>2, <1>13, <2>5, <3>1, <3>2, Zenon
  <2>7. first' \in 0..FAR BY <2>4, BytesAre
  <2>8. TypeOK' BY <1>1, <1>3, <1>13, <2>3, <2>5, <2>6, <2>7, Zenon DEF TypeOK, Payloads
  <2>9. ~refused /\ first' # 0 => 0 \in received'
    <3>1. CASE first = 0 /\ i = 0 BY <1>13, <2>2, <3>1
    <3>2. CASE first = 0 /\ i # 0
      <4>1. ~(i <= first) BY <1>7, <3>2
      <4>2. first' = first BY <1>13, <4>1 DEF FirstMissing
      <4> QED BY <3>2, <4>2
    <3>3. CASE first # 0 BY <1>1, <1>7, <1>13, <3>3 DEF NodeSays
    <3> QED BY <3>1, <3>2, <3>3
  <2>10. ~refused /\ OneNode => first' = count /\ 0 \in received'
    <3> SUFFICES ASSUME ~refused, OneNode PROVE first' = count /\ 0 \in received' OBVIOUS
    <3>1. i = 0 /\ FirstMissing(h, i, last) = count BY <1>11, <1>13
    <3> QED BY <1>13, <2>2, <3>1
  <2>11. NodeSays' BY <1>1, <1>3, <1>13, <2>9, <2>10 DEF NodeSays, OneNode
  <2>12. overWrite' /\ ~overWrite => refused
    <3> SUFFICES ASSUME overWrite', ~overWrite, ~refused PROVE FALSE BY <1>2
    <3>1. Offset(start) + Length(start, n) > max BY <2>5
    <3>2. Offset(start) + Length(start, n) <= len /\ len <= max
      BY <1>1, <1>6, <1>7, <2>1 DEF FieldsFit
    <3> QED BY <1>2, <1>6, <3>1, <3>2
  <2>13. ASSUME overRead', ~overRead, ~refused
         PROVE  count - 1 \in received' /\ (OneNode => count - 1 \notin received)
    <3>1. Length(start, n) > incoming BY <2>5, <2>13
    <3>2. ~(last < count) BY <1>6, <1>7, <2>1, <3>1
    <3>3. last = count BY <1>2, <1>6, <3>2
    <3>4. OneNode => received = {} BY <1>11, <1>13, <2>13
    <3> QED BY <1>13, <2>2, <3>3, <3>4
  <2>14. nodeOutside' /\ ~nodeOutside => max' < 7 BY <1>3, <1>9, <1>13
  <2> QED BY <1>10, <2>8, <2>11, <2>12, <2>13, <2>14 DEF FragmentsInv, StaysWithin
<1> QED BY <1>5, <1>12, <1>13

\* A fragment-less list is asked for: nothing changes, or the walk goes on for ever.
LEMMA AskKeeps ==
    ASSUME FragmentsInv, GetMissingFragments
    PROVE  FragmentsInv' /\ StaysWithin
<1>1. TypeOK /\ FieldsFit /\ NodeSays BY DEF FragmentsInv
<1>2. PICK h \in Found : Skip(h, first, count) < count BY DEF GetMissingFragments
<1>3. /\ hung' = TRUE
      /\ UNCHANGED <<len, max, size, count, first, head, received, refused, overWrite, overRead,
                     nodeOutside>>
  BY DEF GetMissingFragments
<1>4. count \in Nat /\ first \in Byte /\ h \in Payloads /\ len \in Nat /\ max \in Nat /\ first \in Nat
  BY <1>1, LengthAssumption, BytesAre, FoundIs DEF TypeOK
<1>5. ASSUME ~refused, OneNode PROVE FALSE
  <2>1. h = head
    <3>1. max >= 7 BY <1>1, <1>4, <1>5 DEF FieldsFit, OneNode
    <3> QED BY <1>1, <3>1, FoundIs
  <2>2. first < count
    <3> SUFFICES ASSUME first >= count PROVE FALSE BY <1>4
    <3>1. Skip(h, first, count) = first BY <1>1, <1>4, WalkRests
    <3> QED BY <1>2, <1>4, <3>1
  <2>3. first = 0 /\ head[3] = count /\ \A b \in 4..6 : head[b] = 0
    BY <1>1, <1>4, <1>5, <2>2 DEF NodeSays
  <2>4. Skip(h, 0, count) = count
    <3>1. count \in 1..count BY <1>4, <2>2
    <3> QED BY <1>1, <1>5, <2>1, <2>3, <3>1, SkipsAll
  <2> QED BY <1>2, <1>4, <2>3, <2>4
<1>6. TypeOK' BY <1>1, <1>3, Zenon DEF TypeOK
<1>7. FieldsFit' BY <1>1, <1>3 DEF FieldsFit
<1>8. NodeSays' BY <1>1, <1>3, <1>5 DEF NodeSays, OneNode
<1>9. StaysWithin BY <1>3 DEF StaysWithin
<1> QED BY <1>6, <1>7, <1>8, <1>9 DEF FragmentsInv

\* The list setFragmentSize builds; in one node, it ends behind the first fragment.
LEMMA FreshNode ==
    ASSUME NEW old \in Payloads, NEW n \in 0..MaxLength, NEW s \in Nat
    PROVE  /\ FreshList(old, n, s) \in Payloads
           /\ n > 0 /\ s % 4 = 0 =>
                 FreshList(old, n, s)[3] = n /\ \A b \in 4..6 : FreshList(old, n, s)[b] = 0
<1> DEFINE on(b) == {i \in 0..(n - 1) : b \in NodeOf(i, s)..(NodeOf(i, s) + 3)}
<1>1. n \in Nat /\ MaxLength \in Nat BY LengthAssumption
<1>2. FreshList(old, n, s) = [b \in NodeBytes |-> IF on(b) = {} THEN old[b]
                                             ELSE IF b = NodeOf(Max(on(b)), s) THEN Max(on(b)) + 1 ELSE 0]
  BY DEF FreshList
<1>3. ASSUME NEW b \in NodeBytes, on(b) # {}
      PROVE  Max(on(b)) \in on(b) /\ Max(on(b)) + 1 \in Byte /\ \A x \in on(b) : x <= Max(on(b))
  <2>1. on(b) \in SUBSET (0..n) BY <1>1
  <2>2. \A x \in on(b) : x \in 0..(n - 1) OBVIOUS
  <2> HIDE DEF on
  <2>3. Max(on(b)) \in on(b) /\ \A x \in on(b) : x <= Max(on(b)) BY <1>1, <1>3, <2>1, GreatestOf
  <2>4. Max(on(b)) + 1 \in 0..(MaxLength + 1) BY <1>1, <2>2, <2>3
  <2> QED BY <2>3, <2>4, BytesAre
<1>4. FreshList(old, n, s) \in Payloads
  <2> HIDE DEF on
  <2>1. \A b \in NodeBytes : (IF on(b) = {} THEN old[b]
                         ELSE IF b = NodeOf(Max(on(b)), s) THEN Max(on(b)) + 1 ELSE 0) \in Byte
    BY <1>3, BytesAre DEF Payloads
  <2> QED BY <1>2, <2>1 DEF Payloads
<1>5. ASSUME n > 0, s % 4 = 0, NEW b \in 3..6
      PROVE  FreshList(old, n, s)[b] = IF b = 3 THEN n ELSE 0
  <2>1. \A i \in Int : NodeOf(i, s) = 3 BY <1>5, NodeIs
  <2>2. b \in NodeBytes BY BytesAre
  <2>3. n - 1 \in on(b) /\ on(b) \subseteq 0..(n - 1)
    <3>1. n - 1 \in 0..(n - 1) /\ NodeOf(n - 1, s) = 3 BY <1>1, <1>5, <2>1
    <3> QED BY <3>1
  <2>4. Max(on(b)) \in on(b) /\ \A x \in on(b) : x <= Max(on(b)) BY <1>3, <2>2, <2>3
  <2> HIDE DEF on
  <2>5. Max(on(b)) = n - 1 BY <1>1, <2>3, <2>4
  <2>6. NodeOf(n - 1, s) = 3 BY <1>1, <2>1
  <2>7. on(b) # {} BY <2>3
  <2> QED BY <1>1, <1>2, <2>2, <2>5, <2>6, <2>7
<1>6. 3 \in 3..6 /\ \A b \in 4..6 : b \in 3..6 /\ b # 3 OBVIOUS
<1> HIDE DEF on
<1> QED BY <1>4, <1>5, <1>6

\* A new sample.
LEMMA SetKeeps ==
    ASSUME FragmentsInv, ~hung, NEW l \in Lengths, NEW s \in Sizes, NEW create \in BOOLEAN,
           SetFragmentSize(l, s, create)
    PROVE  FragmentsInv' /\ StaysWithin
<1>1. TypeOK /\ l \in 0..MaxLength /\ s \in Nat /\ head \in Payloads /\ max \in Nat
  BY LengthAssumption, LengthsAssumption DEF FragmentsInv, TypeOK, Payloads
<1>2. /\ l <= max /\ len' = l /\ size' = s /\ count' = Fragments(l, s)
      /\ first' = IF create THEN 0 ELSE count'
      /\ head' = IF create THEN FreshList(head, count', s) ELSE head
      /\ nodeOutside' = (create /\ \E i \in 0..(count' - 1) : NodeOf(i, s) + 4 > max)
      /\ received' = IF create THEN {} ELSE 0..(count' - 1)
      /\ refused' = FALSE /\ overWrite' = FALSE /\ overRead' = FALSE
      /\ UNCHANGED <<max, hung>>
  BY DEF SetFragmentSize
<1>3. /\ count' \in 0..MaxLength /\ count' \in Nat
      /\ count' > 0 => s > 0 /\ (count' - 1) * s < l
  BY <1>1, <1>2, FragmentCount, LengthAssumption
<1>4. /\ 0..(count' - 1) \subseteq Fragment /\ (count' > 0 => 0 \in 0..(count' - 1))
      /\ 0 \in 0..FAR /\ count' \in 0..FAR
  BY <1>3, FragmentsBelow
<1>5. /\ FreshList(head, count', s) \in Payloads
      /\ count' > 0 /\ s % 4 = 0 =>
            FreshList(head, count', s)[3] = count' /\ \A b \in 4..6 : FreshList(head, count', s)[b] = 0
  BY <1>1, <1>3, FreshNode
<1>6. TypeOK'
  <2>1. head' \in [NodeBytes -> Byte] BY <1>1, <1>2, <1>5 DEF Payloads
  <2>2. received' \subseteq Fragment /\ first' \in 0..FAR BY <1>2, <1>4
  <2>3. nodeOutside' \in BOOLEAN BY <1>2, Zenon
  <2> QED BY <1>1, <1>2, <1>3, <2>1, <2>2, <2>3, Zenon DEF TypeOK
<1>7. FieldsFit' BY <1>2, <1>3 DEF FieldsFit
<1>8. NodeSays'
  <2>1. CASE create BY <1>2, <1>5, <2>1 DEF NodeSays, OneNode
  <2>2. CASE ~create BY <1>2, <1>4, <2>2 DEF NodeSays
  <2> QED BY <2>1, <2>2
<1>9. nodeOutside' => max' < 7
  <2> SUFFICES ASSUME NEW i \in 0..(count' - 1), NodeOf(i, s) + 4 > max PROVE max < 7 BY <1>2
  <2>1. NodeOf(i, s) \in 0..3 BY <1>1, NodeIs
  <2> QED BY <1>1, <2>1
<1> QED BY <1>2, <1>6, <1>7, <1>8, <1>9 DEF FragmentsInv, StaysWithin

\* A copy of another change.
LEMMA CopyKeeps ==
    ASSUME FragmentsInv, ~hung, NEW l \in Lengths, NEW s \in Sizes, NEW complete \in BOOLEAN,
           NEW untyped \in BOOLEAN, Copy(l, s, complete, untyped)
    PROVE  FragmentsInv' /\ StaysWithin
<1>1. /\ TypeOK /\ MaxLength \in Nat /\ max \in 0..MaxLength /\ l \in 0..MaxLength /\ s \in Nat
      /\ head \in Payloads
  BY LengthAssumption, LengthsAssumption DEF FragmentsInv, TypeOK, Payloads
<1>2. /\ len' = l /\ size' = s /\ count' = Fragments(l, s)
      /\ first' = IF complete THEN count' ELSE 0
      /\ overWrite' = FALSE /\ overRead' = FALSE /\ nodeOutside' = FALSE
      /\ UNCHANGED hung
  BY DEF Copy, CopyFields
<1>3. /\ count' \in 0..MaxLength /\ count' \in Nat
      /\ count' > 0 => s > 0 /\ (count' - 1) * s < l
  BY <1>1, <1>2, FragmentCount
<1>4. /\ 0..(count' - 1) \subseteq Fragment /\ (count' > 0 => 0 \in 0..(count' - 1))
      /\ 0 \in 0..FAR /\ count' \in 0..FAR
  BY <1>3, FragmentsBelow
<1>5. first' \in 0..FAR BY <1>2, <1>4
<1>6. StaysWithin BY <1>2 DEF StaysWithin
<1>7. CASE l > max /\ ~untyped
  <2>1. refused' = TRUE /\ UNCHANGED <<max, head, received>> BY <1>7 DEF Copy
  <2>2. TypeOK' BY <1>1, <1>2, <1>3, <1>5, <1>7, <2>1 DEF TypeOK
  <2> QED BY <1>2, <1>3, <1>6, <2>1, <2>2 DEF FragmentsInv, FieldsFit, NodeSays
<1>8. CASE ~(l > max /\ ~untyped)
  <2>1. max' = Max({max, l}) /\ CopyPayload(l, s, complete) BY <1>8 DEF Copy
  <2>2. max' \in 0..MaxLength /\ l <= max' BY <1>1, <2>1, MaxOfTwo
  <2>3. refused' = FALSE /\ received' = IF complete THEN 0..(count' - 1) ELSE {}
    BY <2>1 DEF CopyPayload
  <2>4. PICK data_ \in Data :
            LET from == IF complete THEN data_ ELSE FreshList(data_, count', s)
            IN  head' = [b \in NodeBytes |-> IF b < l THEN from[b] ELSE head[b]]
    BY <2>1 DEF CopyPayload
  <2>5. data_ \in Payloads BY DataAssumption DEF Payloads
  <2>6. /\ FreshList(data_, count', s) \in Payloads
        /\ count' > 0 /\ s % 4 = 0 =>
              FreshList(data_, count', s)[3] = count' /\ \A b \in 4..6 : FreshList(data_, count', s)[b] = 0
    BY <1>1, <1>3, <2>5, FreshNode
  <2>7. head' \in Payloads
    <3>1. (IF complete THEN data_ ELSE FreshList(data_, count', s)) \in Payloads BY <2>5, <2>6
    <3> QED BY <1>1, <2>4, <3>1 DEF Payloads
  <2>8. TypeOK' BY <1>1, <1>2, <1>3, <1>4, <1>5, <2>2, <2>3, <2>7 DEF TypeOK, Payloads
  <2>9. FieldsFit' BY <1>2, <1>3, <2>2, <2>3 DEF FieldsFit
  <2>10. NodeSays'
    <3>1. CASE complete BY <1>2, <1>4, <2>3, <3>1 DEF NodeSays
    <3>2. CASE ~complete
      <4>1. \A b \in 3..6 : l >= 7 => head'[b] = FreshList(data_, count', s)[b]
        <5>1. \A b \in 3..6 : b \in NodeBytes /\ (l >= 7 => b < l) BY <1>1, BytesAre
        <5> QED BY <2>4, <3>2, <5>1
      <4>2. 3 \in 3..6 /\ \A b \in 4..6 : b \in 3..6 OBVIOUS
      <4>3. OneNode' => l >= 7 /\ s % 4 = 0 BY <1>2 DEF OneNode
      <4>4. count' > 0 /\ OneNode' => head'[3] = count' /\ \A b \in 4..6 : head'[b] = 0
        BY <2>6, <4>1, <4>2, <4>3
      <4> QED BY <1>2, <2>3, <3>2, <4>4 DEF NodeSays
    <3> QED BY <3>1, <3>2
  <2> QED BY <1>6, <2>8, <2>9, <2>10 DEF FragmentsInv
<1> QED BY <1>7, <1>8

\* Every step of a change keeps the invariant and copies inside.
LEMMA FragmentsStay == FragmentsInv /\ [Next]_vars => FragmentsInv' /\ (StaysWithin \/ UNCHANGED vars)
<1> SUFFICES ASSUME FragmentsInv, [Next]_vars PROVE FragmentsInv' /\ (StaysWithin \/ UNCHANGED vars)
  OBVIOUS
<1>1. CASE UNCHANGED vars
  <2>1. TypeOK' BY <1>1, Zenon DEF vars, FragmentsInv, TypeOK
  <2>2. FieldsFit' /\ NodeSays' BY <1>1 DEF vars, FragmentsInv, FieldsFit, NodeSays, OneNode
  <2> QED BY <1>1, <2>1, <2>2 DEF FragmentsInv
<1>2. CASE Next
  <2>1. ~hung BY <1>2 DEF Next
  <2>2. ASSUME NEW l \in Lengths, NEW s \in Sizes, NEW b \in BOOLEAN, SetFragmentSize(l, s, b)
        PROVE  FragmentsInv' /\ StaysWithin
    BY <2>1, <2>2, SetKeeps
  <2>3. ASSUME NEW l \in Lengths, NEW s \in Sizes, NEW b \in BOOLEAN, NEW u \in BOOLEAN,
               Copy(l, s, b, u)
        PROVE  FragmentsInv' /\ StaysWithin
    BY <2>1, <2>3, CopyKeeps
  <2>4. ASSUME NEW start \in Numbers, NEW n \in Numbers, NEW incoming \in Lengths,
               AddFragments(start, n, incoming)
        PROVE  FragmentsInv' /\ StaysWithin
    BY <2>4, AddKeeps, LengthsAssumption
  <2> QED BY <1>2, <2>2, <2>3, <2>4, AskKeeps DEF Next, Numbers
<1> QED BY <1>1, <1>2

\* A change begins without a payload.
LEMMA FragmentsAtFirst == Init => FragmentsInv
<1> SUFFICES ASSUME Init PROVE FragmentsInv OBVIOUS
<1>1. MaxLength \in Nat /\ 0 \in 0..FAR /\ 0 \in Byte BY LengthAssumption, BytesAre
<1>2. /\ refused \in BOOLEAN /\ overWrite \in BOOLEAN /\ overRead \in BOOLEAN /\ nodeOutside \in BOOLEAN
      /\ ~refused /\ hung = FALSE
  BY DEF Init
<1>3. /\ len \in 0..MaxLength /\ max \in 0..MaxLength
      /\ size \in Sizes \cup {0} /\ count \in 0..MaxLength /\ first \in 0..FAR
      /\ received \subseteq Fragment /\ head \in [NodeBytes -> Byte]
  BY <1>1, LengthsAssumption DEF Init
<1>4. TypeOK BY <1>2, <1>3 DEF TypeOK
<1>5. FieldsFit BY <1>1, <1>3 DEF Init, FieldsFit
<1>6. NodeSays BY DEF Init, NodeSays
<1> QED BY <1>4, <1>5, <1>6 DEF FragmentsInv

\* What the invariant says of the list.
LEMMA FirstIsAll == FragmentsInv => FirstFragmentDecides
<1> SUFFICES ASSUME FragmentsInv PROVE FirstFragmentDecides OBVIOUS
<1>1. count \in Nat /\ first \in Nat BY LengthAssumption, BytesAre DEF FragmentsInv, TypeOK
<1>2. hung => refused \/ ~OneNode BY DEF FragmentsInv, NodeSays
<1>3. ASSUME ~refused, count > 0
      PROVE  /\ Assembled => 0 \in received
             /\ OneNode => /\ 0 \in received => Assembled
                           /\ ~Assembled => received = {} /\ MissingFragments(head) = {1}
  <2>1. Assembled => 0 \in received
    <3>1. Assembled => first # 0 BY <1>1, <1>3 DEF Assembled
    <3> QED BY <1>3, <3>1 DEF FragmentsInv, NodeSays
  <2>2. ASSUME OneNode
        PROVE  /\ 0 \in received => Assembled
               /\ ~Assembled => received = {} /\ MissingFragments(head) = {1}
    <3>1. CASE first = count /\ 0 \in received BY <1>1, <3>1 DEF Assembled
    <3>2. CASE first = 0 /\ received = {} /\ head[3] = count /\ \A b \in 4..6 : head[b] = 0
      <4>1. MissingFragments(head) = {1} BY <1>3, <2>2, <3>2, MissingIsFirst DEF FragmentsInv
      <4> QED BY <3>2, <4>1
    <3> QED BY <1>3, <2>2, <3>1, <3>2 DEF FragmentsInv, NodeSays
  <2> QED BY <2>1, <2>2
<1> QED BY <1>2, <1>3 DEF FirstFragmentDecides

Received == part = "fragments" => FragmentsInv

\* The part that follows the fragments begins and goes on like that.
LEMMA ReceivedStays ==
    /\ PartsInit => Received
    /\ Received /\ [PartsNext]_parts => Received' /\ [part = "fragments" => StaysWithin]_parts
<1>1. PartsInit => Received BY FragmentsAtFirst DEF PartsInit, Received
<1>2. ASSUME Received, [PartsNext]_parts
      PROVE  Received' /\ [part = "fragments" => StaysWithin]_parts
  <2>1. CASE UNCHANGED parts
    <3>1. UNCHANGED part /\ UNCHANGED vars BY <2>1 DEF parts
    <3>2. FragmentsInv => FragmentsInv' BY <3>1, FragmentsStay
    <3> QED BY <1>2, <2>1, <3>1, <3>2 DEF Received
  <2>2. CASE part = "fragments" /\ Next /\ UNCHANGED part
    <3>1. FragmentsInv BY <1>2, <2>2 DEF Received
    <3>2. FragmentsInv' /\ (StaysWithin \/ UNCHANGED vars) BY <2>2, <3>1, FragmentsStay
    <3>3. UNCHANGED vars => StaysWithin BY DEF vars, StaysWithin
    <3> QED BY <2>2, <3>2, <3>3 DEF Received
  <2>3. CASE part # "fragments" /\ UNCHANGED part BY <2>3 DEF Received
  <2> QED BY <1>2, <2>1, <2>2, <2>3 DEF PartsNext
<1> QED BY <1>1, <1>2

\* As the code computes where the nodes are, a sample is never complete before its first
\* fragment came; where all nodes are one place of the payload that fragment is all it
\* waits for, and no call loops.  For any payload lengths and any fragment sizes: what is
\* said of the one place, where the size is a multiple of four and the sample has seven bytes.
THEOREM FirstFragmentIsAll == PartsSpec => []FirstDecides
<1>1. Received => FirstDecides BY FirstIsAll DEF Received, FirstDecides
<1> QED BY <1>1, ReceivedStays, PTL DEF PartsSpec

\* Whatever numbers arrive, whatever wraps, and however nodes overlap, data stays inside
\* the payload and is read from inside what arrived, but for the exceptions stated.
THEOREM DataStaysInside == PartsSpec => WithinPayload
BY ReceivedStays, PTL DEF PartsSpec, WithinPayload

-----------------------------------------------------------------------------
(***************************************************************************)
(* The payload, for any sizes and any failures of the allocator.           *)
(***************************************************************************)

Held == IF data = -1 THEN 0 ELSE 1

PayloadNumbers ==
    /\ length \in 0..MaxSize /\ max_size \in 0..MaxSize /\ data \in {-1} \cup 0..MaxSize
    /\ defined \in 0..MaxSize /\ blocks \in 0..2

PayloadFlags ==
    declined \in BOOLEAN /\ failed \in BOOLEAN /\ dropped \in BOOLEAN /\ crashed \in BOOLEAN

\* The invariant.  What it adds to the properties: the blocks that exist are the one
\* held and at most one more, which reserveFragmented replaced.
PayloadInv ==
    /\ PayloadNumbers /\ PayloadFlags /\ blocks - Held \in 0..1
    /\ Payload!BlockAsAnnounced /\ Payload!NoBlockLost /\ Payload!CrashNeedsFailure

LEMMA PayloadTyped == PayloadNumbers /\ PayloadFlags <=> Payload!TypeOK
BY Zenon DEF PayloadNumbers, PayloadFlags, Payload!TypeOK, Payload!None

LEMMA PayloadAtFirst == Payload!Init => PayloadInv
<1> SUFFICES ASSUME Payload!Init PROVE PayloadInv OBVIOUS
<1>1. PayloadFlags BY Zenon DEF Payload!Init, PayloadFlags
<1>2. PayloadNumbers /\ blocks - Held \in 0..1
  BY SizeAssumption DEF Payload!Init, PayloadNumbers, Held, Payload!None
<1>3. Payload!BlockAsAnnounced BY DEF Payload!Init, Payload!BlockAsAnnounced, Payload!None
<1>4. Payload!NoBlockLost BY DEF Payload!Init, Payload!NoBlockLost, Payload!None
<1>5. Payload!CrashNeedsFailure BY DEF Payload!Init, Payload!CrashNeedsFailure
<1> QED BY <1>1, <1>2, <1>3, <1>4, <1>5 DEF PayloadInv

\* empty(), while no copy has crashed.
LEMMA PayloadEmpty == PayloadInv /\ ~crashed /\ Payload!Empty => PayloadInv'
<1> SUFFICES ASSUME PayloadInv, ~crashed, Payload!Empty PROVE PayloadInv' OBVIOUS
<1>0. PayloadNumbers /\ PayloadFlags /\ blocks - Held \in 0..1 BY DEF PayloadInv
<1>a. /\ length' = 0 /\ max_size' = 0 /\ data' = -1 /\ defined' = 0
      /\ blocks' = blocks - Held
  BY <1>0 DEF Payload!Empty, Payload!EmptyTo, Payload!None, PayloadNumbers, Held
<1>b. declined' = FALSE /\ failed' = FALSE /\ dropped' = dropped /\ crashed' = crashed
  BY DEF Payload!Empty, Payload!EmptyTo
<1>1. PayloadFlags' BY <1>0, <1>b, Zenon DEF PayloadFlags
<1>2. PayloadNumbers' /\ (blocks - Held \in 0..1)'
  BY <1>0, <1>a, SizeAssumption DEF PayloadNumbers, Held
<1>3. Payload!BlockAsAnnounced' BY <1>a DEF Payload!BlockAsAnnounced, Payload!None
<1>4. Payload!NoBlockLost'
  BY <1>0, <1>a, <1>b DEF PayloadInv, Payload!NoBlockLost, Payload!None, Held, PayloadNumbers
<1>5. Payload!CrashNeedsFailure'
  BY <1>b DEF Payload!CrashNeedsFailure
<1> QED BY <1>1, <1>2, <1>3, <1>4, <1>5 DEF PayloadInv

\* What a successful reserve(n) does to the block.
LEMMA PayloadAllocated ==
    ASSUME PayloadInv, NEW n \in 0..MaxSize, Payload!Allocate(n)
    PROVE  /\ data' = n /\ max_size' = n /\ defined' = n /\ failed' = failed
           /\ blocks' = (blocks - Held) + 1
BY DEF PayloadInv, PayloadNumbers, Payload!Allocate, Payload!Grown, Payload!None, Held

\* What a failed one does: the block is given back and its size stays.
LEMMA PayloadNotAllocated ==
    ASSUME PayloadInv, Payload!Fail
    PROVE  /\ data' = -1 /\ max_size' = max_size /\ defined' = 0 /\ failed' = TRUE
           /\ blocks' = blocks - Held
BY DEF PayloadInv, PayloadNumbers, Payload!Fail, Payload!None, Held

\* reserve(n)
LEMMA PayloadReserve ==
    ASSUME PayloadInv, ~crashed, NEW n \in 0..MaxSize, Payload!Reserve(n)
    PROVE  PayloadInv'
<1>0. PayloadNumbers /\ PayloadFlags /\ blocks - Held \in 0..1 BY DEF PayloadInv
<1>a. length' = length /\ declined' = declined /\ dropped' = dropped /\ crashed' = crashed /\ n > max_size
  BY DEF Payload!Reserve
<1>1. CASE Payload!Allocate(n)
  <2>a. /\ data' = n /\ max_size' = n /\ defined' = n /\ failed' = failed
        /\ blocks' = (blocks - Held) + 1
    BY <1>1, PayloadAllocated
  <2>1. PayloadFlags' BY <1>0, <1>a, <2>a, Zenon DEF PayloadFlags
  <2>2. PayloadNumbers' /\ (blocks - Held \in 0..1)'
    BY <1>0, <1>a, <2>a, SizeAssumption DEF PayloadNumbers, Held
  <2>3. Payload!BlockAsAnnounced'
    BY <1>0, <1>a, <2>a, SizeAssumption
       DEF PayloadInv, PayloadNumbers, Payload!BlockAsAnnounced, Payload!None
  <2>4. Payload!NoBlockLost'
    BY <1>0, <1>a, <2>a DEF PayloadInv, PayloadNumbers, Payload!NoBlockLost, Payload!None, Held
  <2>5. Payload!CrashNeedsFailure' BY <1>a DEF Payload!CrashNeedsFailure
  <2> QED BY <2>1, <2>2, <2>3, <2>4, <2>5 DEF PayloadInv
<1>2. CASE Payload!Fail
  <2>a. /\ data' = -1 /\ max_size' = max_size /\ defined' = 0 /\ failed' = TRUE
        /\ blocks' = blocks - Held
    BY <1>2, PayloadNotAllocated
  <2>1. PayloadFlags' BY <1>0, <1>a, <2>a, Zenon DEF PayloadFlags
  <2>2. PayloadNumbers' /\ (blocks - Held \in 0..1)'
    BY <1>0, <1>a, <2>a, SizeAssumption DEF PayloadNumbers, Held
  <2>3. Payload!BlockAsAnnounced' BY <2>a DEF Payload!BlockAsAnnounced
  <2>4. Payload!NoBlockLost'
    BY <1>0, <1>a, <2>a DEF PayloadInv, PayloadNumbers, Payload!NoBlockLost, Payload!None, Held
  <2>5. Payload!CrashNeedsFailure' BY <2>a DEF Payload!CrashNeedsFailure
  <2> QED BY <2>1, <2>2, <2>3, <2>4, <2>5 DEF PayloadInv
<1> QED BY <1>1, <1>2 DEF Payload!Reserve

\* reserveFragmented: the block it replaces is the one that is lost.
LEMMA PayloadReserveFragmented ==
    ASSUME PayloadInv, ~crashed, NEW n \in 0..MaxSize, Payload!ReserveFragmented(n)
    PROVE  PayloadInv'
<1>0. PayloadNumbers /\ PayloadFlags /\ blocks - Held \in 0..1 BY DEF PayloadInv
<1>a. /\ blocks < 2 /\ length' = n /\ max_size' = n /\ declined' = FALSE
      /\ dropped' = (dropped \/ data # -1) /\ crashed' = crashed
  BY DEF Payload!ReserveFragmented, Payload!None
<1>b. \/ data' = n /\ defined' = n /\ blocks' = blocks + 1 /\ failed' = failed
      \/ data' = -1 /\ defined' = 0 /\ failed' = TRUE /\ blocks' = blocks
  BY DEF Payload!ReserveFragmented, Payload!None
<1>c. Held \in 0..1 /\ (Held = 1 <=> data # -1) BY DEF Held
<1>1. PayloadFlags' BY <1>0, <1>a, <1>b, Zenon DEF PayloadFlags
<1>2. PayloadNumbers'
  BY <1>0, <1>a, <1>b, SizeAssumption DEF PayloadNumbers
<1>3. (blocks - Held \in 0..1)'
  BY <1>0, <1>a, <1>b, SizeAssumption DEF PayloadNumbers, Held
<1>4. Payload!BlockAsAnnounced'
  BY <1>0, <1>a, <1>b, SizeAssumption DEF Payload!BlockAsAnnounced, Payload!None
<1>5. Payload!NoBlockLost'
  <2>1. ~dropped' => ~dropped /\ data = -1 BY <1>a
  <2>2. ~dropped' => blocks = 0 BY <2>1 DEF PayloadInv, Payload!NoBlockLost, Payload!None
  <2> QED BY <1>b, <2>2 DEF Payload!NoBlockLost, Payload!None
<1>6. Payload!CrashNeedsFailure' BY <1>a DEF Payload!CrashNeedsFailure
<1> QED BY <1>1, <1>2, <1>3, <1>4, <1>5, <1>6 DEF PayloadInv

\* copy(n, with_limit): into a block that holds n bytes already ...
LEMMA PayloadCopyFits ==
    ASSUME PayloadInv, ~crashed, NEW n \in 0..MaxSize, NEW limit \in BOOLEAN,
           Payload!Copy(n, limit), n <= max_size
    PROVE  PayloadInv'
<1>0. PayloadNumbers /\ PayloadFlags /\ blocks - Held \in 0..1 BY DEF PayloadInv
<1>a. /\ length' = n /\ data' = data /\ max_size' = max_size /\ defined' = defined
      /\ blocks' = blocks /\ failed' = failed /\ declined' = FALSE /\ dropped' = dropped
      /\ crashed' = (n > 0 /\ data = -1)
  BY DEF Payload!Copy, Payload!CopyBytes, Payload!None
<1>1. PayloadFlags' BY <1>0, <1>a, Zenon DEF PayloadFlags
<1>2. PayloadNumbers' /\ (blocks - Held \in 0..1)'
  BY <1>0, <1>a, SizeAssumption DEF PayloadNumbers, Held
<1>3. Payload!BlockAsAnnounced'
  BY <1>0, <1>a DEF PayloadInv, Payload!BlockAsAnnounced, Payload!None
<1>4. Payload!NoBlockLost' BY <1>0, <1>a DEF PayloadInv, Payload!NoBlockLost, Payload!None
<1>5. Payload!CrashNeedsFailure'
  <2>1. n > 0 /\ data = -1 => failed
    BY <1>0 DEF PayloadInv, PayloadNumbers, Payload!BlockAsAnnounced, Payload!None
  <2>2. crashed' => n > 0 /\ data = -1 BY <1>a
  <2> QED BY <1>a, <2>1, <2>2 DEF Payload!CrashNeedsFailure
<1> QED BY <1>1, <1>2, <1>3, <1>4, <1>5 DEF PayloadInv

\* ... refused for its size, or into a block that has to grow.
LEMMA PayloadCopyGrows ==
    ASSUME PayloadInv, ~crashed, NEW n \in 0..MaxSize, NEW limit \in BOOLEAN,
           Payload!Copy(n, limit), n > max_size
    PROVE  PayloadInv'
<1>0. PayloadNumbers /\ PayloadFlags /\ blocks - Held \in 0..1 BY DEF PayloadInv
<1>a. length' = n /\ dropped' = dropped BY DEF Payload!Copy
<1>b. ~(n <= max_size) BY <1>0 DEF PayloadNumbers
<1>1. CASE limit
  <2>a. /\ data' = data /\ max_size' = max_size /\ defined' = defined /\ blocks' = blocks
        /\ failed' = failed /\ declined' = TRUE /\ crashed' = crashed
    BY <1>1, <1>b DEF Payload!Copy
  <2>1. PayloadFlags' BY <1>0, <1>a, <2>a, Zenon DEF PayloadFlags
  <2>2. PayloadNumbers' /\ (blocks - Held \in 0..1)'
    BY <1>0, <1>a, <2>a, SizeAssumption DEF PayloadNumbers, Held
  <2>3. Payload!BlockAsAnnounced'
    BY <1>0, <1>a, <2>a DEF PayloadInv, Payload!BlockAsAnnounced, Payload!None
  <2>4. Payload!NoBlockLost' BY <1>a, <2>a DEF PayloadInv, Payload!NoBlockLost, Payload!None
  <2>5. Payload!CrashNeedsFailure' BY <2>a DEF Payload!CrashNeedsFailure
  <2> QED BY <2>1, <2>2, <2>3, <2>4, <2>5 DEF PayloadInv
<1>2. CASE ~limit /\ Payload!Allocate(n) /\ declined' = FALSE /\ Payload!CopyBytes(n)
  <2>a. /\ data' = n /\ max_size' = n /\ defined' = n /\ failed' = failed
        /\ blocks' = (blocks - Held) + 1
    BY <1>2, PayloadAllocated
  <2>b. declined' = FALSE /\ crashed' = FALSE
    BY <1>2, <2>a DEF Payload!CopyBytes, Payload!None
  <2>1. PayloadFlags' BY <1>0, <1>a, <2>a, <2>b, Zenon DEF PayloadFlags
  <2>2. PayloadNumbers' /\ (blocks - Held \in 0..1)'
    BY <1>0, <1>a, <2>a, SizeAssumption DEF PayloadNumbers, Held
  <2>3. Payload!BlockAsAnnounced'
    BY <1>0, <1>a, <2>a DEF PayloadInv, Payload!BlockAsAnnounced, Payload!None
  <2>4. Payload!NoBlockLost'
    BY <1>0, <1>a, <2>a DEF PayloadInv, PayloadNumbers, Payload!NoBlockLost, Payload!None, Held
  <2>5. Payload!CrashNeedsFailure' BY <2>b DEF Payload!CrashNeedsFailure
  <2> QED BY <2>1, <2>2, <2>3, <2>4, <2>5 DEF PayloadInv
<1>3. CASE ~limit /\ Payload!Fail /\ declined' = declined /\ crashed' = crashed
  <2>a. /\ data' = -1 /\ max_size' = max_size /\ defined' = 0 /\ failed' = TRUE
        /\ blocks' = blocks - Held
    BY <1>3, PayloadNotAllocated
  <2>1. PayloadFlags' BY <1>0, <1>a, <1>3, <2>a, Zenon DEF PayloadFlags
  <2>2. PayloadNumbers' /\ (blocks - Held \in 0..1)'
    BY <1>0, <1>a, <2>a, SizeAssumption DEF PayloadNumbers, Held
  <2>3. Payload!BlockAsAnnounced' BY <2>a DEF Payload!BlockAsAnnounced
  <2>4. Payload!NoBlockLost'
    BY <1>0, <1>a, <2>a DEF PayloadInv, PayloadNumbers, Payload!NoBlockLost, Payload!None, Held
  <2>5. Payload!CrashNeedsFailure' BY <2>a DEF Payload!CrashNeedsFailure
  <2> QED BY <2>1, <2>2, <2>3, <2>4, <2>5 DEF PayloadInv
<1> QED BY <1>b, <1>1, <1>2, <1>3 DEF Payload!Copy

LEMMA PayloadStays == PayloadInv /\ [Payload!Next]_block => PayloadInv'
<1> SUFFICES ASSUME PayloadInv, [Payload!Next]_block PROVE PayloadInv' OBVIOUS
<1>1. CASE Payload!Next
  <2>1. ~crashed BY <1>1 DEF Payload!Next
  <2>2. CASE Payload!Empty BY <2>1, <2>2, PayloadEmpty
  <2>3. CASE \E n \in 0..MaxSize : Payload!Reserve(n) BY <2>1, <2>3, PayloadReserve
  <2>4. CASE \E n \in 0..MaxSize : Payload!ReserveFragmented(n)
    BY <2>1, <2>4, PayloadReserveFragmented
  <2>5. CASE \E n \in 0..MaxSize, limit \in BOOLEAN : Payload!Copy(n, limit)
    <3>1. PICK n \in 0..MaxSize, limit \in BOOLEAN : Payload!Copy(n, limit) BY <2>5
    <3>2. n <= max_size \/ n > max_size BY DEF PayloadInv, PayloadNumbers
    <3> QED BY <2>1, <3>1, <3>2, PayloadCopyFits, PayloadCopyGrows
  <2> QED BY <1>1, <2>2, <2>3, <2>4, <2>5 DEF Payload!Next
<1>2. CASE UNCHANGED block
  <2> USE <1>2 DEF block
  <2>1. PayloadFlags' BY Zenon DEF PayloadInv, PayloadFlags
  <2>2. PayloadNumbers' /\ (blocks - Held \in 0..1)' BY DEF PayloadInv, PayloadNumbers, Held
  <2>3. Payload!BlockAsAnnounced' BY DEF PayloadInv, Payload!BlockAsAnnounced
  <2>4. Payload!NoBlockLost' BY DEF PayloadInv, Payload!NoBlockLost
  <2>5. Payload!CrashNeedsFailure' BY DEF PayloadInv, Payload!CrashNeedsFailure
  <2> QED BY <2>1, <2>2, <2>3, <2>4, <2>5 DEF PayloadInv
<1> QED BY <1>1, <1>2

\* Any sizes and any failures: the payload announces the block it has, loses only the
\* block reserveFragmented replaces, and copies into nothing only after an allocation
\* failed.
THEOREM PayloadHolds == PartsSpec => []PayloadSound
<1>1. PartsInit => PayloadInv BY PayloadAtFirst DEF PartsInit
<1>2. PayloadInv /\ [PartsNext]_parts => PayloadInv'
  <2>1. [PartsNext]_parts => [Payload!Next]_block BY DEF PartsNext, parts
  <2> QED BY <2>1, PayloadStays
<1>3. PayloadInv => PayloadSound BY PayloadTyped DEF PayloadInv, PayloadSound
<1> QED BY <1>1, <1>2, <1>3, PTL DEF PartsSpec
-----------------------------------------------------------------------------
(***************************************************************************)
(* The history, for any threads, any changes and any capacity.             *)
(***************************************************************************)

\* So Min is the least.
LEMMA LeastIs ==
    ASSUME NEW T \in SUBSET Nat, T # {}
    PROVE  Writers!Min(T) \in T /\ \A y \in T : Writers!Min(T) <= y
<1>1. \E x \in T : \A y \in T : x =< y BY LeastOf
<1> QED BY <1>1 DEF Writers!Min

\* A change appended to a list, and one taken out of it.
LEMMA Appended ==
    ASSUME NEW S, NEW s \in Seq(S), NEW c \in S
    PROVE  /\ Append(s, c) \in Seq(S) /\ Len(Append(s, c)) = Len(s) + 1
           /\ Writers!Range(Append(s, c)) = Writers!Range(s) \cup {c}
           /\ Writers!IsInjective(s) /\ c \notin Writers!Range(s) =>
                  Writers!IsInjective(Append(s, c))
<1> DEFINE a == Append(s, c)
<1>1. /\ a \in Seq(S) /\ Len(a) = Len(s) + 1 /\ DOMAIN a = 1..(Len(s) + 1)
      /\ DOMAIN s = 1..Len(s) /\ Len(s) \in Nat
      /\ a[Len(s) + 1] = c /\ \A i \in 1..Len(s) : a[i] = s[i]
  OBVIOUS
<1> HIDE DEF a
<1>2. Writers!Range(a) = Writers!Range(s) \cup {c}
  <2>1. ASSUME NEW x \in Writers!Range(a) PROVE x \in Writers!Range(s) \cup {c}
    BY <1>1, <2>1 DEF Writers!Range
  <2>2. ASSUME NEW x \in Writers!Range(s) PROVE x \in Writers!Range(a)
    <3>1. PICK i \in 1..Len(s) : x = s[i] BY <1>1 DEF Writers!Range
    <3>2. i \in DOMAIN a /\ a[i] = x BY <1>1, <3>1
    <3> QED BY <3>2 DEF Writers!Range
  <2>3. c \in Writers!Range(a)
    <3>1. Len(s) + 1 \in DOMAIN a BY <1>1
    <3> QED BY <1>1, <3>1 DEF Writers!Range
  <2> QED BY <2>1, <2>2, <2>3
<1>3. ASSUME Writers!IsInjective(s), c \notin Writers!Range(s) PROVE Writers!IsInjective(a)
  <2>1. \A i \in 1..Len(s) : s[i] # c BY <1>1, <1>3 DEF Writers!Range
  <2>2. ASSUME NEW i \in DOMAIN a, NEW j \in DOMAIN a, a[i] = a[j] PROVE i = j
    <3>1. CASE i \in 1..Len(s) /\ j \in 1..Len(s)
      BY <1>1, <1>3, <2>2, <3>1 DEF Writers!IsInjective
    <3> QED BY <1>1, <2>1, <2>2, <3>1
  <2> QED BY <2>2 DEF Writers!IsInjective
<1> QED BY <1>1, <1>2, <1>3 DEF a

LEMMA TakenOut ==
    ASSUME NEW S, NEW s \in Seq(S), NEW i \in 1..Len(s)
    PROVE  /\ Writers!RemoveAt(s, i) \in Seq(S) /\ Len(Writers!RemoveAt(s, i)) = Len(s) - 1
           /\ Writers!IsInjective(s) =>
                  /\ Writers!Range(Writers!RemoveAt(s, i)) = Writers!Range(s) \ {s[i]}
                  /\ Writers!IsInjective(Writers!RemoveAt(s, i))
<1> DEFINE r == Writers!RemoveAt(s, i)
<1>0. DOMAIN s = 1..Len(s) /\ Len(s) \in Nat /\ \A j \in 1..Len(s) : s[j] \in S OBVIOUS
<1>1. /\ r \in Seq(S) /\ Len(r) = Len(s) - 1 /\ DOMAIN r = 1..(Len(s) - 1)
      /\ \A j \in 1..(Len(s) - 1) : r[j] = IF j < i THEN s[j] ELSE s[j + 1]
  <2> DEFINE a == SubSeq(s, 1, i - 1)
             b == SubSeq(s, i + 1, Len(s))
  <2>1. a \in Seq(S) /\ Len(a) = i - 1 /\ \A j \in 1..(i - 1) : a[j] = s[j]
    <3>1. \A j \in 1..(i - 1) : s[j] \in S BY <1>0
    <3>2. 1 \in Int /\ i - 1 \in Int BY <1>0
    <3>3. /\ a \in Seq(S) /\ Len(a) = IF 1 <= i - 1 THEN i - 1 - 1 + 1 ELSE 0
          /\ \A j \in 1..(i - 1 - 1 + 1) : a[j] = s[1 + j - 1]
      BY <3>1, <3>2, SubSeqProperties
    <3> QED BY <1>0, <3>3
  <2>2. b \in Seq(S) /\ Len(b) = Len(s) - i /\ \A j \in 1..(Len(s) - i) : b[j] = s[i + j]
    <3>1. \A j \in (i + 1)..Len(s) : s[j] \in S BY <1>0
    <3>2. i + 1 \in Int /\ Len(s) \in Int BY <1>0
    <3>3. /\ b \in Seq(S)
          /\ Len(b) = IF i + 1 <= Len(s) THEN Len(s) - (i + 1) + 1 ELSE 0
          /\ \A j \in 1..(Len(s) - (i + 1) + 1) : b[j] = s[(i + 1) + j - 1]
      BY <3>1, <3>2, SubSeqProperties
    <3> HIDE DEF b
    <3>4. Len(s) - (i + 1) + 1 = Len(s) - i /\ (i + 1 <= Len(s) \/ Len(s) - i = 0)
      <4>1. Len(s) \in Int /\ i \in Int /\ i <= Len(s) BY <1>0
      <4> QED BY <4>1
    <3>5. Len(b) = Len(s) - i BY <3>3, <3>4
    <3>6. \A j \in 1..(Len(s) - i) : b[j] = s[(i + 1) + j - 1] BY <3>3, <3>4
    <3>7. \A j \in 1..(Len(s) - i) : (i + 1) + j - 1 = i + j BY <1>0
    <3>8. \A j \in 1..(Len(s) - i) : b[j] = s[i + j] BY <3>6, <3>7
    <3> QED BY <3>3, <3>5, <3>8
  <2>3. r = a \o b BY DEF Writers!RemoveAt
  <2> HIDE DEF a, b, r
  <2>4. /\ r \in Seq(S) /\ Len(r) = Len(a) + Len(b)
        /\ \A j \in 1..(Len(a) + Len(b)) : r[j] = IF j <= Len(a) THEN a[j] ELSE b[j - Len(a)]
    BY <2>1, <2>2, <2>3, ConcatProperties
  <2>5. /\ DOMAIN r = 1..Len(r)
        /\ \A j \in 1..Len(r) : r[j] = IF j <= Len(a) THEN a[j] ELSE b[j - Len(a)]
    BY <2>4
  <2>6. Len(r) = Len(s) - 1 BY <1>0, <2>1, <2>2, <2>4
  <2>7. ASSUME NEW j \in 1..(Len(s) - 1) PROVE r[j] = IF j < i THEN s[j] ELSE s[j + 1]
    <3>1. CASE j < i BY <1>0, <2>1, <2>5, <2>6, <3>1
    <3>2. CASE ~(j < i)
      <4>1. r[j] = b[j - (i - 1)] BY <1>0, <2>1, <2>5, <2>6, <3>2
      <4>2. j - (i - 1) \in 1..(Len(s) - i) BY <1>0, <3>2
      <4>3. i + (j - (i - 1)) = j + 1 OBVIOUS
      <4> QED BY <2>2, <3>2, <4>1, <4>2, <4>3
    <3> QED BY <3>1, <3>2
  <2> QED BY <2>4, <2>5, <2>6, <2>7
<1> HIDE DEF r
<1>2. ASSUME Writers!IsInjective(s)
      PROVE  Writers!Range(r) = Writers!Range(s) \ {s[i]} /\ Writers!IsInjective(r)
  <2>1. \A j, k \in 1..Len(s) : s[j] = s[k] => j = k BY <1>0, <1>2 DEF Writers!IsInjective
  <2>2. ASSUME NEW x \in Writers!Range(r) PROVE x \in Writers!Range(s) \ {s[i]}
    <3>1. PICK j \in 1..(Len(s) - 1) : x = r[j] BY <1>1 DEF Writers!Range
    <3>2. PICK k \in 1..Len(s) : k # i /\ x = s[k]
      <4>1. CASE j < i BY <1>0, <1>1, <3>1, <4>1
      <4>2. CASE ~(j < i)
        <5>1. j + 1 \in 1..Len(s) /\ j + 1 # i /\ x = s[j + 1] BY <1>0, <1>1, <3>1, <4>2
        <5> QED BY <5>1
      <4> QED BY <4>1, <4>2
    <3> QED BY <1>0, <2>1, <3>2 DEF Writers!Range
  <2>3. ASSUME NEW x \in Writers!Range(s) \ {s[i]} PROVE x \in Writers!Range(r)
    <3>1. PICK k \in 1..Len(s) : x = s[k] /\ k # i BY <1>0 DEF Writers!Range
    <3>2. PICK j \in 1..(Len(s) - 1) : x = r[j]
      <4>1. CASE k < i
        <5>1. k \in 1..(Len(s) - 1) /\ r[k] = s[k] BY <1>0, <1>1, <4>1
        <5> QED BY <3>1, <5>1
      <4>2. CASE ~(k < i)
        <5>1. k - 1 \in 1..(Len(s) - 1) /\ ~(k - 1 < i) /\ k - 1 + 1 = k BY <1>0, <3>1, <4>2
        <5>2. r[k - 1] = s[k] BY <1>1, <5>1
        <5> QED BY <3>1, <5>1, <5>2
      <4> QED BY <4>1, <4>2
    <3> QED BY <1>1, <3>2 DEF Writers!Range
  <2>4. ASSUME NEW j \in DOMAIN r, NEW k \in DOMAIN r, r[j] = r[k] PROVE j = k
    <3>1. j \in 1..(Len(s) - 1) /\ k \in 1..(Len(s) - 1) BY <1>1
    <3>2. j \in 1..Len(s) /\ j + 1 \in 1..Len(s) /\ k \in 1..Len(s) /\ k + 1 \in 1..Len(s)
      BY <1>0, <3>1
    <3>3. CASE j < i /\ k < i BY <1>1, <2>1, <2>4, <3>1, <3>2, <3>3
    <3>4. CASE ~(j < i) /\ ~(k < i)
      <4>1. j + 1 = k + 1 BY <1>1, <2>1, <2>4, <3>1, <3>2, <3>4
      <4> QED BY <3>1, <4>1
    <3>5. CASE j < i /\ ~(k < i)
      <4>1. j = k + 1 BY <1>1, <2>1, <2>4, <3>1, <3>2, <3>5
      <4> QED BY <3>1, <3>5, <4>1
    <3>6. CASE ~(j < i) /\ k < i
      <4>1. j + 1 = k BY <1>1, <2>1, <2>4, <3>1, <3>2, <3>6
      <4> QED BY <3>1, <3>6, <4>1
    <3> QED BY <3>3, <3>4, <3>5, <3>6
  <2> QED BY <2>2, <2>3, <2>4 DEF Writers!IsInjective
<1> QED BY <1>1, <1>2 DEF r

\* What std::remove_if keeps: nothing that matches, and when whatever matches is behind
\* all that does not, the front of the list.
LEMMA KeptIs ==
    ASSUME NEW S, changes \in Seq(S), NEW m
    PROVE  /\ Writers!Kept(m) \in Seq(S) /\ Len(Writers!Kept(m)) <= Len(changes)
           /\ (\A i, j \in DOMAIN changes : i < j /\ changes[i] \in m => changes[j] \in m) =>
                  /\ \A j \in 1..Len(Writers!Kept(m)) : Writers!Kept(m)[j] = changes[j]
                  /\ \A j \in 1..Len(changes) : j > Len(Writers!Kept(m)) => changes[j] \in m
<1>0. DOMAIN changes = 1..Len(changes) /\ Len(changes) \in Nat /\ \A i \in 1..Len(changes) : changes[i] \in S
  OBVIOUS
<1> DEFINE Next1(i, x) == IF changes[i] \in m THEN x ELSE Append(x, changes[i])
           IsTo(g, n) == g = [i \in 0..n |-> IF i = 0 THEN <<>> ELSE Next1(i, g[i - 1])]
           to == CHOOSE g : IsTo(g, Len(changes))
           Open == {n \in Nat : ~\E g : IsTo(g, n)}
<1>1. Open = {}
  <2> SUFFICES ASSUME Open # {} PROVE FALSE OBVIOUS
  <2> HIDE DEF IsTo
  <2>1. PICK n \in Open : \A k \in Open : n <= k
    <3>1. Open \in SUBSET Nat OBVIOUS
    <3> HIDE DEF Open
    <3> QED BY <3>1, LeastOf
  <2>2. n # 0
    <3> SUFFICES IsTo([i \in 0..0 |-> <<>>], 0) OBVIOUS
    <3> QED BY DEF IsTo
  <2>3. n \in Nat /\ n - 1 \in Nat /\ n - 1 \notin Open BY <2>1, <2>2
  <2>4. PICK g : IsTo(g, n - 1) BY <2>3
  <2> DEFINE h == [i \in 0..n |-> IF i = n THEN Next1(n, g[n - 1]) ELSE g[i]]
  <2>5. IsTo(h, n)
    <3>1. g = [i \in 0..(n - 1) |-> IF i = 0 THEN <<>> ELSE Next1(i, g[i - 1])]
      BY <2>4 DEF IsTo
    <3>2. ASSUME NEW i \in 0..n
          PROVE  h[i] = IF i = 0 THEN <<>> ELSE Next1(i, h[i - 1])
      <4> HIDE DEF Next1
      <4>1. CASE i = n
        <5>1. n - 1 \in 0..n /\ n - 1 # n /\ n \in 0..n BY <2>3
        <5>2. h[n - 1] = g[n - 1] BY <5>1
        <5> QED BY <2>2, <4>1, <5>1, <5>2
      <4>2. CASE i # n /\ i # 0
        <5>1. i \in 0..(n - 1) /\ i - 1 \in 0..n /\ i - 1 # n BY <2>3, <4>2
        <5>2. h[i] = g[i] /\ h[i - 1] = g[i - 1] BY <4>2, <5>1
        <5>3. g[i] = Next1(i, g[i - 1]) BY <3>1, <4>2, <5>1
        <5> QED BY <4>2, <5>2, <5>3
      <4>3. CASE i = 0
        <5>1. 0 \in 0..(n - 1) /\ 0 \in 0..n BY <2>3
        <5>2. h[0] = g[0] BY <2>2, <5>1
        <5>3. g[0] = <<>> BY <3>1, <5>1
        <5> QED BY <4>3, <5>2, <5>3
      <4> QED BY <4>1, <4>2, <4>3
    <3> HIDE DEF Next1
    <3>3. h = [i \in 0..n |-> h[i]] OBVIOUS
    <3> HIDE DEF h
    <3>4. h = [i \in 0..n |-> IF i = 0 THEN <<>> ELSE Next1(i, h[i - 1])]
      BY <3>2, <3>3
    <3> QED BY <3>4 DEF IsTo
  <2> HIDE DEF h
  <2> QED BY <2>1, <2>5
<1>2. IsTo(to, Len(changes))
  <2> HIDE DEF IsTo
  <2>1. \E g : IsTo(g, Len(changes)) BY <1>0, <1>1
  <2> QED BY <2>1
<1>3. Writers!Kept(m) = to[Len(changes)] BY DEF Writers!Kept
<1> HIDE DEF to
<1>4. to[0] = <<>> /\ \A i \in 1..Len(changes) : to[i] = Next1(i, to[i - 1])
  <2>1. 0 \in 0..Len(changes) /\ \A i \in 1..Len(changes) : i \in 0..Len(changes) /\ i # 0 BY <1>0
  <2> HIDE DEF Next1
  <2> QED BY <1>2, <2>1
<1> HIDE DEF Open, IsTo
<1> DEFINE Front(i) ==
             /\ to[i] \in Seq(S) /\ Len(to[i]) <= i
             /\ (\A j, k \in DOMAIN changes : j < k /\ changes[j] \in m => changes[k] \in m) =>
                    /\ \A j \in 1..Len(to[i]) : to[i][j] = changes[j]
                    /\ \A j \in 1..i : j > Len(to[i]) => changes[j] \in m
           Bad == {i \in 0..Len(changes) : ~Front(i)}
<1>5. Bad = {}
  <2> SUFFICES ASSUME Bad # {} PROVE FALSE OBVIOUS
  <2> HIDE DEF Front
  <2>1. PICK n \in Bad : \A k \in Bad : n <= k
    <3>1. Bad \in SUBSET Nat BY <1>0
    <3> HIDE DEF Bad
    <3> QED BY <3>1, LeastOf
  <2>2. Front(0) BY <1>4 DEF Front
  <2>3. n \in 1..Len(changes) /\ n - 1 \in 0..Len(changes) /\ Front(n - 1)
    <3>1. n # 0 BY <2>1, <2>2
    <3>2. n \in 1..Len(changes) /\ n - 1 \in 0..Len(changes) /\ n - 1 < n BY <1>0, <2>1, <3>1
    <3>3. n - 1 \notin Bad BY <1>0, <2>1, <3>2
    <3> QED BY <3>2, <3>3
  <2> DEFINE x == to[n - 1]
  <2>4. to[n] = Next1(n, x) BY <1>4, <2>3
  <2>5. /\ x \in Seq(S) /\ Len(x) <= n - 1 /\ Len(x) \in Nat
        /\ (\A j, k \in DOMAIN changes : j < k /\ changes[j] \in m => changes[k] \in m) =>
               /\ \A j \in 1..Len(x) : x[j] = changes[j]
               /\ \A j \in 1..(n - 1) : j > Len(x) => changes[j] \in m
    BY <2>3 DEF Front
  <2> HIDE DEF x
  <2>6. CASE changes[n] \in m
    <3>1. to[n] = x BY <2>4, <2>6
    <3>2. Len(x) <= n BY <2>3, <2>5
    <3>3. (\A j \in 1..(n - 1) : j > Len(x) => changes[j] \in m) =>
              \A j \in 1..n : j > Len(x) => changes[j] \in m
      <4>1. \A j \in 1..n : j \in 1..(n - 1) \/ j = n BY <2>3
      <4> QED BY <2>6, <4>1
    <3>4. Front(n) BY <2>5, <3>1, <3>2, <3>3 DEF Front
    <3> QED BY <2>1, <3>4
  <2>7. CASE changes[n] \notin m
    <3>1. to[n] = Append(x, changes[n]) BY <2>4, <2>7
    <3>2. changes[n] \in S BY <1>0, <2>3
    <3>3. /\ to[n] \in Seq(S) /\ Len(to[n]) = Len(x) + 1 /\ to[n][Len(x) + 1] = changes[n]
          /\ \A j \in 1..Len(x) : to[n][j] = x[j]
      BY <2>5, <3>1, <3>2
    <3>4. ASSUME \A j, k \in DOMAIN changes : j < k /\ changes[j] \in m => changes[k] \in m
          PROVE  /\ \A j \in 1..Len(to[n]) : to[n][j] = changes[j]
                 /\ \A j \in 1..n : j > Len(to[n]) => changes[j] \in m
      <4>1. Len(x) = n - 1
        <5> SUFFICES ASSUME Len(x) < n - 1 PROVE FALSE BY <2>3, <2>5
        <5>1. n - 1 \in 1..(n - 1) /\ n - 1 \in 1..Len(changes) /\ n - 1 < n
          BY <1>0, <2>3, <2>5
        <5>2. changes[n - 1] \in m BY <2>5, <3>4, <5>1
        <5> QED BY <1>0, <2>3, <2>7, <3>4, <5>1, <5>2
      <4>2. Len(to[n]) = n BY <2>3, <3>3, <4>1
      <4>3. \A j \in 1..n : j \in 1..Len(x) \/ j = Len(x) + 1 BY <2>3, <4>1
      <4>4. \A j \in 1..n : to[n][j] = changes[j]
        <5> TAKE j \in 1..n
        <5>1. CASE j \in 1..Len(x) BY <2>5, <3>3, <3>4, <5>1
        <5>2. CASE j = Len(x) + 1
          <6>1. j = n BY <2>3, <4>1, <5>2
          <6> QED BY <3>3, <5>2, <6>1
        <5> QED BY <4>3, <5>1, <5>2
      <4>5. \A j \in 1..n : ~(j > n) BY <2>3
      <4> QED BY <4>2, <4>4, <4>5
    <3>5. Len(to[n]) <= n BY <2>3, <2>5, <3>3
    <3>6. Front(n) BY <3>3, <3>4, <3>5 DEF Front
    <3> QED BY <2>1, <3>6
  <2> QED BY <2>6, <2>7
<1>6. Front(Len(changes))
  <2> HIDE DEF Front
  <2>1. Len(changes) \in 0..Len(changes) BY <1>0
  <2> QED BY <1>5, <2>1
<1> QED BY <1>3, <1>6

-----------------------------------------------------------------------------
Guarding == guarded \in [Thread -> BOOLEAN] /\ \A t \in Thread : guarded[t] => mutex = t

HistoryTyped ==
    /\ changes \in Seq(Change) /\ Len(changes) <= MaxChanges
    /\ full \in BOOLEAN /\ mutex \in Thread \cup {NULL}
    /\ iter \in [Thread -> 0..(MaxChanges + 1)]
    /\ wanted \in [Thread -> Change \cup {NULL}]
    /\ known \subseteq Change

\* The invariant.  Only the type of guarded is added to what is promised: that at most
\* the thread that holds the mutex has a guarded iterator is in it already.
HistoryInv ==
    /\ HistoryTyped /\ Guarding
    /\ Writers!IteratorHolds /\ Writers!FullIsFull /\ Writers!Accounted

\* Who may use the history leaves no iterator behind that is guarded: its own it lets
\* go, and no other thread's can be while it holds the mutex or none does.
LEMMA NobodyGuards ==
    ASSUME HistoryInv, NEW t \in Thread, Writers!May(t), Writers!LetGo(t)
    PROVE  guarded' \in [Thread -> BOOLEAN] /\ \A u \in Thread : ~guarded'[u]
<1>1. guarded \in [Thread -> BOOLEAN] /\ \A u \in Thread : guarded[u] => mutex = u
  BY DEF HistoryInv, Guarding
<1>2. guarded' = [guarded EXCEPT ![t] = FALSE] BY DEF Writers!LetGo
<1>3. mutex \in {t, NULL} BY DEF Writers!May
<1>4. ASSUME NEW u \in Thread, guarded'[u] PROVE FALSE
  <2>1. u # t /\ guarded[u] BY <1>1, <1>2, <1>4, Zenon
  <2>2. mutex = u /\ u # NULL BY <1>1, <2>1, HistoryAssumption
  <2> QED BY <1>3, <2>1, <2>2
<1> QED BY <1>1, <1>2, <1>4, Zenon

\* So such a call has only the list to answer for.
LEMMA CallKeeps ==
    ASSUME HistoryInv, NEW t \in Thread, Writers!May(t), Writers!LetGo(t),
           HistoryTyped', Writers!FullIsFull', Writers!Accounted'
    PROVE  HistoryInv'
<1>1. guarded' \in [Thread -> BOOLEAN] /\ \A u \in Thread : ~guarded'[u] BY NobodyGuards
<1>2. Guarding' BY <1>1, Zenon DEF Guarding
<1>3. Writers!IteratorHolds' BY <1>1 DEF Writers!IteratorHolds
<1> QED BY <1>2, <1>3 DEF HistoryInv

\* The history begins empty.
LEMMA HistoryAtFirst == Writers!Init => HistoryInv
<1> SUFFICES ASSUME Writers!Init PROVE HistoryInv OBVIOUS
<1>1. changes = <<>> /\ known = {} /\ full = FALSE /\ mutex = NULL BY DEF Writers!Init
<1>2. HistoryTyped
  <2>1. changes \in Seq(Change) /\ Len(changes) = 0 BY <1>1
  <2>2. 0 <= MaxChanges /\ 0 \in 0..(MaxChanges + 1) BY HistoryAssumption
  <2>3. iter \in [Thread -> 0..(MaxChanges + 1)] BY <2>2 DEF Writers!Init
  <2>4. wanted \in [Thread -> Change \cup {NULL}] BY DEF Writers!Init
  <2> QED BY <1>1, <2>1, <2>2, <2>3, <2>4 DEF HistoryTyped
<1>3. Guarding
  <2>1. guarded = [t \in Thread |-> FALSE] BY DEF Writers!Init
  <2> QED BY <2>1 DEF Guarding
<1>4. Writers!IteratorHolds BY DEF Writers!Init, Writers!IteratorHolds
<1>5. Writers!FullIsFull BY <1>1 DEF Writers!FullIsFull
<1>6. Writers!Accounted
  <2>1. DOMAIN changes = {} BY <1>1
  <2> QED BY <1>1, <2>1 DEF Writers!Accounted, Writers!Range, Writers!IsInjective
<1> QED BY <1>2, <1>3, <1>4, <1>5, <1>6 DEF HistoryInv

\* A change is added.
LEMMA AddStays ==
    ASSUME HistoryInv, NEW t \in Thread, NEW c \in Change, Writers!Add(t, c)
    PROVE  HistoryInv'
<1>1. HistoryTyped BY DEF HistoryInv
<1>2. /\ c \notin known /\ c \notin Writers!Range(changes) /\ Len(changes) < MaxChanges
      /\ changes' = Append(changes, c) /\ full' = (Len(changes') = MaxChanges)
      /\ known' = known \cup {c} /\ UNCHANGED <<mutex, iter, wanted, scrambled>>
  BY DEF Writers!Add
<1>3. /\ changes' \in Seq(Change) /\ Len(changes') = Len(changes) + 1
      /\ Writers!Range(changes') = Writers!Range(changes) \cup {c}
      /\ Writers!IsInjective(changes) => Writers!IsInjective(changes')
  BY <1>1, <1>2, Appended DEF HistoryTyped
<1>4. HistoryTyped'
  <2>1. Len(changes') <= MaxChanges
    <3>1. Len(changes) \in Nat BY <1>1 DEF HistoryTyped
    <3> QED BY <1>2, <1>3, <3>1, HistoryAssumption
  <2>2. full' \in BOOLEAN BY <1>2
  <2> QED BY <1>1, <1>2, <1>3, <2>1, <2>2 DEF HistoryTyped
<1>5. Writers!FullIsFull' BY <1>2 DEF Writers!FullIsFull
<1>6. Writers!Accounted' BY <1>2, <1>3 DEF HistoryInv, Writers!Accounted
<1> QED BY <1>4, <1>5, <1>6, CallKeeps DEF Writers!Add

\* An iterator's change is taken out.
LEMMA RemoveStays ==
    ASSUME HistoryInv, NEW t \in Thread, Writers!RemoveChange(t)
    PROVE  HistoryInv'
<1>1. HistoryTyped /\ Writers!Accounted /\ Writers!FullIsFull BY DEF HistoryInv
<1>2. /\ iter[t] > 0 /\ iter' = [iter EXCEPT ![t] = 0]
      /\ UNCHANGED <<mutex, wanted, scrambled>>
      /\ Writers!May(t) /\ Writers!LetGo(t)
  BY DEF Writers!RemoveChange
<1>3. iter' \in [Thread -> 0..(MaxChanges + 1)]
  <2>1. 0 \in 0..(MaxChanges + 1) BY HistoryAssumption
  <2> QED BY <1>1, <1>2, <2>1 DEF HistoryTyped
<1>4. CASE iter[t] <= Len(changes)
  <2>1. /\ changes' = Writers!RemoveAt(changes, iter[t]) /\ full' = FALSE
        /\ known' = known \ {changes[iter[t]]}
    BY <1>4 DEF Writers!RemoveChange, Writers!RemoveNts
  <2>2. iter[t] \in 1..Len(changes) /\ Len(changes) \in Nat /\ Len(changes) <= MaxChanges
    BY <1>1, <1>2, <1>4, HistoryAssumption DEF HistoryTyped
  <2>3. /\ changes' \in Seq(Change) /\ Len(changes') = Len(changes) - 1
        /\ Writers!IsInjective(changes) =>
               /\ Writers!Range(changes') = Writers!Range(changes) \ {changes[iter[t]]}
               /\ Writers!IsInjective(changes')
    BY <1>1, <2>1, <2>2, TakenOut DEF HistoryTyped
  <2>4. HistoryTyped'
    <3>1. Len(changes') <= MaxChanges BY <2>2, <2>3, HistoryAssumption
    <3>2. full' \in BOOLEAN /\ known' \subseteq Change BY <1>1, <2>1 DEF HistoryTyped
    <3> QED BY <1>1, <1>2, <1>3, <2>3, <3>1, <3>2 DEF HistoryTyped
  <2>5. Writers!FullIsFull' BY <2>1 DEF Writers!FullIsFull
  <2>6. Writers!Accounted' BY <1>1, <1>2, <2>1, <2>3 DEF Writers!Accounted
  <2> QED BY <1>2, <2>4, <2>5, <2>6, CallKeeps
<1>5. CASE ~(iter[t] <= Len(changes))
  <2>1. UNCHANGED <<changes, full, known>> BY <1>5 DEF Writers!RemoveChange
  <2>2. HistoryTyped' BY <1>1, <1>2, <1>3, <2>1 DEF HistoryTyped
  <2>3. Writers!FullIsFull' BY <1>1, <2>1 DEF Writers!FullIsFull
  <2>4. Writers!Accounted' BY <1>1, <1>2, <2>1 DEF Writers!Accounted
  <2> QED BY <1>2, <2>2, <2>3, <2>4, CallKeeps
<1> QED BY <1>4, <1>5

\* What matches a predicate is removed; what is released is what was behind the changes
\* kept, which are the same when all that matches was.
LEMMA RemoveWithPredStays ==
    ASSUME HistoryInv, NEW t \in Thread, NEW m, Writers!RemoveChangesWithPred(t, m)
    PROVE  HistoryInv'
<1>1. HistoryTyped /\ Writers!Accounted /\ Writers!FullIsFull BY DEF HistoryInv
<1> DEFINE suffix == \A i, j \in DOMAIN changes : i < j /\ changes[i] \in m => changes[j] \in m
           kept == Writers!Kept(m)
<1>2. /\ changes' = kept /\ known' = known \ Writers!Released(kept, m)
      /\ full' = (full /\ kept = changes) /\ scrambled' = (scrambled \/ ~suffix)
      /\ UNCHANGED <<mutex, iter, wanted>>
      /\ Writers!May(t) /\ Writers!LetGo(t)
  BY DEF Writers!RemoveChangesWithPred
<1>3. /\ kept \in Seq(Change) /\ Len(kept) <= Len(changes)
      /\ suffix => /\ \A j \in 1..Len(kept) : kept[j] = changes[j]
                   /\ \A j \in 1..Len(changes) : j > Len(kept) => changes[j] \in m
  BY <1>1, KeptIs DEF HistoryTyped
<1> HIDE DEF kept
<1>4. HistoryTyped'
  <2>1. Len(changes') <= MaxChanges
    <3>1. Len(changes) \in Nat /\ Len(kept) \in Nat /\ Len(changes) <= MaxChanges
      BY <1>1, <1>3 DEF HistoryTyped
    <3> QED BY <1>2, <1>3, <3>1, HistoryAssumption
  <2>2. full' \in BOOLEAN BY <1>2
  <2>3. known' \subseteq Change BY <1>1, <1>2 DEF HistoryTyped
  <2> QED BY <1>1, <1>2, <1>3, <2>1, <2>2, <2>3 DEF HistoryTyped
<1>5. Writers!FullIsFull'
  <2>1. full' => full /\ kept = changes BY <1>2
  <2> QED BY <1>1, <1>2, <2>1 DEF Writers!FullIsFull
<1>6. Writers!Accounted'
  <2> SUFFICES ASSUME ~scrambled'
               PROVE  Writers!Range(changes') = known' /\ Writers!IsInjective(changes')
    BY DEF Writers!Accounted
  <2>1. ~scrambled /\ suffix BY <1>2
  <2>2. /\ \A j \in 1..Len(kept) : kept[j] = changes[j]
        /\ \A j \in 1..Len(changes) : j > Len(kept) => changes[j] \in m
    BY <1>3, <2>1
  <2>3. Writers!Range(changes) = known /\ Writers!IsInjective(changes)
    BY <1>1, <2>1 DEF Writers!Accounted
  <2> HIDE DEF suffix
  <2>4. /\ DOMAIN changes = 1..Len(changes) /\ DOMAIN kept = 1..Len(kept)
        /\ Len(changes) \in Nat /\ Len(kept) \in Nat
        /\ \A j \in 1..Len(kept) : j \in 1..Len(changes)
    BY <1>1, <1>3 DEF HistoryTyped
  <2>5. Writers!IsInjective(kept)
    BY <2>2, <2>3, <2>4 DEF Writers!IsInjective
  <2>6. Writers!Released(kept, m) = {changes[i] : i \in (Len(kept) + 1)..Len(changes)}
    BY DEF Writers!Released
  <2>7. ASSUME NEW x \in Writers!Range(kept) PROVE x \in known'
    <3>1. PICK j \in 1..Len(kept) : x = changes[j] BY <2>2, <2>4 DEF Writers!Range
    <3>2. x \in known BY <2>3, <2>4, <3>1 DEF Writers!Range
    <3>3. ASSUME x \in Writers!Released(kept, m) PROVE FALSE
      <4>1. PICK i \in (Len(kept) + 1)..Len(changes) : x = changes[i] BY <2>6, <3>3
      <4>2. i \in 1..Len(changes) /\ i # j BY <2>4, <4>1
      <4> QED BY <2>3, <2>4, <3>1, <4>1, <4>2 DEF Writers!IsInjective
    <3> QED BY <1>2, <3>2, <3>3
  <2>8. ASSUME NEW x \in known' PROVE x \in Writers!Range(kept)
    <3>1. x \in known /\ x \notin Writers!Released(kept, m) BY <1>2
    <3>2. PICK i \in 1..Len(changes) : x = changes[i] BY <2>3, <2>4, <3>1 DEF Writers!Range
    <3>3. i \notin (Len(kept) + 1)..Len(changes) BY <2>6, <3>1, <3>2
    <3>4. i \in 1..Len(kept) BY <2>4, <3>3
    <3> QED BY <2>2, <2>4, <3>2, <3>4 DEF Writers!Range
  <2> QED BY <1>2, <2>5, <2>7, <2>8
<1> QED BY <1>2, <1>4, <1>5, <1>6, CallKeeps

\* A change is looked for: the position found is guarded when the thread has the mutex.
LEMMA FindStays ==
    ASSUME HistoryInv, NEW t \in Thread, NEW c \in Change, Writers!FindChange(t, c)
    PROVE  HistoryInv'
<1>1. HistoryTyped /\ Guarding /\ Writers!Accounted /\ Writers!FullIsFull /\ Writers!IteratorHolds
  BY DEF HistoryInv
<1> DEFINE is == {i \in DOMAIN changes : Writers!Sn(changes[i]) = Writers!Sn(c)}
           at == IF is = {} THEN Len(changes) + 1 ELSE Writers!Min(is)
           what == IF is = {} THEN NULL ELSE changes[Writers!Min(is)]
<1>2. /\ iter' = [iter EXCEPT ![t] = at] /\ wanted' = [wanted EXCEPT ![t] = what]
      /\ guarded' = [guarded EXCEPT ![t] = (mutex = t)]
      /\ UNCHANGED <<changes, full, mutex, known, scrambled>>
  BY DEF Writers!FindChange
<1>3. /\ Len(changes) \in Nat /\ DOMAIN changes = 1..Len(changes) /\ Len(changes) <= MaxChanges
      /\ \A i \in 1..Len(changes) : changes[i] \in Change
  BY <1>1 DEF HistoryTyped
<1>4. is # {} => Writers!Min(is) \in 1..Len(changes)
  <2> SUFFICES ASSUME is # {} PROVE Writers!Min(is) \in 1..Len(changes) OBVIOUS
  <2>1. is \in SUBSET Nat BY <1>3
  <2>2. is \subseteq 1..Len(changes) BY <1>3
  <2> HIDE DEF is
  <2>3. Writers!Min(is) \in is BY <2>1, LeastIs
  <2> QED BY <2>2, <2>3
<1> HIDE DEF is
<1>5. at \in 0..(MaxChanges + 1) /\ what \in Change \cup {NULL}
      /\ (what # NULL => at <= Len(changes) /\ changes[at] = what)
  BY <1>3, <1>4, HistoryAssumption
<1> HIDE DEF at, what
<1>6. HistoryTyped' BY <1>1, <1>2, <1>5 DEF HistoryTyped
<1>7. Guarding'
  <2>1. guarded' \in [Thread -> BOOLEAN] BY <1>1, <1>2 DEF Guarding
  <2>2. \A u \in Thread : guarded'[u] => mutex = u
    <3> TAKE u \in Thread
    <3>1. CASE u = t BY <1>1, <1>2, <3>1, Zenon DEF Guarding
    <3>2. CASE u # t BY <1>1, <1>2, <3>2, Zenon DEF Guarding
    <3> QED BY <3>1, <3>2
  <2> QED BY <1>2, <2>1, <2>2 DEF Guarding
<1>8. Writers!IteratorHolds'
  <2> SUFFICES ASSUME NEW u \in Thread, guarded'[u], wanted'[u] # NULL, iter'[u] > 0
               PROVE  iter'[u] <= Len(changes) /\ changes[iter'[u]] = wanted'[u]
    BY <1>2 DEF Writers!IteratorHolds
  <2>1. CASE u = t
    <3>1. iter'[u] = at /\ wanted'[u] = what BY <1>1, <1>2, <2>1 DEF HistoryTyped
    <3> QED BY <1>5, <3>1
  <2>2. CASE u # t
    <3>1. iter'[u] = iter[u] /\ wanted'[u] = wanted[u] BY <1>1, <1>2, <2>2 DEF HistoryTyped
    <3>2. guarded[u] BY <1>1, <1>2, <2>2, Zenon DEF Guarding
    <3> QED BY <1>1, <3>1, <3>2 DEF Writers!IteratorHolds
  <2> QED BY <2>1, <2>2
<1>9. Writers!Accounted' /\ Writers!FullIsFull'
  BY <1>1, <1>2 DEF Writers!Accounted, Writers!FullIsFull
<1> QED BY <1>6, <1>7, <1>8, <1>9 DEF HistoryInv

\* The mutex is taken, and given back.
LEMMA LockStays ==
    ASSUME HistoryInv, NEW t \in Thread, Writers!Lock(t) \/ Writers!Unlock(t)
    PROVE  HistoryInv'
<1>1. HistoryTyped /\ Guarding /\ Writers!Accounted /\ Writers!FullIsFull /\ Writers!IteratorHolds
  BY DEF HistoryInv
<1>2. UNCHANGED <<changes, full, iter, wanted, known, scrambled>> /\ mutex' \in Thread \cup {NULL}
  BY DEF Writers!Lock, Writers!Unlock, Writers!finds
<1>3. HistoryTyped' BY <1>1, <1>2 DEF HistoryTyped
<1>4. Writers!Accounted' /\ Writers!FullIsFull'
  BY <1>1, <1>2 DEF Writers!Accounted, Writers!FullIsFull
<1>5. CASE Writers!Lock(t)
  <2>1. mutex = NULL /\ guarded' = guarded BY <1>5 DEF Writers!Lock, Writers!finds
  <2>2. \A u \in Thread : ~guarded[u] BY <1>1, <2>1, HistoryAssumption DEF Guarding
  <2>3. Guarding' BY <1>1, <2>1, <2>2, Zenon DEF Guarding
  <2>4. Writers!IteratorHolds' BY <2>1, <2>2 DEF Writers!IteratorHolds
  <2> QED BY <1>3, <1>4, <2>3, <2>4 DEF HistoryInv
<1>6. CASE Writers!Unlock(t)
  <2>1. Writers!May(t) /\ Writers!LetGo(t) BY <1>6 DEF Writers!Unlock, Writers!May
  <2> QED BY <1>3, <1>4, <2>1, CallKeeps
<1> QED BY <1>5, <1>6

\* The steps that leave all of it alone, whether the process ends or not.
LEMMA HistoryUnmoved ==
    ASSUME HistoryInv,
           UNCHANGED <<changes, full, mutex, iter, wanted, guarded, known, scrambled>>
    PROVE  HistoryInv'
<1>1. HistoryTyped' BY DEF HistoryInv, HistoryTyped
<1>2. Guarding' BY Zenon DEF HistoryInv, Guarding
<1>3. Writers!IteratorHolds' BY DEF HistoryInv, Writers!IteratorHolds
<1>4. Writers!Accounted' /\ Writers!FullIsFull'
  BY DEF HistoryInv, Writers!Accounted, Writers!FullIsFull
<1> QED BY <1>1, <1>2, <1>3, <1>4 DEF HistoryInv

LEMMA HistoryStays == HistoryInv /\ [Writers!Next]_list => HistoryInv'
<1> SUFFICES ASSUME HistoryInv, [Writers!Next]_list PROVE HistoryInv' OBVIOUS
<1>1. CASE Writers!Next
  <2>1. PICK t \in Thread :
            \/ Writers!Lock(t) \/ Writers!Unlock(t) \/ Writers!RemoveChange(t)
            \/ Writers!RemoveAllChanges(t)
            \/ \E c \in Change :
                   Writers!Add(t, c) \/ Writers!FindChange(t, c) \/ Writers!RemoveChangePointer(t, c)
            \/ \E m \in SUBSET Writers!Range(changes) : Writers!RemoveChangesWithPred(t, m)
    BY <1>1 DEF Writers!Next
  <2>2. CASE Writers!Lock(t) \/ Writers!Unlock(t) BY <2>2, LockStays
  <2>3. CASE Writers!RemoveChange(t) BY <2>3, RemoveStays
  <2>4. CASE Writers!RemoveAllChanges(t)
    BY <2>4, HistoryUnmoved DEF Writers!RemoveAllChanges, Writers!finds
  <2>5. ASSUME NEW c \in Change, Writers!Add(t, c) PROVE HistoryInv' BY <2>5, AddStays
  <2>6. ASSUME NEW c \in Change, Writers!FindChange(t, c) PROVE HistoryInv' BY <2>6, FindStays
  <2>7. ASSUME NEW c \in Change, Writers!RemoveChangePointer(t, c) PROVE HistoryInv'
    BY <2>7, HistoryUnmoved DEF Writers!RemoveChangePointer, Writers!vars
  <2>8. ASSUME NEW m, Writers!RemoveChangesWithPred(t, m) PROVE HistoryInv'
    BY <2>8, RemoveWithPredStays
  <2> QED BY <2>1, <2>2, <2>3, <2>4, <2>5, <2>6, <2>7, <2>8
<1>2. CASE UNCHANGED list BY <1>2, HistoryUnmoved DEF list
<1> QED BY <1>1, <1>2

\* In order, the search of getChange stops at the change it is for.
LEMMA LookupFinds == HistoryInv => Writers!LookupComplete
<1> SUFFICES ASSUME HistoryInv, Writers!InOrder, NEW c \in Change
             PROVE  Writers!Lookup(Writers!Sn(c), Writers!Writer(c)) =
                        IF c \in Writers!Range(changes) THEN c ELSE NULL
  BY DEF Writers!LookupComplete
<1>1. /\ Len(changes) \in Nat /\ DOMAIN changes = 1..Len(changes)
      /\ \A i \in 1..Len(changes) : changes[i] \in Change
  BY DEF HistoryInv, HistoryTyped
<1>2. \A d \in Change : d = <<Writers!Writer(d), Writers!Sn(d)>> /\ Writers!Sn(d) \in Nat
  BY HistoryAssumption DEF Writers!Writer, Writers!Sn
<1> DEFINE stops == {i \in DOMAIN changes :
                        Writers!Writer(changes[i]) = Writers!Writer(c)
                        /\ Writers!Sn(changes[i]) >= Writers!Sn(c)}
           at == Writers!Min(stops)
<1>3. Writers!Lookup(Writers!Sn(c), Writers!Writer(c)) =
          IF stops = {} \/ Writers!Sn(changes[at]) # Writers!Sn(c) THEN NULL ELSE changes[at]
  BY DEF Writers!Lookup
<1>4. \A i \in stops : /\ i \in 1..Len(changes) /\ changes[i] \in Change
                       /\ Writers!Writer(changes[i]) = Writers!Writer(c)
                       /\ Writers!Sn(changes[i]) >= Writers!Sn(c)
  BY <1>1
<1>5. stops # {} => at \in stops /\ \A i \in stops : at <= i
  <2>1. stops \in SUBSET Nat BY <1>1
  <2> HIDE DEF stops
  <2> QED BY <2>1, LeastIs
<1>6. \A i \in 1..Len(changes) : changes[i] = c => i \in stops
  BY <1>1, <1>2
<1> HIDE DEF stops, at
<1>7. CASE c \in Writers!Range(changes)
  <2>1. PICK i \in 1..Len(changes) : changes[i] = c BY <1>1, <1>7 DEF Writers!Range
  <2>2. i \in stops /\ at \in stops /\ at <= i BY <1>5, <1>6, <2>1
  <2>3. at = i
    <3> SUFFICES ASSUME at < i PROVE FALSE BY <1>4, <2>2
    <3>1. Writers!Sn(changes[at]) < Writers!Sn(c)
      BY <1>1, <1>4, <2>1, <2>2 DEF Writers!InOrder
    <3>2. Writers!Sn(changes[at]) >= Writers!Sn(c) /\ Writers!Sn(changes[at]) \in Nat /\ Writers!Sn(c) \in Nat
      BY <1>2, <1>4, <2>2
    <3> QED BY <3>1, <3>2
  <2>4. changes[at] = c /\ stops # {} BY <2>1, <2>2, <2>3
  <2> QED BY <1>3, <1>7, <2>4
<1>8. CASE c \notin Writers!Range(changes)
  <2>1. CASE stops = {} BY <1>3, <1>8, <2>1
  <2>2. CASE stops # {}
    <3>1. at \in 1..Len(changes) /\ changes[at] \in Change
          /\ Writers!Writer(changes[at]) = Writers!Writer(c)
      BY <1>4, <1>5, <2>2
    <3>2. changes[at] # c BY <1>1, <1>8, <3>1 DEF Writers!Range
    <3>3. Writers!Sn(changes[at]) # Writers!Sn(c)
      BY <1>2, <3>1, <3>2
    <3> QED BY <1>3, <1>8, <3>3
  <2> QED BY <2>1, <2>2
<1> QED BY <1>7, <1>8

\* Any threads, any changes and any capacity: what was handed to the history is in its
\* list until it is released, a lookup finds it there, and an iterator got and used under
\* the mutex removes what it was got for.
THEOREM HistoryAccounts == PartsSpec => []ChangesAccounted
<1>1. PartsInit => HistoryInv BY HistoryAtFirst DEF PartsInit
<1>2. HistoryInv /\ [PartsNext]_parts => HistoryInv'
  <2>1. [PartsNext]_parts => [Writers!Next]_list BY DEF PartsNext, parts
  <2> QED BY <2>1, HistoryStays
<1>3. HistoryInv => ChangesAccounted
  <2> SUFFICES ASSUME HistoryInv PROVE ChangesAccounted OBVIOUS
  <2>1. Writers!TypeOK BY DEF HistoryInv, HistoryTyped, Guarding, Writers!TypeOK
  <2>2. Writers!LookupComplete BY LookupFinds
  <2> QED BY <2>1, <2>2 DEF HistoryInv, ChangesAccounted
<1> QED BY <1>1, <1>2, <1>3, PTL DEF PartsSpec

-----------------------------------------------------------------------------
(***************************************************************************)
(* Sets of numbers as bits, for any number and any width of the words.     *)
(***************************************************************************)

\* The places of the bits that are set in some words.
Words == [NumberSet!Word -> SUBSET NumberSet!Offset]
Place == 0..(NumberSet!NBITS - 1)
BitsOf(ws) == {p \in Place : NumberSet!At(ws, p)}

LEMMA WordRules ==
    /\ B \in Nat \ {0} /\ NITEMS \in Nat \ {0} /\ M \in Nat \ {0}
    /\ NumberSet!NBITS \in Nat \ {0} /\ NumberSet!NBITS < M
<1>1. B \in Nat \ {0} /\ NITEMS \in Nat \ {0} /\ M \in Nat /\ M > B * NITEMS BY BitmapAssumption
<1>2. B * NITEMS \in Nat /\ B * NITEMS # 0 BY <1>1
<1> QED BY <1>1, <1>2 DEF NumberSet!NBITS

\* A place is a word and an offset in it ...
LEMMA PlaceOf ==
    ASSUME NEW i \in NumberSet!Word, NEW o \in NumberSet!Offset
    PROVE  i * B + o \in Place /\ (i * B + o) \div B = i /\ (i * B + o) % B = o
<1>1. B \in Nat \ {0} /\ NITEMS \in Nat /\ i \in 0..(NITEMS - 1) /\ o \in 0..(B - 1)
  BY WordRules DEF NumberSet!Word, NumberSet!Offset
<1>2. (i + 1) * B <= NITEMS * B BY <1>1, ProductGrows
<1>3. (i + 1) * B = i * B + B /\ i * B \in Nat /\ NITEMS * B = B * NITEMS /\ B * NITEMS \in Nat
  BY <1>1
<1>4. i * B + o \in Place BY <1>1, <1>2, <1>3 DEF Place, NumberSet!NBITS
<1>5. (i * B + o) \div B = i /\ (i * B + o) % B = o BY <1>1
<1> QED BY <1>4, <1>5

\* ... of which there are one each.
LEMMA WordOf ==
    ASSUME NEW p \in Place
    PROVE  /\ p \div B \in NumberSet!Word /\ p % B \in NumberSet!Offset
           /\ p = (p \div B) * B + (p % B)
<1>1. B \in Nat \ {0} /\ NITEMS \in Nat \ {0} /\ p \in Nat /\ p < B * NITEMS
  BY WordRules DEF Place, NumberSet!NBITS
<1>2. PICK q \in Int, r \in 0..(B - 1) : p = q * B + r /\ q = p \div B /\ r = p % B BY <1>1
<1>3. q >= 0
  <2> SUFFICES ASSUME q <= -1 PROVE FALSE BY <1>2
  <2>1. q * B <= -1 * B BY <1>1, ProductGrows
  <2> QED BY <1>1, <1>2, <2>1
<1>4. q < NITEMS
  <2> SUFFICES ASSUME NITEMS <= q PROVE FALSE BY <1>1, <1>2
  <2>1. NITEMS * B <= q * B BY <1>1, ProductGrows
  <2>2. NITEMS * B = B * NITEMS /\ B * NITEMS \in Nat /\ q * B \in Int BY <1>1
  <2> QED BY <1>1, <1>2, <2>1, <2>2
<1> QED BY <1>1, <1>2, <1>3, <1>4 DEF NumberSet!Word, NumberSet!Offset

LEMMA BitIs ==
    ASSUME NEW ws, NEW i \in NumberSet!Word, NEW o \in NumberSet!Offset
    PROVE  o \in ws[i] <=> i * B + o \in BitsOf(ws)
BY PlaceOf DEF BitsOf, NumberSet!At

\* Words with the same bits are the same.
LEMMA SameBits ==
    ASSUME NEW ws \in Words, NEW vs \in Words, BitsOf(ws) = BitsOf(vs)
    PROVE  ws = vs
<1>1. ASSUME NEW i \in NumberSet!Word PROVE ws[i] = vs[i]
  <2>1. ws[i] \subseteq NumberSet!Offset /\ vs[i] \subseteq NumberSet!Offset BY DEF Words
  <2>2. \A o \in NumberSet!Offset : o \in ws[i] <=> o \in vs[i] BY BitIs
  <2> QED BY <2>1, <2>2
<1> QED BY <1>1 DEF Words

\* The bits of words that are given offset by offset.
LEMMA BitsAre ==
    ASSUME NEW ws, NEW S \in SUBSET Place,
           \A i \in NumberSet!Word, o \in NumberSet!Offset : o \in ws[i] <=> i * B + o \in S
    PROVE  BitsOf(ws) = S
<1>1. ASSUME NEW p \in Place PROVE p \in BitsOf(ws) <=> p \in S
  <2>1. PICK i \in NumberSet!Word, o \in NumberSet!Offset : p = i * B + o BY WordOf
  <2> QED BY <2>1, BitIs
<1> QED BY <1>1 DEF BitsOf

\* n is one more than the greatest of S, or 0 when there is none.
Top(S, n) == S \subseteq 0..(n - 1) /\ (n > 0 => n - 1 \in S)

LEMMA OneTop ==
    ASSUME NEW S, NEW m \in Nat, NEW n \in Nat, Top(S, m), Top(S, n)
    PROVE  m = n
<1>1. ASSUME NEW x \in Nat, NEW y \in Nat, x < y, Top(S, x), Top(S, y) PROVE FALSE
  <2>1. y - 1 \in S BY <1>1 DEF Top
  <2>2. y - 1 \in 0..(x - 1) BY <1>1, <2>1 DEF Top
  <2> QED BY <1>1, <2>2
<1> QED BY <1>1

\* calc_maximum_bit_set, when the bits are in the words it looks at.
LEMMA SameExtreme == \A S : NumberSet!Max(S) = Max(S) /\ NumberSet!Min(S) = Min(S)
BY DEF NumberSet!Max, NumberSet!Min, Max, Min

LEMMA HighestIs ==
    ASSUME NEW ws, NEW start \in Int, NEW least \in Int
    PROVE  /\ NumberSet!HighestBit(ws, start, least) \in 0..NumberSet!NBITS
           /\ (\A p \in BitsOf(ws) : p \div B \in least..(start - 1)) =>
                  Top(BitsOf(ws), NumberSet!HighestBit(ws, start, least))
<1> DEFINE found == {p \in 0..(NumberSet!NBITS - 1) : p \div B \in least..(start - 1) /\ NumberSet!At(ws, p)}
           h == NumberSet!HighestBit(ws, start, least)
<1>1. h = IF found = {} THEN 0 ELSE Max(found) + 1 BY SameExtreme DEF NumberSet!HighestBit
<1>2. found \in SUBSET (0..(NumberSet!NBITS - 1)) /\ NumberSet!NBITS - 1 \in Nat
      /\ NumberSet!NBITS \in Nat
  BY WordRules
<1>3. (\A p \in BitsOf(ws) : p \div B \in least..(start - 1)) => found = BitsOf(ws)
  BY DEF BitsOf, Place
<1> HIDE DEF found, h
<1>4. CASE found = {} BY <1>1, <1>2, <1>3, <1>4 DEF Top, h
<1>5. CASE found # {}
  <2>1. Max(found) \in found /\ \A x \in found : x <= Max(found) BY <1>2, <1>5, GreatestOf
  <2> PICK g \in 0..(NumberSet!NBITS - 1) : g = Max(found) BY <1>2, <2>1
  <2>2. h = g + 1 /\ g \in found /\ \A x \in found : x <= g BY <1>1, <1>5, <2>1
  <2>3. \A x \in found : x \in 0..g BY <1>2, <2>2
  <2>4. h \in 0..NumberSet!NBITS /\ Top(found, h) BY <1>2, <2>2, <2>3 DEF Top
  <2> QED BY <1>3, <2>4 DEF h
<1> QED BY <1>4, <1>5


\* Words moved by less than a word, one of them and the one that fills it up.
LEMMA ShiftedWord ==
    ASSUME NEW w \in SUBSET NumberSet!Offset, NEW k \in 0..(B - 1), NEW o \in NumberSet!Offset
    PROVE  /\ o \in NumberSet!Shl(w, k) <=> o + k \in w
           /\ o \in NumberSet!Shr(w, B - k) <=> o + k - B \in w
<1>1. B \in Nat \ {0} /\ o \in 0..(B - 1) /\ w \subseteq 0..(B - 1)
  BY WordRules DEF NumberSet!Offset
<1>2. o \in NumberSet!Shl(w, k) <=> o + k \in w
  <2>1. ASSUME o + k \in w PROVE o \in NumberSet!Shl(w, k)
    <3>1. o + k >= k /\ (o + k) - k = o BY <1>1
    <3> QED BY <2>1, <3>1 DEF NumberSet!Shl
  <2>2. ASSUME o \in NumberSet!Shl(w, k) PROVE o + k \in w
    <3>1. PICK p \in w : p >= k /\ o = p - k BY <2>2 DEF NumberSet!Shl
    <3>2. p = o + k BY <1>1, <3>1
    <3> QED BY <3>1, <3>2
  <2> QED BY <2>1, <2>2
<1>3. o \in NumberSet!Shr(w, B - k) <=> o + k - B \in w
  <2>1. ASSUME o + k - B \in w PROVE o \in NumberSet!Shr(w, B - k)
    <3>1. o + k - B + (B - k) = o /\ o < B BY <1>1
    <3> QED BY <2>1, <3>1 DEF NumberSet!Shr
  <2>2. ASSUME o \in NumberSet!Shr(w, B - k) PROVE o + k - B \in w
    <3>1. PICK p \in w : o = p + (B - k) BY <2>2 DEF NumberSet!Shr
    <3>2. p = o + k - B BY <1>1, <3>1
    <3> QED BY <3>1, <3>2
  <2> QED BY <2>1, <2>2
<1> QED BY <1>2, <1>3

\* They stay words.
LEMMA ShiftsAreWords ==
    ASSUME NEW w \in SUBSET NumberSet!Offset, NEW k \in 0..(B - 1)
    PROVE  /\ NumberSet!Shl(w, k) \in SUBSET NumberSet!Offset
           /\ NumberSet!Shr(w, k) \in SUBSET NumberSet!Offset
           /\ NumberSet!Shr(w, B - k) \in SUBSET NumberSet!Offset
<1>1. B \in Nat \ {0} /\ \A p \in w : p \in 0..(B - 1) BY WordRules DEF NumberSet!Offset
<1>2. ASSUME NEW p \in w, p >= k PROVE p - k \in 0..(B - 1) BY <1>1, <1>2
<1>3. ASSUME NEW j \in Nat, NEW p \in w, p + j < B PROVE p + j \in 0..(B - 1) BY <1>1, <1>3
<1>4. k \in Nat /\ B - k \in Nat BY <1>1
<1> QED BY <1>2, <1>3, <1>4 DEF NumberSet!Shl, NumberSet!Shr, NumberSet!Offset

\* Behind the last word there is nothing.
LEMMA BitBehind ==
    ASSUME NEW ws \in Words, NEW j \in Nat, NEW o \in NumberSet!Offset
    PROVE  o \in (IF j < NITEMS THEN ws[j] ELSE {}) <=> j * B + o \in BitsOf(ws)
<1>1. CASE j < NITEMS
  <2>1. j \in NumberSet!Word BY <1>1, WordRules DEF NumberSet!Word
  <2> QED BY <1>1, <2>1, BitIs
<1>2. CASE ~(j < NITEMS)
  <2>1. B \in Nat \ {0} /\ NITEMS \in Nat \ {0} /\ o \in 0..(B - 1)
    BY WordRules DEF NumberSet!Offset
  <2>2. NITEMS * B <= j * B BY <1>2, <2>1, ProductGrows
  <2>3. NITEMS * B = B * NITEMS /\ B * NITEMS \in Nat /\ j * B \in Nat BY <2>1
  <2>4. j * B + o \notin Place BY <2>1, <2>2, <2>3 DEF Place, NumberSet!NBITS
  <2> QED BY <1>2, <2>4 DEF BitsOf
<1> QED BY <1>1, <1>2

\* shift_map_left moves every bit by n places, across words.
LEMMA ShiftLeftIs ==
    ASSUME words \in Words, numBits \in Nat, NEW n \in Nat, n < numBits
    PROVE  /\ NumberSet!ShiftLeft(n) \in Words
           /\ BitsOf(NumberSet!ShiftLeft(n)) = {p \in Place : p + n \in BitsOf(words)}
<1> DEFINE Old(i) == IF i < NITEMS THEN words[i] ELSE {}
           moved == NumberSet!ShiftLeft(n)
           S == {p \in Place : p + n \in BitsOf(words)}
<1>1. PICK q \in Int, k \in 0..(B - 1) : n = q * B + k /\ q = n \div B /\ k = n % B BY WordRules
<1>2. B \in Nat \ {0} /\ NITEMS \in Nat \ {0} BY WordRules
<1>3. q \in Nat
  <2> SUFFICES ASSUME q <= -1 PROVE FALSE BY <1>1
  <2>1. q * B <= -1 * B BY <1>2, ProductGrows
  <2> QED BY <1>1, <1>2, <2>1
<1>4. moved = [i \in NumberSet!Word |->
          NumberSet!Shl(Old(i + q), k) \cup NumberSet!Shr(Old(i + q + 1), B - k)]
  <2>1. ~(n >= numBits) OBVIOUS
  <2> QED BY <1>1, <2>1 DEF NumberSet!ShiftLeft
<1>5. ASSUME NEW j \in Nat PROVE Old(j) \in SUBSET NumberSet!Offset
  BY <1>2 DEF Words, NumberSet!Word
<1>6. ASSUME NEW i \in NumberSet!Word PROVE i \in Nat /\ i + q \in Nat /\ i + q + 1 \in Nat
  BY <1>3 DEF NumberSet!Word
<1>7. ASSUME NEW j \in Nat, NEW o \in NumberSet!Offset
      PROVE  o \in Old(j) <=> j * B + o \in BitsOf(words)
  BY BitBehind
<1> HIDE DEF Old, moved
<1>8. moved \in Words BY <1>4, <1>5, <1>6, ShiftsAreWords DEF Words
<1>9. ASSUME NEW i \in NumberSet!Word, NEW o \in NumberSet!Offset
      PROVE  o \in moved[i] <=> i * B + o \in S
  <2>1. o \in moved[i] <=> o + k \in Old(i + q) \/ o + k - B \in Old(i + q + 1)
    BY <1>4, <1>5, <1>6, ShiftedWord
  <2>2. i * B + o \in S <=> (i * B + o) + n \in BitsOf(words) BY PlaceOf
  <2>3. /\ i \in Nat /\ o \in 0..(B - 1) /\ i * B \in Nat
        /\ (i + q) * B = i * B + q * B /\ (i + q + 1) * B = i * B + q * B + B /\ q * B \in Nat
    BY <1>2, <1>3, <1>6 DEF NumberSet!Offset
  <2>4. CASE o + k < B
    <3>1. o + k \in NumberSet!Offset /\ o + k - B \notin NumberSet!Offset
      BY <1>2, <2>3, <2>4 DEF NumberSet!Offset
    <3>2. o + k \in Old(i + q) <=> (i + q) * B + (o + k) \in BitsOf(words) BY <1>6, <1>7, <3>1
    <3>3. (i + q) * B + (o + k) = (i * B + o) + n BY <1>1, <2>3
    <3>4. o + k - B \notin Old(i + q + 1) BY <1>5, <1>6, <3>1
    <3> QED BY <2>1, <2>2, <3>2, <3>3, <3>4
  <2>5. CASE ~(o + k < B)
    <3>1. o + k - B \in NumberSet!Offset /\ o + k \notin NumberSet!Offset
      BY <1>2, <2>3, <2>5 DEF NumberSet!Offset
    <3>2. o + k - B \in Old(i + q + 1) <=> (i + q + 1) * B + (o + k - B) \in BitsOf(words)
      BY <1>6, <1>7, <3>1
    <3>3. (i + q + 1) * B + (o + k - B) = (i * B + o) + n
      <4>1. (i + q + 1) * B = (i * B + q * B) + B /\ n = q * B + k BY <1>1, <2>3
      <4>2. i * B \in Int /\ q * B \in Int /\ o \in Int /\ k \in Int /\ B \in Int BY <1>2, <2>3
      <4> QED BY ONLY <4>1, <4>2
    <3>4. o + k \notin Old(i + q) BY <1>5, <1>6, <3>1
    <3> QED BY <2>1, <2>2, <3>2, <3>3, <3>4
  <2> QED BY <2>4, <2>5
<1>10. BitsOf(moved) = S
  <2>1. S \in SUBSET Place OBVIOUS
  <2> HIDE DEF S
  <2> QED BY <1>9, <2>1, BitsAre
<1> QED BY <1>8, <1>10 DEF moved

\* add and addRange set the bits they mean.
LEMMA SetBitsAre ==
    ASSUME words \in Words, NEW ps \in SUBSET Place, NumberSet!SetBits(ps)
    PROVE  words' \in Words /\ BitsOf(words') = BitsOf(words) \cup ps
<1>1. words' = [i \in NumberSet!Word |-> words[i] \cup {o \in NumberSet!Offset : i * B + o \in ps}]
  BY DEF NumberSet!SetBits
<1>2. words' \in Words BY <1>1 DEF Words
<1> DEFINE S == BitsOf(words) \cup ps
<1>3. S \in SUBSET Place BY DEF BitsOf
<1>4. \A i \in NumberSet!Word, o \in NumberSet!Offset : o \in words'[i] <=> i * B + o \in S
  BY <1>1, BitIs
<1> HIDE DEF S
<1>5. BitsOf(words') = S BY <1>3, <1>4, BitsAre
<1> QED BY <1>2, <1>5 DEF S

\* remove clears the one it means.
LEMMA ClearedBit ==
    ASSUME words \in Words, NEW x \in Int, base \in Int, NumberSet!ClearBit(x)
    PROVE  words' \in Words /\ BitsOf(words') = BitsOf(words) \ {x - base}
<1>1. words' = [i \in NumberSet!Word |-> words[i] \ {o \in NumberSet!Offset : i * B + o = x - base}]
  BY DEF NumberSet!ClearBit
<1>2. words' \in Words BY <1>1 DEF Words
<1> DEFINE S == BitsOf(words) \ {x - base}
<1>3. S \in SUBSET Place BY DEF BitsOf
<1>4. \A i \in NumberSet!Word, o \in NumberSet!Offset : o \in words'[i] <=> i * B + o \in S
  BY <1>1, BitIs
<1> HIDE DEF S
<1>5. BitsOf(words') = S BY <1>3, <1>4, BitsAre
<1> QED BY <1>2, <1>5 DEF S

\* A bitmap of n bits is kept up to the n-th, word by word.
LEMMA LoadedIs ==
    ASSUME NEW ws \in Words, NEW n \in 0..(NumberSet!NBITS + 1)
    PROVE  /\ NumberSet!Loaded(n, ws) \in Words
           /\ n <= NumberSet!NBITS =>
                  BitsOf(NumberSet!Loaded(n, ws)) = {p \in BitsOf(ws) : p < n}
<1> DEFINE fits == Min({n, NumberSet!NBITS})
           items == (fits + B - 1) \div B
           kept == NumberSet!Loaded(n, ws)
           S == {p \in BitsOf(ws) : p < n}
<1>1. kept = [i \in NumberSet!Word |->
          IF i >= items THEN {}
          ELSE IF i = items - 1 /\ n % B # 0 THEN {o \in ws[i] : o < n % B} ELSE ws[i]]
  BY SameExtreme DEF NumberSet!Loaded
<1>2. kept \in Words
  <2> HIDE DEF items, kept
  <2> QED BY <1>1 DEF Words
<1>3. ASSUME n <= NumberSet!NBITS PROVE BitsOf(kept) = S
  <2>1. fits = n /\ n \in Nat BY <1>3, MinOfTwo, WordRules
  <2>2. B \in Nat \ {0} BY WordRules
  <2>3. PICK q \in Int, k \in 0..(B - 1) : n = q * B + k /\ q = n \div B /\ k = n % B BY <2>1, <2>2
  <2>4. items = IF k = 0 THEN q ELSE q + 1
    <3>1. CASE k = 0
      <4>1. q * B \in Int BY <2>2
      <4>3. fits + B - 1 = q * B + (B - 1) /\ B - 1 \in 0..(B - 1)
        <5>1. fits = q * B /\ B \in Int BY <2>1, <2>2, <2>3, <3>1, <4>1
        <5> HIDE DEF fits
        <5> QED BY <2>2, <4>1, <5>1
      <4>2. (q * B + (B - 1)) \div B = q BY <2>2, <2>3
      <4> QED BY <3>1, <4>2, <4>3
    <3>2. CASE k # 0
      <4>1. fits + B - 1 = (q + 1) * B + (k - 1) /\ k - 1 \in 0..(B - 1) /\ q + 1 \in Int
        BY <2>1, <2>2, <2>3, <3>2
      <4>2. ASSUME NEW r \in 0..(B - 1), NEW d \in Int PROVE (d * B + r) \div B = d BY <2>2
      <4> QED BY <3>2, <4>1, <4>2
    <3> QED BY <3>1, <3>2
  <2>a. kept = [i \in NumberSet!Word |->
            IF i >= items THEN {}
            ELSE IF i = items - 1 /\ k # 0 THEN {o \in ws[i] : o < k} ELSE ws[i]]
    BY <1>1, <2>3
  <2> HIDE DEF fits, items, kept
  <2>5. ASSUME NEW i \in NumberSet!Word, NEW o \in NumberSet!Offset
        PROVE  o \in kept[i] <=> i * B + o \in S
    <3>1. i \in Nat /\ o \in 0..(B - 1) BY DEF NumberSet!Word, NumberSet!Offset
    <3>2. o \in ws[i] <=> i * B + o \in BitsOf(ws) BY BitIs
    <3>3. i * B \in Int /\ q * B \in Int BY <2>2, <3>1
    <3>4. CASE i < q
      <4>1. (i + 1) * B <= q * B BY <2>2, <3>1, <3>4, ProductGrows
      <4>2. (i + 1) * B = i * B + B BY <2>2, <3>1
      <4>3. i * B + o < n BY <2>2, <2>3, <3>1, <3>3, <4>1, <4>2
      <4>4. ~(i >= items) /\ (i = items - 1 => k = 0) BY <2>2, <2>4, <3>1, <3>4
      <4>5. kept[i] = ws[i] BY <2>a, <4>4
      <4> QED BY <3>2, <4>3, <4>5
    <3>5. CASE i > q
      <4>1. (q + 1) * B <= i * B BY <2>2, <3>1, <3>5, ProductGrows
      <4>2. (q + 1) * B = q * B + B BY <2>2
      <4>3. ~(i * B + o < n) BY <2>2, <2>3, <3>1, <3>3, <4>1, <4>2
      <4>4. kept[i] = {} BY <2>a, <2>4, <3>1, <3>5
      <4> QED BY <4>3, <4>4
    <3>6. CASE i = q
      <4>1. i * B + o < n <=> o < k
        <5>1. n = i * B + k BY <2>3, <3>6
        <5> QED BY <2>2, <3>1, <3>3, <5>1
      <4>2. CASE k = 0
        <5>1. kept[i] = {} /\ ~(o < k) BY <2>a, <2>4, <3>1, <3>6, <4>2
        <5> QED BY <4>1, <5>1
      <4>3. CASE k # 0
        <5>2. ~(i >= items) /\ i = items - 1 BY <2>4, <3>1, <3>6, <4>3
        <5>1. kept[i] = {x \in ws[i] : x < k} BY <2>a, <4>3, <5>2
        <5> QED BY <3>2, <4>1, <5>1
      <4> QED BY <4>2, <4>3
    <3> QED BY <2>3, <3>1, <3>4, <3>5, <3>6
  <2>6. S \in SUBSET Place BY DEF BitsOf
  <2> HIDE DEF S
  <2> QED BY <2>5, <2>6, BitsAre
<1> QED BY <1>2, <1>3


\* The invariant: while the set is defined, the bits are its members and num_bits_ is
\* the place behind the last of them.
SetTyped ==
    /\ wide \in BOOLEAN /\ base \in NumberSet!Tried(Bases)
    /\ rangeMax \in Nat /\ rangeMax < base + NumberSet!NBITS
    /\ words \in Words /\ numBits \in 0..(M - 1)
    /\ exact \in BOOLEAN

Holds == exact =>
    /\ Top(BitsOf(words), numBits)
    /\ set = {base + p : p \in BitsOf(words)}

NumbersInv == SetTyped /\ Holds

\* The count of bits, which only a remove outside the window makes larger than there are.
LEMMA CountFits ==
    ASSUME NumbersInv
    PROVE  /\ numBits \in Nat /\ numBits < M /\ 0..NumberSet!NBITS \subseteq 0..(M - 1)
           /\ exact => numBits \in 0..NumberSet!NBITS
<1>1. numBits \in Nat /\ numBits < M /\ NumberSet!NBITS \in Nat /\ NumberSet!NBITS < M /\ M \in Nat
  BY WordRules DEF NumbersInv, SetTyped
<1>2. ASSUME exact PROVE numBits \in 0..NumberSet!NBITS
  <2>1. Top(BitsOf(words), numBits) BY <1>2 DEF NumbersInv, Holds
  <2>2. numBits > 0 => numBits - 1 \in 0..(NumberSet!NBITS - 1) BY <2>1 DEF Top, BitsOf, Place
  <2> QED BY <1>1, <2>2
<1> QED BY <1>1, <1>2

LEMMA BaseIs ==
    ASSUME NEW b \in NumberSet!Tried(Bases)
    PROVE  b \in Nat /\ (~wide => b + NumberSet!NBITS < M)
<1>1. b \in Nat /\ (wide \/ b < M - NumberSet!NBITS) BY BitmapAssumption DEF NumberSet!Tried
<1> QED BY <1>1, WordRules

LEMMA NoBitsAre == NumberSet!NoBits \in Words /\ BitsOf(NumberSet!NoBits) = {} /\ Top({}, 0)
<1>1. NumberSet!NoBits \in Words BY DEF Words, NumberSet!NoBits
<1>2. BitsOf(NumberSet!NoBits) = {} BY WordOf DEF BitsOf, NumberSet!At, NumberSet!NoBits
<1> QED BY <1>1, <1>2 DEF Top

\* A window that begins anew: Init and base.
LEMMA EmptyHolds ==
    ASSUME NEW b \in NumberSet!Tried(Bases), NEW m \in 0..NumberSet!NBITS,
           wide' \in BOOLEAN, base' = b, b \in NumberSet!Tried(Bases)',
           rangeMax' = b + NumberSet!Min({m, NumberSet!NBITS - 1}),
           words' = NumberSet!NoBits, numBits' = 0, set' = {}, exact' = TRUE
    PROVE  NumbersInv'
<1>1. b \in Nat /\ NumberSet!NBITS \in Nat \ {0} BY BaseIs, WordRules
<1>2. NumberSet!Min({m, NumberSet!NBITS - 1}) \in 0..(NumberSet!NBITS - 1)
  <2>1. NumberSet!Min({m, NumberSet!NBITS - 1}) = IF m <= NumberSet!NBITS - 1 THEN m ELSE NumberSet!NBITS - 1
    BY <1>1, MinOfTwo, SameExtreme
  <2> QED BY <1>1, <2>1
<1>3. rangeMax' \in Nat /\ rangeMax' < base' + NumberSet!NBITS
  <2> PICK d \in 0..(NumberSet!NBITS - 1) : d = NumberSet!Min({m, NumberSet!NBITS - 1}) BY <1>2
  <2> QED BY <1>1
<1>4. words' \in Words /\ BitsOf(words') = {} BY NoBitsAre
<1>5. SetTyped' BY <1>1, <1>3, <1>4, WordRules DEF SetTyped
<1>6. Holds' BY <1>4, NoBitsAre DEF Holds
<1> QED BY <1>5, <1>6 DEF NumbersInv

LEMMA Retried ==
    ASSUME wide' = wide
    PROVE  \A b \in NumberSet!Tried(Bases) : b \in NumberSet!Tried(Bases)'
BY DEF NumberSet!Tried

\* add, and the numbers addRange sets.
LEMMA SetHolds ==
    ASSUME NumbersInv, wide' = wide, NEW ps \in SUBSET Place, NEW n \in 0..NumberSet!NBITS,
           NumberSet!SetBits(ps), Top(ps, n), numBits' = NumberSet!Max({n, numBits}),
           set' = set \cup {y \in {base + p : p \in ps} : exact},
           UNCHANGED <<base, rangeMax, exact>>
    PROVE  NumbersInv'
<1>1. words' \in Words /\ BitsOf(words') = BitsOf(words) \cup ps
  BY SetBitsAre DEF NumbersInv, SetTyped
<1>2. numBits \in 0..(M - 1) /\ NumberSet!NBITS \in Nat /\ NumberSet!NBITS < M /\ M \in Nat
  BY WordRules DEF NumbersInv, SetTyped
<1>3. numBits' = IF n >= numBits THEN n ELSE numBits BY <1>2, MaxOfTwo, SameExtreme
<1>4. base \in NumberSet!Tried(Bases)' BY Retried DEF NumbersInv, SetTyped
<1>5. SetTyped'
  <2>1. numBits' \in 0..(M - 1) BY <1>2, <1>3
  <2> QED BY <1>1, <1>4, <2>1 DEF NumbersInv, SetTyped
<1>6. ASSUME exact' PROVE Top(BitsOf(words'), numBits') /\ set' = {base' + p : p \in BitsOf(words')}
  <2>1. exact /\ Top(BitsOf(words), numBits) /\ set = {base + p : p \in BitsOf(words)}
    BY <1>6 DEF NumbersInv, Holds
  <2>2. ASSUME NEW S, NEW T, NEW i \in Nat, NEW j \in Nat, Top(S, i), Top(T, j)
        PROVE  Top(S \cup T, IF j >= i THEN j ELSE i)
    BY <2>2 DEF Top
  <2>5. numBits \in Nat /\ n \in Nat BY <1>2
  <2>3. Top(BitsOf(words) \cup ps, IF n >= numBits THEN n ELSE numBits) BY <2>1, <2>2, <2>5
  <2>4. set' = {base + p : p \in BitsOf(words) \cup ps} BY <2>1
  <2> QED BY <1>1, <1>3, <2>3, <2>4
<1> QED BY <1>5, <1>6 DEF NumbersInv, Holds

LEMMA AddHolds ==
    ASSUME NumbersInv, wide' = wide, NEW x \in Items, NumberSet!Add(x)
    PROVE  NumbersInv'
<1>1. base \in Nat /\ rangeMax \in Nat /\ rangeMax < base + NumberSet!NBITS /\ NumberSet!NBITS \in Nat
  BY BaseIs, WordRules DEF NumbersInv, SetTyped
<1>2. x \in base..rangeMax BY DEF NumberSet!Add
<1> DEFINE ps == {x - base}
<1>3. x - base \in Place /\ x - base + 1 \in 0..NumberSet!NBITS BY <1>1, <1>2 DEF Place
<1>4. Top(ps, x - base + 1) BY <1>1, <1>2 DEF Top
<1>5. {base + p : p \in ps} = {x} BY <1>1, <1>2
<1>6. /\ NumberSet!SetBits(ps) /\ numBits' = NumberSet!Max({x - base + 1, numBits})
      /\ set' = set \cup {y \in {base + p : p \in ps} : exact}
      /\ UNCHANGED <<base, rangeMax, exact>>
  BY <1>5 DEF NumberSet!Add
<1>7. ps \in SUBSET Place BY <1>3
<1> HIDE DEF ps
<1> QED BY <1>3, <1>4, <1>6, <1>7, SetHolds

LEMMA AddRangeHolds ==
    ASSUME NumbersInv, wide' = wide, NEW x \in Items, NEW y \in Items, NumberSet!AddRange(x, y)
    PROVE  NumbersInv'
<1>1. base \in Nat /\ NumberSet!NBITS \in Nat /\ x \in Nat /\ y \in Nat
  BY BaseIs, WordRules, BitmapAssumption DEF NumbersInv, SetTyped
<1>2. PICK lo \in Nat : lo = NumberSet!Max({base, x}) /\ lo >= base
  <2>1. NumberSet!Max({base, x}) = IF base >= x THEN base ELSE x BY <1>1, MaxOfTwo, SameExtreme
  <2> QED BY <1>1, <2>1
<1>3. PICK hi \in Nat : hi = NumberSet!Min({y, base + NumberSet!NBITS}) /\ hi <= base + NumberSet!NBITS
  <2>1. base + NumberSet!NBITS \in Nat BY <1>1
  <2>2. NumberSet!Min({y, base + NumberSet!NBITS}) = IF y <= base + NumberSet!NBITS THEN y ELSE base + NumberSet!NBITS
    BY <1>1, <2>1, MinOfTwo, SameExtreme
  <2> QED BY <1>1, <2>1, <2>2
<1> DEFINE ps == (lo - base)..(hi - base - 1)
<1>4. /\ lo < hi /\ NumberSet!SetBits(ps) /\ numBits' = NumberSet!Max({numBits, hi - base})
      /\ set' = set \cup {z \in lo..(hi - 1) : exact}
      /\ UNCHANGED <<base, rangeMax, exact>>
  BY <1>2, <1>3 DEF NumberSet!AddRange
<1>5. ps \in SUBSET Place /\ hi - base \in 0..NumberSet!NBITS BY <1>1, <1>2, <1>3, <1>4 DEF Place
<1>6. Top(ps, hi - base) BY <1>1, <1>2, <1>3, <1>4 DEF Top
<1>7. {base + p : p \in ps} = lo..(hi - 1)
  <2>1. ASSUME NEW z \in lo..(hi - 1) PROVE z \in {base + p : p \in ps}
    <3>1. z - base \in ps /\ base + (z - base) = z BY <1>1, <1>2, <1>3
    <3> QED BY <3>1
  <2>2. ASSUME NEW p \in ps PROVE base + p \in lo..(hi - 1) BY <1>1, <1>2, <1>3
  <2> QED BY <2>1, <2>2
<1>8. {numBits, hi - base} = {hi - base, numBits} OBVIOUS
<1> HIDE DEF ps
<1>9. /\ numBits' = NumberSet!Max({hi - base, numBits})
      /\ set' = set \cup {z \in {base + p : p \in ps} : exact}
  BY <1>4, <1>7, <1>8
<1> QED BY <1>4, <1>5, <1>6, <1>9, SetHolds


\* A place below the end of a word is in that word or an earlier one.
LEMMA WordBelow ==
    ASSUME NEW p \in Place, NEW c \in Int, p < c * B
    PROVE  p \div B \in 0..(c - 1)
<1>1. PICK i \in NumberSet!Word, o \in NumberSet!Offset : p = i * B + o /\ i = p \div B BY WordOf
<1>2. B \in Nat /\ i \in Nat /\ o \in Nat BY WordRules DEF NumberSet!Word, NumberSet!Offset
<1>3. i < c
  <2> SUFFICES ASSUME c <= i PROVE FALSE BY <1>2
  <2>1. c * B <= i * B BY <1>2, ProductGrows
  <2>2. c * B \in Int /\ i * B \in Int BY <1>2
  <2> QED BY <1>1, <1>2, <2>1, <2>2
<1> QED BY <1>1, <1>2, <1>3

\* So are the first n places in the words that n bits take.
LEMMA WordsTaken ==
    ASSUME NEW n \in Nat, NEW p \in Place, p < n
    PROVE  p \div B \in 0..((n + B - 1) \div B - 1)
<1>1. B \in Nat \ {0} /\ p \in Nat BY WordRules DEF Place
<1>2. n + B - 1 \in Int BY <1>1
<1>3. PICK c \in Int, r \in 0..(B - 1) : n + B - 1 = c * B + r /\ c = (n + B - 1) \div B
  BY <1>1, <1>2
<1>4. c * B \in Int BY <1>1
<1>5. p < c * B BY <1>1, <1>3, <1>4
<1> QED BY <1>3, <1>5, WordBelow

\* max() of a set that is not empty, and of one that is.
LEMMA MaximumIs ==
    ASSUME NumbersInv, exact
    PROVE  /\ numBits > 0 => NumberSet!Maximum = base + numBits - 1
           /\ numBits = 0 => NumberSet!Maximum = base - 1 \/ NumberSet!Maximum >= base + NumberSet!NBITS
<1>1. /\ base \in Nat /\ numBits \in 0..NumberSet!NBITS /\ wide \in BOOLEAN
      /\ ~wide => base + NumberSet!NBITS < M
  BY BaseIs, CountFits DEF NumbersInv, SetTyped
<1>2. NumberSet!NBITS \in Nat \ {0} /\ M \in Nat \ {0} /\ NumberSet!NBITS < M BY WordRules
<1>3. NumberSet!Maximum = IF wide THEN base + ((numBits - 1) % M) ELSE (base + (numBits - 1)) % M
  BY DEF NumberSet!Maximum, NumberSet!Plus
<1>4. (-1) % M = M - 1
  <2>1. M - 1 \in 0..(M - 1) BY <1>2
  <2>2. (-1 * M + (M - 1)) % M = M - 1 BY <1>2, <2>1, RemainderIs
  <2>3. -1 * M + (M - 1) = -1 BY <1>2
  <2> QED BY <2>2, <2>3
<1>5. ASSUME NEW r \in 0..(M - 1) PROVE r % M = r BY <1>2, SmallRemainder
<1>6. CASE numBits > 0 /\ wide
  <2>1. numBits - 1 \in 0..(M - 1) BY <1>1, <1>2, <1>6
  <2> QED BY <1>1, <1>3, <1>5, <1>6, <2>1
<1>7. CASE numBits > 0 /\ ~wide
  <2>1. base + (numBits - 1) \in 0..(M - 1) BY <1>1, <1>2, <1>7
  <2> QED BY <1>1, <1>3, <1>5, <1>7, <2>1
<1>8. CASE numBits = 0 /\ wide
  <2>1. NumberSet!Maximum = base + (M - 1) BY <1>3, <1>4, <1>8
  <2> QED BY <1>1, <1>2, <1>8, <2>1
<1>9. CASE numBits = 0 /\ ~wide
  <2>1. NumberSet!Maximum = (base - 1) % M
    <3>1. base + (numBits - 1) = base - 1 BY <1>1, <1>9
    <3> QED BY <1>3, <1>9, <3>1
  <2>2. CASE base = 0
    <3>1. NumberSet!Maximum = M - 1
      <4>1. base - 1 = -1 BY <2>2
      <4> QED BY <1>4, <2>1, <4>1
    <3> QED BY <1>2, <1>9, <2>2, <3>1
  <2>3. CASE base # 0
    <3>1. base - 1 \in 0..(M - 1) BY <1>1, <1>2, <1>9, <2>3
    <3>2. NumberSet!Maximum = base - 1 BY <1>5, <2>1, <3>1
    <3> QED BY <1>1, <1>9, <3>2
  <2> QED BY <2>2, <2>3
<1> QED BY <1>1, <1>6, <1>7, <1>8, <1>9

LEMMA MaximumTyped == NumbersInv => NumberSet!Maximum \in Int
<1> SUFFICES ASSUME NumbersInv PROVE NumberSet!Maximum \in Int OBVIOUS
<1>1. base \in Int /\ numBits \in Int /\ M \in Nat \ {0} BY BaseIs, WordRules, CountFits DEF NumbersInv, SetTyped
<1>2. (numBits - 1) % M \in Int /\ (base + (numBits - 1)) % M \in Int BY <1>1
<1> QED BY <1>1, <1>2 DEF NumberSet!Maximum, NumberSet!Plus

LEMMA RemoveHolds ==
    ASSUME NumbersInv, wide' = wide, NEW x \in Items, NumberSet!Remove(x)
    PROVE  NumbersInv'
<1>1. /\ base \in Nat /\ NumberSet!NBITS \in Nat \ {0} /\ x \in Nat /\ numBits \in Nat
      /\ words \in Words /\ numBits \in 0..(M - 1) /\ 0..NumberSet!NBITS \subseteq 0..(M - 1)
      /\ exact => numBits \in 0..NumberSet!NBITS
  BY BaseIs, WordRules, BitmapAssumption, CountFits DEF NumbersInv, SetTyped
<1>2. base \in NumberSet!Tried(Bases)' BY Retried DEF NumbersInv, SetTyped
<1>3. x \in base..NumberSet!Maximum /\ NumberSet!Maximum \in Int BY MaximumTyped DEF NumberSet!Remove
<1>4. CASE x - base < NumberSet!NBITS
  <2> PICK p \in Place : p = x - base BY <1>1, <1>3, <1>4 DEF Place
  <2>1. /\ NumberSet!ClearBit(x)
        /\ numBits' = IF x = NumberSet!Maximum THEN NumberSet!HighestBit(words', p \div B + 1, 0)
                      ELSE numBits
    BY <1>4 DEF NumberSet!Remove
  <2>2. words' \in Words /\ BitsOf(words') = BitsOf(words) \ {p} BY <1>1, <2>1, ClearedBit
  <2>3. set' = set \ {x} /\ UNCHANGED <<base, rangeMax, exact>>
    BY <2>1 DEF NumberSet!ClearBit
  <2>4. p \div B \in Nat /\ p \div B + 1 \in Int /\ p < (p \div B + 1) * B
    <3>1. PICK i \in NumberSet!Word, o \in NumberSet!Offset : p = i * B + o /\ i = p \div B
      BY WordOf
    <3>2. B \in Nat /\ i \in Nat /\ o \in 0..(B - 1)
      BY WordRules DEF NumberSet!Word, NumberSet!Offset
    <3>3. (i + 1) * B = i * B + B /\ i * B \in Nat BY <3>2
    <3>4. p < (i + 1) * B BY <3>1, <3>2, <3>3
    <3> QED BY <3>1, <3>2, <3>4
  <2> DEFINE high == NumberSet!HighestBit(words', p \div B + 1, 0)
  <2>5. /\ high \in 0..NumberSet!NBITS
        /\ (\A q \in BitsOf(words') : q \div B \in 0..(p \div B + 1 - 1)) => Top(BitsOf(words'), high)
    BY <2>4, HighestIs
  <2> HIDE DEF high
  <2>6. SetTyped'
    <3>1. numBits' \in 0..(M - 1) BY <1>1, <2>1, <2>5 DEF high
    <3> QED BY <1>2, <2>2, <2>3, <3>1 DEF NumbersInv, SetTyped
  <2>7. ASSUME exact' PROVE Top(BitsOf(words'), numBits') /\ set' = {base' + q : q \in BitsOf(words')}
    <3>1. Top(BitsOf(words), numBits) /\ set = {base + q : q \in BitsOf(words)}
      BY <2>3, <2>7 DEF NumbersInv, Holds
    <3>2. \A q \in BitsOf(words) : q \in Nat BY DEF BitsOf, Place
    <3>3. set' = {base' + q : q \in BitsOf(words')}
      <4>1. \A q \in BitsOf(words) : base + q = x <=> q = p BY <1>1, <3>2
      <4> QED BY <2>2, <2>3, <3>1, <4>1
    <3>4. CASE x = NumberSet!Maximum
      <4>1. numBits > 0 /\ numBits = p + 1 BY <1>1, <1>3, <1>4, <2>3, <2>7, <3>4, MaximumIs
      <4>2. \A q \in BitsOf(words') : q \in Place /\ q <= p
        BY <1>1, <2>2, <3>1, <4>1 DEF Top, BitsOf
      <4>3. \A q \in BitsOf(words') : q < (p \div B + 1) * B
        <5> PICK e \in Int : e = (p \div B + 1) * B BY <2>4, WordRules
        <5> QED BY <2>4, <4>2 DEF Place
      <4>4. \A q \in BitsOf(words') : q \div B \in 0..(p \div B + 1 - 1)
        <5> PICK c \in Int : c = p \div B + 1 BY <2>4
        <5>1. \A q \in BitsOf(words') : q \in Place /\ q < c * B BY <4>2, <4>3
        <5>2. \A q \in BitsOf(words') : q \div B \in 0..(c - 1) BY <5>1, WordBelow
        <5>3. c - 1 = p \div B + 1 - 1
          <6> PICK d \in Nat : d = p \div B BY <2>4
          <6> QED OBVIOUS
        <5> QED BY <5>2, <5>3
      <4> QED BY <2>1, <2>5, <3>3, <3>4, <4>4 DEF high
    <3>5. CASE x # NumberSet!Maximum
      <4>1. numBits > 0 => p # numBits - 1 BY <1>1, <2>3, <2>7, <3>5, MaximumIs
      <4>2. Top(BitsOf(words) \ {p}, numBits) BY <3>1, <4>1 DEF Top
      <4> QED BY <2>1, <2>2, <3>3, <3>5, <4>2
    <3> QED BY <3>4, <3>5
  <2> QED BY <2>6, <2>7 DEF NumbersInv, Holds
<1>5. CASE ~(x - base < NumberSet!NBITS)
  <2>1. numBits' \in 0..(M - 1) /\ exact' = FALSE /\ UNCHANGED <<base, rangeMax, words>>
    BY <1>5 DEF NumberSet!Remove
  <2>2. SetTyped' BY <1>2, <2>1 DEF NumbersInv, SetTyped
  <2>3. Holds' BY <2>1 DEF Holds
  <2> QED BY <2>2, <2>3 DEF NumbersInv
<1> QED BY <1>4, <1>5

LEMMA SetBitmapHolds ==
    ASSUME NumbersInv, wide' = wide, NEW n \in 0..(NumberSet!NBITS + 1), NEW ws \in Words,
           NumberSet!SetBitmap(n, ws)
    PROVE  NumbersInv'
<1>1. B \in Nat \ {0} /\ NumberSet!NBITS \in Nat \ {0} BY WordRules
<1>2. base \in NumberSet!Tried(Bases)' BY Retried DEF NumbersInv, SetTyped
<1>3. PICK fits \in Nat : fits = NumberSet!Min({n, NumberSet!NBITS}) /\ (n <= NumberSet!NBITS => fits = n)
  <2>1. NumberSet!Min({n, NumberSet!NBITS}) = IF n <= NumberSet!NBITS THEN n ELSE NumberSet!NBITS
    BY <1>1, MinOfTwo, SameExtreme
  <2> QED BY <1>1, <2>1
<1>4. PICK items \in Int : items = (fits + B - 1) \div B BY <1>1
<1>5. /\ words' = NumberSet!Loaded(n, ws) /\ numBits' = NumberSet!HighestBit(words', items, 0)
      /\ exact' = (n <= NumberSet!NBITS)
      /\ set' = {base + p : p \in {p \in Place : exact' /\ p < n /\ NumberSet!At(ws, p)}}
      /\ UNCHANGED <<base, rangeMax>>
  BY <1>3, <1>4 DEF NumberSet!SetBitmap, Place
<1>6. /\ words' \in Words
      /\ n <= NumberSet!NBITS => BitsOf(words') = {p \in BitsOf(ws) : p < n}
  BY <1>5, LoadedIs
<1>7. /\ numBits' \in 0..NumberSet!NBITS
      /\ (\A p \in BitsOf(words') : p \div B \in 0..(items - 1)) => Top(BitsOf(words'), numBits')
  BY <1>5, HighestIs
<1>8. SetTyped' BY <1>2, <1>5, <1>6, <1>7, CountFits DEF NumbersInv, SetTyped
<1>9. ASSUME exact' PROVE Top(BitsOf(words'), numBits') /\ set' = {base' + p : p \in BitsOf(words')}
  <2>1. n <= NumberSet!NBITS /\ fits = n BY <1>3, <1>5, <1>9
  <2>2. BitsOf(words') = {p \in BitsOf(ws) : p < n} BY <1>6, <2>1
  <2>3. \A p \in BitsOf(words') : p \div B \in 0..(items - 1)
    BY <1>4, <2>1, <2>2, WordsTaken DEF BitsOf
  <2>4. {p \in Place : exact' /\ p < n /\ NumberSet!At(ws, p)} = BitsOf(words')
    BY <1>9, <2>2 DEF BitsOf
  <2> QED BY <1>5, <1>7, <2>3, <2>4
<1> QED BY <1>8, <1>9 DEF NumbersInv, Holds


\* The window moves up.
LEMMA MoveUpHolds ==
    ASSUME NumbersInv, wide' = wide, NEW b \in NumberSet!Tried(Bases), b > base,
           NumberSet!MoveUp(b), base' = b, rangeMax' = b + NumberSet!NBITS - 1
    PROVE  NumbersInv'
<1>1. /\ base \in Nat /\ b \in Nat /\ NumberSet!NBITS \in Nat \ {0} /\ M \in Nat \ {0}
      /\ numBits \in 0..(M - 1) /\ words \in Words /\ exact \in BOOLEAN
  BY BaseIs, WordRules DEF NumbersInv, SetTyped
<1>2. PICK n \in Nat : n = NumberSet!Diff(b, base) /\ (b - base < M => n = b - base)
  <2>1. b - base \in Int /\ (b - base) % M \in Nat BY <1>1
  <2>2. b - base < M => b - base \in 0..(M - 1) BY <1>1
  <2> QED BY <1>1, <2>1, <2>2, SmallRemainder DEF NumberSet!Diff
<1>3. /\ words' = NumberSet!ShiftLeft(n)
      /\ numBits' = IF n >= numBits THEN 0 ELSE numBits - n
      /\ exact' = (exact /\ b - base < M)
      /\ set' = {x \in set : x >= b /\ exact'}
  BY <1>2 DEF NumberSet!MoveUp
<1>4. /\ words' \in Words
      /\ n < numBits => BitsOf(words') = {p \in Place : p + n \in BitsOf(words)}
      /\ n >= numBits => BitsOf(words') = {}
  <2>1. CASE n < numBits
    <3>1. ~(n >= numBits) BY <1>1, <2>1
    <3> QED BY <1>1, <1>3, <2>1, <3>1, ShiftLeftIs
  <2>2. CASE ~(n < numBits)
    <3>1. n >= numBits BY <1>1, <2>2
    <3>2. words' = NumberSet!NoBits BY <1>3, <3>1 DEF NumberSet!ShiftLeft
    <3> QED BY <2>2, <3>2, NoBitsAre
  <2> QED BY <2>1, <2>2
<1>5. SetTyped'
  <2>1. b \in NumberSet!Tried(Bases)' BY Retried
  <2>2. numBits' \in 0..(M - 1) BY <1>1, <1>3
  <2>3. rangeMax' \in Nat /\ rangeMax' < base' + NumberSet!NBITS BY <1>1
  <2>4. exact' \in BOOLEAN BY <1>3
  <2> QED BY <1>4, <2>1, <2>2, <2>3, <2>4 DEF NumbersInv, SetTyped
<1>6. ASSUME exact' PROVE Top(BitsOf(words'), numBits') /\ set' = {base' + p : p \in BitsOf(words')}
  <2>1. n = b - base /\ Top(BitsOf(words), numBits) /\ set = {base + p : p \in BitsOf(words)}
    BY <1>2, <1>3, <1>6 DEF NumbersInv, Holds
  <2>2. set' = {x \in set : x >= b} BY <1>3, <1>6
  <2>3. \A p \in BitsOf(words) : p \in Place /\ p \in 0..(numBits - 1) /\ p \in Nat
    BY <2>1 DEF BitsOf, Top, Place
  <2>4. CASE n < numBits
    <3>1. numBits' = numBits - n /\ numBits' > 0 /\ numBits' - 1 \in Place
      <4>1. numBits \in 0..NumberSet!NBITS BY <1>3, <1>6, CountFits
      <4> QED BY <1>1, <1>3, <2>4, <4>1 DEF Place
    <3>2. BitsOf(words') = {p \in Place : p + n \in BitsOf(words)} BY <1>4, <2>4
    <3>3. Top(BitsOf(words'), numBits')
      <4>1. ASSUME NEW p \in BitsOf(words') PROVE p \in 0..(numBits' - 1)
        <5>1. p \in Nat /\ p + n \in 0..(numBits - 1) BY <2>3, <3>2 DEF Place
        <5> QED BY <1>1, <3>1, <5>1
      <4>2. numBits' - 1 \in BitsOf(words')
        <5>1. numBits' - 1 + n = numBits - 1 /\ numBits > 0 BY <1>1, <2>4, <3>1
        <5>2. numBits - 1 \in BitsOf(words) BY <2>1, <5>1 DEF Top
        <5> QED BY <3>1, <3>2, <5>1, <5>2
      <4> QED BY <4>1, <4>2 DEF Top
    <3>4. ASSUME NEW x \in set' PROVE x \in {b + p : p \in BitsOf(words')}
      <4>1. PICK p \in BitsOf(words) : x = base + p /\ x >= b BY <2>1, <2>2
      <4>2. p \in Nat /\ p \in Place BY <2>3
      <4>3. x - b \in Place /\ x - b + n = p /\ b + (x - b) = x BY <1>1, <2>1, <4>1, <4>2 DEF Place
      <4>4. x - b \in BitsOf(words') BY <3>2, <4>3
      <4> QED BY <4>3, <4>4
    <3>5. ASSUME NEW p \in BitsOf(words') PROVE b + p \in set'
      <4>1. p \in Nat /\ p + n \in BitsOf(words) BY <3>2 DEF Place
      <4>2. base + (p + n) \in set BY <2>1, <4>1
      <4>3. base + (p + n) = b + p /\ b + p >= b BY <1>1, <2>1, <4>1
      <4> QED BY <2>2, <4>2, <4>3
    <3> QED BY <3>3, <3>4, <3>5
  <2>5. CASE ~(n < numBits)
    <3>1. n >= numBits BY <1>1, <2>5
    <3>2. numBits' = 0 /\ BitsOf(words') = {} BY <1>3, <1>4, <3>1
    <3>3. set' = {}
      <4>1. \A p \in BitsOf(words) : ~(base + p >= b) BY <1>1, <2>1, <2>3, <3>1
      <4> QED BY <2>1, <2>2, <4>1
    <3> QED BY <3>2, <3>3, NoBitsAre
  <2> QED BY <2>4, <2>5
<1> QED BY <1>5, <1>6 DEF NumbersInv, Holds

\* A row that is filled from its end on, each place from the one behind it, exists.
Fills(h, E, n, z) == \A i \in 0..n : h[i] = E[i][IF i = n THEN z ELSE h[i + 1]]

LEMMA FilledFromEnd ==
    ASSUME NEW D, NEW n \in Nat, NEW E \in [0..n -> [D -> D]], NEW z \in D
    PROVE  \E h \in [0..n -> D] : Fills(h, E, n, z)
<1> DEFINE Filled(h, m) == \A i \in 0..n : i >= n - m => h[i] = E[i][IF i = n THEN z ELSE h[i + 1]]
           Short == {m \in Nat : ~\E h \in [0..n -> D] : Filled(h, m)}
<1>1. Short = {}
  <2> SUFFICES ASSUME Short # {} PROVE FALSE OBVIOUS
  <2>1. PICK m \in Short : \A k \in Short : m <= k
    <3>1. Short \in SUBSET Nat OBVIOUS
    <3> HIDE DEF Short
    <3> QED BY <3>1, LeastOf
  <2>2. ASSUME NEW x \in Nat, NEW h \in [0..n -> D], Filled(h, x) PROVE x \notin Short BY <2>2
  <2>7. m \in Nat OBVIOUS
  <2> HIDE DEF Short
  <2>3. m # 0
    <3> SUFFICES ASSUME m = 0 PROVE FALSE OBVIOUS
    <3> DEFINE h == [i \in 0..n |-> E[n][z]]
    <3>1. n \in 0..n /\ \A i \in 0..n : i >= n - 0 => i = n OBVIOUS
    <3>2. h \in [0..n -> D] BY <3>1
    <3>3. \A i \in 0..n : i >= n - 0 => h[i] = E[i][IF i = n THEN z ELSE h[i + 1]] BY <3>1
    <3> HIDE DEF h
    <3>4. Filled(h, 0) BY <3>3
    <3> HIDE DEF Filled
    <3> QED BY <2>1, <2>2, <2>7, <3>2, <3>4
  <2>4. PICK h \in [0..n -> D] : Filled(h, m - 1)
    <3>1. m - 1 \in Nat /\ ~(m <= m - 1) BY <2>3, <2>7
    <3>2. m - 1 \notin Short BY <2>1, <3>1
    <3> HIDE DEF Filled
    <3> QED BY <3>1, <3>2 DEF Short
  <2>5. CASE m > n
    <3>1. \A i \in 0..n : i >= n - (m - 1) BY <2>5, <2>7
    <3>2. Filled(h, m) BY <2>4, <3>1
    <3> HIDE DEF Filled
    <3> QED BY <2>1, <2>2, <2>7, <3>2
  <2>6. CASE ~(m > n)
    <3> PICK j \in 0..n : j = n - m BY <2>6, <2>7
    <3>1. j + 1 \in 0..n /\ j # n BY <2>3, <2>6, <2>7
    <3> DEFINE e == E[j][h[j + 1]]
               g == [i \in 0..n |-> IF i = j THEN e ELSE h[i]]
    <3>2. e \in D BY <3>1
    <3>3. g \in [0..n -> D]
      <4> HIDE DEF e
      <4> QED BY <3>2
    <3>4. ASSUME NEW i \in 0..n, i >= n - m PROVE g[i] = E[i][IF i = n THEN z ELSE g[i + 1]]
      <4>1. CASE i = j
        <5>1. g[j + 1] = h[j + 1] /\ g[j] = e BY <3>1
        <5> HIDE DEF g
        <5> QED BY <3>1, <4>1, <5>1
      <4>2. CASE i # j
        <5>1. i >= n - (m - 1) /\ (i # n => i + 1 \in 0..n /\ i + 1 # j) BY <2>7, <3>4, <4>2
        <5>2. g[i] = h[i] /\ (i # n => g[i + 1] = h[i + 1]) BY <4>2, <5>1
        <5>3. h[i] = E[i][IF i = n THEN z ELSE h[i + 1]] BY <2>4, <5>1
        <5> HIDE DEF g
        <5> QED BY <5>2, <5>3
      <4> QED BY <4>1, <4>2
    <3> HIDE DEF g, e
    <3>5. Filled(g, m) BY <3>4
    <3> HIDE DEF Filled
    <3> QED BY <2>1, <2>2, <2>7, <3>3, <3>5
  <2> QED BY <2>5, <2>6
<1>2. n \notin Short BY <1>1
<1>3. PICK h \in [0..n -> D] : Filled(h, n)
  <2> HIDE DEF Filled
  <2> QED BY <1>2
<1>4. \A i \in 0..n : i >= n - n OBVIOUS
<1>5. \A i \in 0..n : h[i] = E[i][IF i = n THEN z ELSE h[i + 1]] BY <1>3, <1>4
<1> QED BY <1>5 DEF Fills


\* Whatever shift_map_right leaves are words.
LEMMA ShiftRightIsWords ==
    ASSUME words \in Words, NEW n \in Nat, NEW junk \in SUBSET NumberSet!Offset
    PROVE  NumberSet!ShiftRight(n, junk) \in Words
<1>1. B \in Nat \ {0} /\ NITEMS \in Nat \ {0} BY WordRules
<1>2. PICK q \in Int, k \in 0..(B - 1) : q = n \div B /\ k = n % B BY <1>1
<1> DEFINE D == SUBSET NumberSet!Offset
           last == NITEMS - 1
           Next1(i, x) == IF i = 0 THEN NumberSet!Shl(words[0], k)
                          ELSE NumberSet!Shr(words[i], k) \cup NumberSet!Shr(x, B - k)
           Is(g) == g = [i \in NumberSet!Word |->
                            IF i = 0 THEN NumberSet!Shl(words[0], k)
                            ELSE NumberSet!Shr(words[i], k)
                                 \cup NumberSet!Shr(IF i = last THEN junk ELSE g[i + 1], B - k)]
           inPlace == CHOOSE g : Is(g)
<1>3. /\ \A i \in NumberSet!Word : words[i] \in D
      /\ \A x \in D : NumberSet!Shl(x, k) \in D /\ NumberSet!Shr(x, k) \in D /\ NumberSet!Shr(x, B - k) \in D
  BY ShiftsAreWords DEF Words
<1>4. 0 \in NumberSet!Word /\ NumberSet!Word = 0..last /\ last \in Nat BY <1>1 DEF NumberSet!Word
<1>5. ASSUME NEW i \in NumberSet!Word, NEW x \in D PROVE Next1(i, x) \in D
  <2>1. words[0] \in D /\ words[i] \in D BY <1>3, <1>4
  <2>2. NumberSet!Shl(words[0], k) \in D /\ NumberSet!Shr(words[i], k) \in D /\ NumberSet!Shr(x, B - k) \in D
    BY <1>3, <2>1
  <2> QED BY <2>2
<1>6. \E g : Is(g)
  <2> DEFINE E == [i \in 0..last |-> [x \in D |-> Next1(i, x)]]
  <2>1. E \in [0..last -> [D -> D]]
    <3> HIDE DEF Next1, last, D
    <3> QED BY <1>4, <1>5
  <2>2. PICK h \in [0..last -> D] : Fills(h, E, last, junk)
    <3>1. junk \in D /\ last \in Nat BY <1>4
    <3> HIDE DEF E, last, D, Next1, Is, inPlace
    <3> QED BY ONLY <2>1, <3>1, FilledFromEnd
  <2>3. ASSUME NEW i \in NumberSet!Word
        PROVE  h[i] = Next1(i, IF i = last THEN junk ELSE h[i + 1])
    <3>1. (IF i = last THEN junk ELSE h[i + 1]) \in D
      <4>1. i # last => i + 1 \in 0..last BY <1>4
      <4> QED BY <4>1
    <3> PICK x \in D : x = IF i = last THEN junk ELSE h[i + 1] BY <3>1
    <3>2. h[i] = E[i][x] /\ i \in 0..last BY <1>4, <2>2 DEF Fills
    <3> HIDE DEF Next1
    <3>3. E[i][x] = Next1(i, x) BY <3>2
    <3> QED BY <3>2, <3>3
  <2>4. h = [i \in NumberSet!Word |-> h[i]] BY <1>4
  <2>5. Is(h) BY <2>3, <2>4
  <2> QED BY <2>5
<1>7. Is(inPlace)
  <2> HIDE DEF Is
  <2> QED BY <1>6
<1>8. NumberSet!ShiftRight(n, junk) =
          CASE k = 0 -> [i \in NumberSet!Word |-> IF i > last - q THEN {} ELSE IF i < q THEN words[i] ELSE words[i - q]]
            [] k # 0 /\ q = 0 -> inPlace
            [] k # 0 /\ q > 0 ->
                 [i \in NumberSet!Word |-> IF i < q THEN {} ELSE IF i = q THEN NumberSet!Shl(words[0], k)
                     ELSE NumberSet!Shr(words[i - q], k) \cup NumberSet!Shr(words[i - q + 1], B - k)]
  BY <1>2 DEF NumberSet!ShiftRight
<1> HIDE DEF inPlace
<1>9. inPlace \in Words
  <2> DEFINE Other == {m \in 0..last : inPlace[last - m] \notin D}
  <2>1. \A i \in NumberSet!Word : inPlace[i] = Next1(i, IF i = last THEN junk ELSE inPlace[i + 1])
    BY <1>7
  <2>2. Other = {}
    <3> SUFFICES ASSUME Other # {} PROVE FALSE OBVIOUS
    <3>1. PICK m \in Other : \A j \in Other : m <= j
      <4>1. Other \in SUBSET Nat OBVIOUS
      <4> HIDE DEF Other
      <4> QED BY <4>1, LeastOf
    <3> PICK i \in NumberSet!Word : i = last - m BY <1>4
    <3>2. (IF i = last THEN junk ELSE inPlace[i + 1]) \in D
      <4>1. CASE i = last BY <4>1
      <4>2. CASE i # last
        <5>1. m - 1 \in 0..last /\ ~(m <= m - 1) /\ last - (m - 1) = i + 1 BY <1>4, <4>2
        <5>2. m - 1 \notin Other BY <3>1, <5>1
        <5>3. inPlace[last - (m - 1)] \in D BY <5>1, <5>2
        <5> QED BY <4>2, <5>1, <5>3
      <4> QED BY <4>1, <4>2
    <3>3. inPlace[i] \notin D OBVIOUS
    <3> HIDE DEF Next1, Other
    <3> QED BY <1>5, <2>1, <3>2, <3>3
  <2>3. ASSUME NEW i \in NumberSet!Word PROVE inPlace[i] \in D
    <3>1. last - i \in 0..last /\ last - (last - i) = i BY <1>4
    <3> QED BY <2>2, <3>1
  <2>4. inPlace = [i \in NumberSet!Word |-> inPlace[i]] BY <1>7
  <2> HIDE DEF Is, Next1
  <2> QED BY <2>3, <2>4 DEF Words
<1>10. q >= 0
  <2> SUFFICES ASSUME q <= -1 PROVE FALSE BY <1>2
  <2>1. n = q * B + k BY <1>1, <1>2
  <2>2. q * B <= -1 * B BY <1>1, ProductGrows
  <2> QED BY <1>1, <2>1, <2>2
<1> HIDE DEF Is, Next1
<1>11. ASSUME NEW i \in NumberSet!Word, ~(i < q)
       PROVE  i - q \in NumberSet!Word /\ (i # q /\ q > 0 => i - q + 1 \in NumberSet!Word)
  BY <1>1, <1>10, <1>11 DEF NumberSet!Word
<1>12. CASE k = 0
  <2>1. NumberSet!ShiftRight(n, junk) =
            [i \in NumberSet!Word |-> IF i > last - q THEN {} ELSE IF i < q THEN words[i] ELSE words[i - q]]
    BY <1>8, <1>12
  <2> QED BY <1>3, <1>11, <2>1 DEF Words
<1>13. CASE k # 0 /\ q = 0 BY <1>8, <1>9, <1>13
<1>14. CASE k # 0 /\ q > 0
  <2>1. NumberSet!ShiftRight(n, junk) =
            [i \in NumberSet!Word |-> IF i < q THEN {} ELSE IF i = q THEN NumberSet!Shl(words[0], k)
                ELSE NumberSet!Shr(words[i - q], k) \cup NumberSet!Shr(words[i - q + 1], B - k)]
    BY <1>8, <1>14
  <2>2. ASSUME NEW i \in NumberSet!Word, ~(i < q), i # q
        PROVE  NumberSet!Shr(words[i - q], k) \cup NumberSet!Shr(words[i - q + 1], B - k) \in D
    <3>1. words[i - q] \in D /\ words[i - q + 1] \in D BY <1>3, <1>11, <1>14, <2>2
    <3>2. NumberSet!Shr(words[i - q], k) \in D /\ NumberSet!Shr(words[i - q + 1], B - k) \in D
      BY <1>3, <3>1
    <3> QED BY <3>2
  <2>3. NumberSet!Shl(words[0], k) \in D BY <1>3, <1>4
  <2> QED BY <2>1, <2>2, <2>3 DEF Words
<1> QED BY <1>10, <1>12, <1>13, <1>14

\* The window moves down: nothing is promised of it but that it has words and bits.
LEMMA MoveDownHolds ==
    ASSUME NumbersInv, wide' = wide, NEW b \in NumberSet!Tried(Bases),
           NumberSet!MoveDown(b), base' = b, rangeMax' = b + NumberSet!NBITS - 1
    PROVE  NumbersInv'
<1>1. /\ base \in Nat /\ b \in Nat /\ NumberSet!NBITS \in Nat \ {0} /\ M \in Nat \ {0}
      /\ numBits \in Nat /\ words \in Words
  BY BaseIs, WordRules, CountFits DEF NumbersInv, SetTyped
<1>2. PICK n \in Nat : n = NumberSet!Diff(base, b)
  <2>1. (base - b) % M \in Nat BY <1>1
  <2> QED BY <2>1 DEF NumberSet!Diff
<1>3. exact' = FALSE BY DEF NumberSet!MoveDown
<1>4. words' \in Words /\ numBits' \in 0..NumberSet!NBITS
  <2>1. CASE n >= NumberSet!NBITS
    <3>1. words' = NumberSet!NoBits /\ numBits' = 0 BY <1>2, <2>1 DEF NumberSet!MoveDown
    <3> QED BY <1>1, <3>1, NoBitsAre
  <2>2. CASE ~(n >= NumberSet!NBITS)
    <3>1. /\ \E junk \in SUBSET NumberSet!Offset : words' = NumberSet!ShiftRight(n, junk)
          /\ numBits' = IF numBits + n <= NumberSet!NBITS THEN numBits + n
                        ELSE NumberSet!HighestBit(words', NITEMS, n \div B)
      BY <1>2, <2>2 DEF NumberSet!MoveDown
    <3>2. words' \in Words BY <1>1, <3>1, ShiftRightIsWords
    <3>3. n \div B \in Int /\ NITEMS \in Int BY WordRules
    <3>4. NumberSet!HighestBit(words', NITEMS, n \div B) \in 0..NumberSet!NBITS BY <3>3, HighestIs
    <3>5. numBits + n <= NumberSet!NBITS => numBits + n \in 0..NumberSet!NBITS BY <1>1
    <3> QED BY <3>1, <3>2, <3>4, <3>5
  <2> QED BY <2>1, <2>2
<1>5. SetTyped'
  <2>1. b \in NumberSet!Tried(Bases)' BY Retried
  <2>2. rangeMax' \in Nat /\ rangeMax' < base' + NumberSet!NBITS BY <1>1
  <2>3. numBits' \in 0..(M - 1) BY <1>4, CountFits
  <2> QED BY <1>3, <1>4, <2>1, <2>2, <2>3 DEF NumbersInv, SetTyped
<1> QED BY <1>3, <1>5 DEF NumbersInv, Holds

LEMMA NumbersStay == NumbersInv /\ [NumberSet!Next]_bits => NumbersInv'
<1> SUFFICES ASSUME NumbersInv, [NumberSet!Next]_bits PROVE NumbersInv' OBVIOUS
<1>1. CASE NumberSet!Next
  <2>1. wide' = wide BY <1>1 DEF NumberSet!Next
  <2>2. ASSUME NEW b \in NumberSet!Tried(Bases), NumberSet!UpdateBase(b) PROVE NumbersInv'
    <3>1. /\ base' = b /\ rangeMax' = b + NumberSet!NBITS - 1
          /\ (b > base /\ NumberSet!MoveUp(b)) \/ NumberSet!MoveDown(b)
      BY <2>2 DEF NumberSet!UpdateBase
    <3> QED BY <2>1, <3>1, MoveUpHolds, MoveDownHolds
  <2>3. ASSUME NEW b \in NumberSet!Tried(Bases), NEW m \in 0..NumberSet!NBITS, NumberSet!Rebase(b, m)
        PROVE  NumbersInv'
    <3>1. wide' \in BOOLEAN
      BY <2>1, <2>3 DEF NumbersInv, SetTyped, NumberSet!Rebase
    <3>2. b \in NumberSet!Tried(Bases)' BY <2>1, Retried
    <3> QED BY <2>3, <3>1, <3>2, EmptyHolds DEF NumberSet!Rebase
  <2>4. ASSUME NEW x \in NumberSet!Tried(Items), NumberSet!Add(x) PROVE NumbersInv'
    BY <2>1, <2>4, AddHolds DEF NumberSet!Tried
  <2>5. ASSUME NEW x \in NumberSet!Tried(Items), NumberSet!Remove(x) PROVE NumbersInv'
    BY <2>1, <2>5, RemoveHolds DEF NumberSet!Tried
  <2>6. ASSUME NEW x \in NumberSet!Tried(Items), NEW y \in NumberSet!Tried(Items), NumberSet!AddRange(x, y)
        PROVE  NumbersInv'
    BY <2>1, <2>6, AddRangeHolds DEF NumberSet!Tried
  <2>7. ASSUME NEW n \in 0..(NumberSet!NBITS + 1), NEW ws \in [NumberSet!Word -> SUBSET NumberSet!Offset],
               NumberSet!SetBitmap(n, ws)
        PROVE  NumbersInv'
    BY <2>1, <2>7, SetBitmapHolds DEF Words
  <2> QED BY <1>1, <2>2, <2>3, <2>4, <2>5, <2>6, <2>7 DEF NumberSet!Next
<1>2. CASE UNCHANGED bits
  <2>1. SetTyped' BY <1>2 DEF bits, NumbersInv, SetTyped, NumberSet!Tried
  <2>2. Holds' BY <1>2 DEF bits, NumbersInv, Holds
  <2> QED BY <2>1, <2>2 DEF NumbersInv
<1> QED BY <1>1, <1>2


\* What the invariant says of for_each, isSet, min and max ...
LEMMA SetIsMeant == NumbersInv => NumberSet!TypeOK /\ NumberSet!Exact
<1> SUFFICES ASSUME NumbersInv PROVE NumberSet!TypeOK /\ NumberSet!Exact OBVIOUS
<1>1. /\ base \in Nat /\ NumberSet!NBITS \in Nat \ {0} /\ words \in Words /\ rangeMax \in Nat
      /\ numBits \in Nat /\ (exact => numBits \in 0..NumberSet!NBITS)
  BY BaseIs, WordRules, CountFits DEF NumbersInv, SetTyped
<1>2. \A p \in BitsOf(words) : p \in Nat /\ p \in Place BY DEF BitsOf, Place
<1>3. exact => Top(BitsOf(words), numBits) /\ set = {base + p : p \in BitsOf(words)}
  BY DEF NumbersInv, Holds
<1>4. NumberSet!TypeOK
  <2>1. ASSUME exact PROVE numBits = NumberSet!HighestBit(words, NITEMS, 0)
    <3>1. NITEMS \in Int /\ \A p \in BitsOf(words) : p \div B \in 0..(NITEMS - 1)
      BY <1>2, WordOf, WordRules DEF NumberSet!Word
    <3> PICK h \in Nat : h = NumberSet!HighestBit(words, NITEMS, 0) /\ Top(BitsOf(words), h)
      BY <3>1, HighestIs
    <3> QED BY <1>1, <1>3, <2>1, OneTop
  <2> QED BY <1>1, <2>1 DEF NumbersInv, SetTyped, NumberSet!TypeOK, Words
<1>5. ASSUME exact
      PROVE  /\ NumberSet!Visited = set
             /\ {x \in Items : NumberSet!IsSet(x)} = {x \in Items \cap set : x <= rangeMax}
             /\ set # {} => NumberSet!Minimum = NumberSet!Min(set) /\ NumberSet!Maximum = NumberSet!Max(set)
  <2>1. \A p \in BitsOf(words) : p \in 0..(numBits - 1) /\ p < numBits BY <1>1, <1>3, <1>5 DEF Top
  <2>2. NumberSet!Visited = set
    <3>1. \A p \in BitsOf(words) : p \div B < (numBits + B - 1) \div B
      <4> SUFFICES ASSUME NEW p \in BitsOf(words) PROVE p \div B < (numBits + B - 1) \div B OBVIOUS
      <4> PICK c \in Int : c = (numBits + B - 1) \div B BY <1>1, WordRules
      <4>1. p \in Place /\ p < numBits /\ numBits \in Nat BY <1>1, <1>2, <2>1
      <4>2. p \div B \in 0..(c - 1) BY <4>1, WordsTaken
      <4> QED BY <4>2
    <3>2. {p \in Place : p \div B < (numBits + B - 1) \div B /\ NumberSet!At(words, p)} = BitsOf(words)
      BY <3>1 DEF BitsOf
    <3> QED BY <1>3, <1>5, <3>2 DEF NumberSet!Visited, Place
  <2>3. ASSUME NEW x \in Items
        PROVE  NumberSet!IsSet(x) <=> x \in set /\ x <= rangeMax
    <3>1. x \in Nat BY BitmapAssumption
    <3>2. x \in set <=> x - base \in BitsOf(words)
      <4>1. \A p \in BitsOf(words) : base + p = x <=> x - base = p BY <1>1, <1>2, <3>1
      <4> QED BY <1>3, <1>5, <4>1
    <3>3. ASSUME x - base \in BitsOf(words), x <= rangeMax PROVE NumberSet!IsSet(x)
      <4>1. x - base \in Nat /\ x - base < numBits /\ NumberSet!At(words, x - base)
        BY <1>2, <2>1, <3>3 DEF BitsOf
      <4>2. x \in base..rangeMax BY <1>1, <3>1, <3>3, <4>1
      <4> QED BY <4>1, <4>2 DEF NumberSet!IsSet
    <3>4. ASSUME NumberSet!IsSet(x) PROVE x - base \in BitsOf(words) /\ x <= rangeMax
      <4>1. x \in base..rangeMax /\ x - base < numBits /\ NumberSet!At(words, x - base)
        BY <3>4 DEF NumberSet!IsSet
      <4>2. x - base \in Place BY <1>1, <1>5, <4>1 DEF Place
      <4> QED BY <1>1, <4>1, <4>2 DEF BitsOf
    <3> QED BY <3>2, <3>3, <3>4
  <2>4. ASSUME set # {}
        PROVE  NumberSet!Minimum = NumberSet!Min(set) /\ NumberSet!Maximum = NumberSet!Max(set)
    <3>1. NumberSet!Minimum = NumberSet!Min(set) BY <2>2, <2>4 DEF NumberSet!Minimum
    <3>2. numBits > 0
      <4>1. PICK p \in BitsOf(words) : TRUE BY <1>3, <1>5, <2>4
      <4> QED BY <1>1, <1>2, <2>1
    <3>3. NumberSet!Maximum = base + numBits - 1 BY <1>5, <3>2, MaximumIs
    <3> DEFINE m == base + (numBits - 1)
    <3>4. m \in set BY <1>3, <1>5, <3>2 DEF Top
    <3>5. set \in SUBSET Int /\ \A x \in set : x <= m
      <4>1. \A p \in BitsOf(words) : base + p \in Int /\ base + p <= m BY <1>1, <1>2, <2>1
      <4> HIDE DEF m
      <4> QED BY <1>3, <1>5, <4>1
    <3>6. m = base + numBits - 1 BY <1>1
    <3> HIDE DEF m
    <3>7. Max(set) = m BY <3>4, <3>5, MaxIs
    <3> QED BY <3>1, <3>3, <3>6, <3>7, SameExtreme
  <2>5. {x \in Items : NumberSet!IsSet(x)} = {x \in Items \cap set : x <= rangeMax} BY <2>3
  <2> QED BY <2>2, <2>4, <2>5
<1> QED BY <1>4, <1>5 DEF NumberSet!Exact

\* ... and of the bitmap that is sent.
LEMMA BitmapIsSet == NumbersInv => NumberSet!SameByBitmap
<1> SUFFICES ASSUME NumbersInv, exact PROVE NumberSet!Loaded(numBits, words) = words
  BY DEF NumberSet!SameByBitmap
<1>1. /\ numBits \in 0..NumberSet!NBITS /\ words \in Words /\ NumberSet!NBITS \in Nat
      /\ Top(BitsOf(words), numBits)
  BY WordRules, CountFits DEF NumbersInv, SetTyped, Holds
<1>2. numBits \in 0..(NumberSet!NBITS + 1) /\ numBits <= NumberSet!NBITS BY <1>1
<1>3. /\ NumberSet!Loaded(numBits, words) \in Words
      /\ BitsOf(NumberSet!Loaded(numBits, words)) = {p \in BitsOf(words) : p < numBits}
  BY <1>1, <1>2, LoadedIs
<1>4. {p \in BitsOf(words) : p < numBits} = BitsOf(words)
  <2>1. \A p \in BitsOf(words) : p \in 0..(numBits - 1) BY <1>1 DEF Top
  <2> QED BY <1>1, <2>1
<1> QED BY <1>1, <1>3, <1>4, SameBits

\* Any number and width of the words and any numbers: until a call does what its name does
\* not say (updateBase down or 2^32 up, setBitmap with more bits than there are, remove from
\* an empty set of a number behind its window), and again after the next base, the bits are
\* the numbers that were put in, not taken out and not passed by the window, as for_each,
\* isSet, min and max show them, and whoever receives the bitmap has the same set.
THEOREM BitsAreKept == PartsSpec => []BitsAreTheSet
<1>1. PartsInit => NumbersInv
  <2> SUFFICES ASSUME NumberSet!Init PROVE NumbersInv BY DEF PartsInit
  <2>1. PICK b \in NumberSet!Tried(Bases), m \in 0..NumberSet!NBITS :
            /\ base = b /\ rangeMax = b + NumberSet!Min({m, NumberSet!NBITS - 1})
            /\ words = NumberSet!NoBits /\ numBits = 0
            /\ set = {} /\ exact = TRUE
    BY DEF NumberSet!Init
  <2>2. b \in Nat /\ NumberSet!NBITS \in Nat \ {0} BY BaseIs, WordRules
  <2>3. rangeMax \in Nat /\ rangeMax < base + NumberSet!NBITS
    <3>1. NumberSet!Min({m, NumberSet!NBITS - 1}) = IF m <= NumberSet!NBITS - 1 THEN m ELSE NumberSet!NBITS - 1
      BY <2>2, MinOfTwo, SameExtreme
    <3> PICK d \in 0..(NumberSet!NBITS - 1) : d = NumberSet!Min({m, NumberSet!NBITS - 1})
      BY <2>2, <3>1
    <3> QED BY <2>1, <2>2
  <2>4. wide \in BOOLEAN BY DEF NumberSet!Init
  <2>5. words \in Words /\ BitsOf(words) = {} BY <2>1, NoBitsAre
  <2>6. SetTyped
    <3>1. exact \in BOOLEAN BY <2>1
    <3>2. base \in NumberSet!Tried(Bases) /\ numBits \in 0..(M - 1) BY <2>1, WordRules
    <3> QED BY <2>3, <2>4, <2>5, <3>1, <3>2 DEF SetTyped
  <2>7. Holds BY <2>1, <2>5, NoBitsAre DEF Holds
  <2> QED BY <2>6, <2>7 DEF NumbersInv
<1>2. NumbersInv /\ [PartsNext]_parts => NumbersInv'
  <2>1. [PartsNext]_parts => [NumberSet!Next]_bits BY DEF PartsNext, parts
  <2> QED BY <2>1, NumbersStay
<1>3. NumbersInv => BitsAreTheSet BY SetIsMeant, BitmapIsSet DEF BitsAreTheSet
<1> QED BY <1>1, <1>2, <1>3, PTL DEF PartsSpec
=============================================================================
