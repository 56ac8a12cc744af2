----------------------------- MODULE BitmapRange -----------------------------
(***************************************************************************)
(* BitmapRange (fixed_size_bitmap.h): a set of numbers in the window that  *)
(* starts at base_, kept as one bit per number in NITEMS words.  A word is *)
(* the set of the offsets of its bits, 0 the most significant.  The        *)
(* history variable set is the set a reader of the interface expects;      *)
(* exact says that it is defined: setBitmap with more bits than there are, *)
(* moving base_ down and moving it up by 2^32 or more do not do what their *)
(* names say, and remove of a number the window cannot hold, which an      *)
(* empty set accepts, changes memory behind the words.                     *)
(***************************************************************************)
EXTENDS Integers, FiniteSets, FiniteSetsExt

CONSTANTS B,       \* bits in a word (32)
          NITEMS,  \* words
          Bases, Items, \* the numbers tried as base_ and as arguments
          M        \* numbers of bits are counted modulo M (2^32)

NBITS == B * NITEMS

VARIABLES wide,    \* the template's argument: SequenceNumber, else uint32_t
          base, rangeMax, words, numBits, set, exact

vars == <<wide, base, rangeMax, words, numBits, set, exact>>

Offset == 0..(B - 1)
Word == 0..(NITEMS - 1)
NoBits == [i \in Word |-> {}]
Shl(w, k) == {o - k : o \in {p \in w : p >= k}}
Shr(w, k) == {o + k : o \in {p \in w : p + k < B}}
At(ws, p) == p % B \in ws[p \div B]
Plus(x, n) == IF wide THEN x + (n % M) ELSE (x + n) % M

\* The numbers tried; 32-bit ones are so small that a window holds no overflow.
Tried(S) == {x \in S : wide \/ x < M - NBITS}

Init ==
    /\ wide \in BOOLEAN
    /\ \E b \in Tried(Bases), m \in 0..NBITS :
        /\ base = b
        /\ rangeMax = b + Min({m, NBITS - 1})
        /\ words = NoBits /\ numBits = 0
        /\ set = {} /\ exact = TRUE

\* base(base) and base(base, max_bits)
Rebase(b, m) ==
    /\ base' = b
    /\ rangeMax' = b + Min({m, NBITS - 1})
    /\ words' = NoBits /\ numBits' = 0
    /\ set' = {} /\ exact' = TRUE

\* calc_maximum_bit_set over the words from least on, below start
HighestBit(ws, start, least) ==
    LET found == {p \in 0..(NBITS - 1) : p \div B \in least..(start - 1) /\ At(ws, p)}
    IN  IF found = {} THEN 0 ELSE Max(found) + 1

\* Slip: what crosses a word boundary is lost.
ShiftLeftNoCarry(n) ==
    LET q == n \div B IN
    IF n >= numBits THEN NoBits
    ELSE [i \in Word |-> IF i + q < NITEMS THEN Shl(words[i + q], n % B) ELSE {}]

\* shift_map_left: the words after base_ moved up by n
ShiftLeft(n) ==
    LET q == n \div B
        k == n % B
        Old(i) == IF i < NITEMS THEN words[i] ELSE {}
    IN  IF n >= numBits THEN NoBits
        ELSE [i \in Word |-> Shl(Old(i + q), k) \cup Shr(Old(i + q + 1), B - k)]

\* shift_map_right as written, n < NBITS.  The word after the array is read
\* (junk), the bits that cross a boundary are taken from the wrong side and,
\* when no whole word is skipped, from a word already replaced; a move by whole
\* words clears the upper words instead of the lower ones.
ShiftRight(n, junk) ==
    LET q == n \div B
        k == n % B
        last == NITEMS - 1
        inPlace[i \in Word] ==
            IF i = 0 THEN Shl(words[0], k)
            ELSE Shr(words[i], k) \cup Shr(IF i = last THEN junk ELSE inPlace[i + 1], B - k)
    IN  CASE k = 0 -> [i \in Word |-> IF i > last - q THEN {} ELSE IF i < q THEN words[i] ELSE words[i - q]]
          [] k # 0 /\ q = 0 -> inPlace
          [] k # 0 /\ q > 0 ->
               [i \in Word |-> IF i < q THEN {} ELSE IF i = q THEN Shl(words[0], k)
                               ELSE Shr(words[i - q], k) \cup Shr(words[i - q + 1], B - k)]

\* the distance of two numbers, in 32 bits
Diff(x, y) == (x - y) % M

MoveUp(b) ==
    LET n == Diff(b, base) IN
    /\ words' = ShiftLeft(n)
    /\ numBits' = IF n >= numBits THEN 0 ELSE numBits - n
    /\ exact' = (exact /\ b - base < M)
    /\ set' = {x \in set : x >= b /\ exact'}

MoveDown(b) ==
    LET n == Diff(base, b) IN
    /\ set' = {} /\ exact' = FALSE
    /\ IF n >= NBITS
       THEN words' = NoBits /\ numBits' = 0
       ELSE /\ \E junk \in SUBSET Offset : words' = ShiftRight(n, junk)
            /\ numBits' = IF numBits + n <= NBITS THEN numBits + n
                          ELSE HighestBit(words', NITEMS, n \div B)

\* updateBase; the number of bits the window was limited to is forgotten.
UpdateBase(b) ==
    /\ b # base
    /\ IF b > base THEN MoveUp(b) ELSE MoveDown(b)
    /\ base' = b
    /\ rangeMax' = b + NBITS - 1

SetBits(ps) ==
    words' = [i \in Word |-> words[i] \cup {o \in Offset : i * B + o \in ps}]

Add(x) ==
    /\ x \in base..rangeMax
    /\ SetBits({x - base})
    /\ numBits' = Max({x - base + 1, numBits})
    /\ set' = set \cup {y \in {x} : exact}
    /\ UNCHANGED <<base, rangeMax, exact>>

\* addRange: the numbers from..to-1 the bits can hold, whatever range_max_ is
AddRange(from, to) ==
    LET lo == Max({base, from})
        hi == Min({to, base + NBITS})
    IN  /\ lo < hi
        /\ SetBits((lo - base)..(hi - base - 1))
        /\ numBits' = Max({numBits, hi - base})
        /\ set' = set \cup {y \in lo..(hi - 1) : exact}
        /\ UNCHANGED <<base, rangeMax, exact>>

Maximum == Plus(base, numBits - 1)

ClearBit(x) ==
    /\ words' = [i \in Word |-> words[i] \ {o \in Offset : i * B + o = x - base}]
    /\ set' = set \ {x}
    /\ UNCHANGED <<base, rangeMax, exact>>

\* remove.  max() of an empty set is base_ - 1 as an unsigned number, which may be
\* larger than any number the bits can hold: then a bit of memory behind the words
\* is cleared and the search for the highest bit may begin there.  num_bits_ is
\* behind the words itself, and anything may be found.
Remove(x) ==
    /\ x \in base..Maximum
    /\ IF x - base < NBITS
       THEN /\ ClearBit(x)
            /\ numBits' = IF x = Maximum THEN HighestBit(words', (x - base) \div B + 1, 0)
                          ELSE numBits
       ELSE /\ numBits' \in 0..(M - 1)
            /\ set' = {} /\ exact' = FALSE
            /\ UNCHANGED <<base, rangeMax, words>>

\* setBitmap: what is kept of a bitmap of n bits.  The last word is cut off by
\* the number of bits the caller gave, not by the number that fits.
Loaded(n, ws) ==
    LET size == Min({n, NBITS})
        items == (size + B - 1) \div B
    IN  [i \in Word |-> IF i >= items THEN {}
                        ELSE IF i = items - 1 /\ n % B # 0 THEN {o \in ws[i] : o < n % B} ELSE ws[i]]

SetBitmap(n, ws) ==
    /\ words' = Loaded(n, ws)
    /\ numBits' = HighestBit(words', (Min({n, NBITS}) + B - 1) \div B, 0)
    /\ exact' = (n <= NBITS)
    /\ set' = {base + p : p \in {p \in 0..(NBITS - 1) : exact' /\ p < n /\ At(ws, p)}}
    /\ UNCHANGED <<base, rangeMax>>

\* isSet, min and for_each
IsSet(x) == x \in base..rangeMax /\ x - base < numBits /\ At(words, x - base)
Visited == {base + p : p \in {p \in 0..(NBITS - 1) : p \div B < (numBits + B - 1) \div B /\ At(words, p)}}
Minimum == IF Visited = {} THEN base ELSE Min(Visited)

Next ==
    /\ \/ \E b \in Tried(Bases) : UpdateBase(b) \/ \E m \in 0..NBITS : Rebase(b, m)
       \/ \E x \in Tried(Items) : Add(x) \/ Remove(x)
       \/ \E x, y \in Tried(Items) : AddRange(x, y)
       \/ \E n \in 0..(NBITS + 1), ws \in [Word -> SUBSET Offset] : SetBitmap(n, ws)
    /\ UNCHANGED wide

Spec == Init /\ [][Next]_vars

-----------------------------------------------------------------------------
\* Types; num_bits_ is the place of the last bit set.
TypeOK ==
    /\ wide \in BOOLEAN /\ base \in Tried(Bases) /\ rangeMax \in Nat
    /\ words \in [Word -> SUBSET Offset]
    /\ numBits \in 0..(M - 1)
    /\ exact \in BOOLEAN
    /\ exact => numBits = HighestBit(words, NITEMS, 0)

\* After any sequence of operations that sets no more bits than there are, moves
\* base_ neither down nor 2^32 up at once and removes from an empty set no number
\* behind its window, for_each visits exactly the numbers that were added and
\* neither removed nor passed by the window, isSet is true of those within
\* range_max_, and min and max are the least and the greatest.
Exact ==
    exact =>
        /\ Visited = set
        /\ {x \in Items : IsSet(x)} = {x \in Items \cap set : x <= rangeMax}
        /\ set # {} => Minimum = Min(set) /\ Maximum = Max(set)

\* A set sent as base_ and getBitmap and received with base and setBitmap is
\* the same set, however many words it uses.
SameByBitmap == exact => Loaded(numBits, words) = words
=============================================================================
