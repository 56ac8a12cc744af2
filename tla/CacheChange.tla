----------------------------- MODULE CacheChange -----------------------------
(***************************************************************************)
(* The fragments of a CacheChange (cache_change.h).  The fragments not yet *)
(* received form a list whose nodes, the index of the next missing one in  *)
(* four bytes each, lie in the payload buffer.  nextFragmentPointer says   *)
(* where: it masks the offset with 3 where rounding up to a multiple of 4  *)
(* needs the complement of 3, so that a node begins at byte 0, 1, 2 or 3   *)
(* of the payload, whatever its fragment.  If fragment sizes are multiples *)
(* of 4 all nodes are the bytes 3 to 6; else nodes overlap and overwrite   *)
(* parts of each other.  The first seven bytes of the payload are modelled *)
(* one by one, an index filling the lowest byte of its node (there are     *)
(* fewer than 256 fragments); what lies behind the end of a block shorter  *)
(* than that may be anything at each call.                                 *)
(***************************************************************************)
EXTENDS Integers, FiniteSets, FiniteSetsExt

CONSTANTS MaxLength,       \* the largest payload
          Lengths,         \* payload lengths
          Sizes,           \* fragment sizes
          W,               \* 32-bit numbers are modulo W
          Data             \* what the first bytes of copied data, or of other memory, may be

FAR == MaxLength + 1       \* any index or byte beyond the last fragment
NodeBytes == 0..6
Byte == 0..FAR

ASSUME LengthAssumption == MaxLength \in Nat /\ W \in Nat /\ W > 2 * MaxLength /\ Sizes \subseteq Nat
ASSUME LengthsAssumption == Lengths \subseteq 0..MaxLength
ASSUME DataAssumption == Data \subseteq [NodeBytes -> Byte]

VARIABLES len, max,        \* length and max_size of serialized_payload
          size, count, first,  \* fragment_size_, _count_, first_missing_fragment_
          head,            \* the bytes of the payload that may hold nodes
          hung,            \* a walk along the list does not end
          received,        \* history: the fragments whose data was copied in
          refused,         \* a payload copy was refused: len is another's
                           \* and of the sample the change holds:
          overWrite, overRead,  \* memcpy left the payload, or the incoming data
          nodeOutside      \* a node was written behind the payload's block

vars == <<len, max, size, count, first, head, hung, received, refused, overWrite, overRead,
          nodeOutside>>

Fragment == 0..(MaxLength - 1)

\* fragment_count_
Fragments(l, s) == IF s = 0 THEN 0 ELSE (l + s - 1) \div s

Init ==
    /\ max \in Lengths /\ len = 0
    /\ size = 0 /\ count = 0 /\ first = 0
    /\ head = [b \in NodeBytes |-> 0] /\ hung = FALSE
    /\ received = {} /\ refused = FALSE
    /\ overWrite = FALSE /\ overRead = FALSE /\ nodeOutside = FALSE

\* nextFragmentPointer
NodeOf(i, s) == (i * s + 3) % 4

\* The list setFragmentSize builds: a byte is what the last node on it made it.
FreshList(old, n, s) ==
    [b \in NodeBytes |-> LET on == {i \in 0..(n - 1) : b \in NodeOf(i, s)..(NodeOf(i, s) + 3)}
                    IN  IF on = {} THEN old[b]
                        ELSE IF b = NodeOf(Max(on), s) THEN Max(on) + 1 ELSE 0]

\* setFragmentSize(fragment_size, create_fragment_list) on a payload of length l
SetFragmentSize(l, s, create) ==
    /\ l <= max
    /\ len' = l /\ size' = s /\ count' = Fragments(l, s)
    /\ first' = IF create THEN 0 ELSE count'
    /\ head' = IF create THEN FreshList(head, count', s) ELSE head
    /\ nodeOutside' = (create /\ \E i \in 0..(count' - 1) : NodeOf(i, s) + 4 > max)
    /\ received' = IF create THEN {} ELSE 0..(count' - 1)
    /\ refused' = FALSE
    /\ overWrite' = FALSE /\ overRead' = FALSE
    /\ UNCHANGED <<max, hung>>

CopyFields(l, s, complete) ==
    /\ len' = l /\ size' = s /\ count' = Fragments(l, s)
    /\ first' = IF complete THEN count' ELSE 0
    /\ overWrite' = FALSE /\ overRead' = FALSE /\ nodeOutside' = FALSE
    /\ UNCHANGED hung

\* memcpy of a payload of length l: its data, or its own list over it
CopyPayload(l, s, complete) ==
    /\ \E data \in Data :
          LET from == IF complete THEN data ELSE FreshList(data, count', s)
          IN  head' = [b \in NodeBytes |-> IF b < l THEN from[b] ELSE head[b]]
    /\ received' = IF complete THEN 0..(count' - 1) ELSE {}
    /\ refused' = FALSE

\* Slip: the payload does not grow.
CopyWithoutGrowing(l, s, complete, untyped) ==
    /\ CopyFields(l, s, complete)
    /\ IF l > max /\ ~untyped
       THEN refused' = TRUE /\ UNCHANGED <<max, head, received>>
       ELSE UNCHANGED max /\ CopyPayload(l, s, complete)

\* copy, from a change of length l that is complete or has no fragment yet: the
\* fragment fields and the length are taken over before the payload is looked
\* at; a typed change refuses one that does not fit.
Copy(l, s, complete, untyped) ==
    /\ CopyFields(l, s, complete)
    /\ IF l > max /\ ~untyped
       THEN refused' = TRUE /\ UNCHANGED <<max, head, received>>
       ELSE max' = Max({max, l}) /\ CopyPayload(l, s, complete)

\* The payload as a call finds it: behind its block may be anything.
Found == {[b \in NodeBytes |-> IF b < max THEN head[b] ELSE rest[b]] : rest \in Data}

\* getNextMissingFragment, the payload beginning with the bytes h
Following(h, i) ==
    LET p == NodeOf(i, size)
    IN  IF \A k \in 1..3 : h[p + k] = 0 THEN h[p] ELSE FAR

\* getNextMissingFragment, repeated from i while the result is before last: there
\* are no more than count such fragments, or the loop never ends.
Walk(h, i, last) ==
    LET to[k \in 0..count] ==
            IF k = 0 THEN i
            ELSE LET at == to[k - 1] IN IF at >= last THEN at ELSE Following(h, at)
    IN  to
Skip(h, i, last) == Walk(h, i, last)[count]
LastBefore(h, i, last) ==
    Walk(h, i, last)[Max({k \in 0..count : Walk(h, i, last)[k] < last})]

\* receivedFragments: the first missing fragment that is not before initial ...
Reached(h, initial) == Skip(h, first, initial)
Loops(h, initial, last) ==
    \/ Reached(h, initial) < initial
    \/ Skip(h, Reached(h, initial), last) < last

\* ... is it one of initial..last-1?
Changes(h, initial, last) == Reached(h, initial) < last

\* Then first_missing_fragment_ or the node before them becomes the fragment
\* that follows them: the bytes of the last of their nodes are copied.
Unlinked(h, initial, last) ==
    IF initial <= first THEN h
    ELSE LET p == NodeOf(LastBefore(h, first, initial), size)
             q == NodeOf(LastBefore(h, Reached(h, initial), last), size)
         IN  [b \in NodeBytes |-> IF b \in p..(p + 3) THEN h[q + (b - p)] ELSE h[b]]

\* Slip: < instead of <=.
FirstMissingBehind(h, initial, last) ==
    IF initial < first THEN Skip(h, first, last) ELSE first

FirstMissing(h, initial, last) ==
    IF initial <= first THEN Skip(h, first, last) ELSE first
OutsideNode(h, initial) ==
    initial > first /\ NodeOf(LastBefore(h, first, initial), size) + 4 > max

\* memcpy of n bytes to the payload, nodes or not
CopyIn(h, offset, n, incoming) ==
    /\ \E data \in Data :
          head' = [b \in NodeBytes |-> IF b \in offset..(offset + n - 1) THEN data[b] ELSE h[b]]
    /\ overWrite' = (overWrite \/ offset + n > max)
    /\ overRead' = (overRead \/ n > incoming)

Offset(start) == ((start - 1) * size) % W
LastIndex(start, n) == (start + n - 1) % W
Length(start, n) == IF LastIndex(start, n) < count THEN (size * n) % W ELSE (len - Offset(start)) % W

\* the checks of addFragments, in 32-bit arithmetic
Accepted(start, n, incoming) ==
    /\ LastIndex(start, n) <= count
    /\ LastIndex(start, n) < count => incoming >= Length(start, n)
    /\ (Offset(start) + Length(start, n)) % W <= len

\* addFragments(incoming_data, fragment_starting_num, fragments_in_submessage)
AddFragments(start, n, incoming) ==
    LET initial == (start - 1) % W
        last == Min({(initial + n) % W, count})
    IN  /\ Accepted(start, n, incoming)
        /\ size > 0 /\ initial < count
        /\ \E h \in Found :
             \/ /\ Loops(h, initial, last)
                /\ hung' = TRUE
                /\ UNCHANGED <<first, head, received, overWrite, overRead, nodeOutside>>
             \/ /\ ~Loops(h, initial, last)
                /\ Changes(h, initial, last)
                /\ first' = FirstMissing(h, initial, last)
                /\ CopyIn(Unlinked(h, initial, last), Offset(start), Length(start, n), incoming)
                /\ nodeOutside' = (nodeOutside \/ OutsideNode(h, initial))
                /\ received' = received \cup initial..(last - 1)
                /\ UNCHANGED hung
        /\ UNCHANGED <<len, max, size, count, refused>>

Assembled == first >= count

\* getMissingFragments (numbers start at 1), if it ends
MissingFragments(h) == {i + 1 : i \in {Walk(h, first, count)[k] : k \in 0..count} \cap 0..(count - 1)}
GetMissingFragments ==
    /\ \E h \in Found : Skip(h, first, count) < count
    /\ hung' = TRUE
    /\ UNCHANGED <<len, max, size, count, first, head, received, refused, overWrite, overRead,
                   nodeOutside>>

Next ==
    /\ ~hung
    /\ \/ \E l \in Lengths, s \in Sizes, b \in BOOLEAN :
             SetFragmentSize(l, s, b) \/ \E u \in BOOLEAN : Copy(l, s, b, u)
       \/ \E start, n \in 0..(MaxLength + 1) \cup {W - 1}, incoming \in Lengths :
             AddFragments(start, n, incoming)
       \/ GetMissingFragments

Spec == Init /\ [][Next]_vars

-----------------------------------------------------------------------------
TypeOK ==
    /\ len \in 0..MaxLength /\ max \in 0..MaxLength
    /\ size \in Sizes \cup {0} /\ count \in 0..MaxLength /\ first \in 0..FAR
    /\ head \in [NodeBytes -> Byte] /\ hung \in BOOLEAN
    /\ received \subseteq Fragment
    /\ refused \in BOOLEAN /\ (refused => len > max)
    /\ overWrite \in BOOLEAN /\ overRead \in BOOLEAN /\ nodeOutside \in BOOLEAN

\* All nodes are bytes 3 to 6, which the payload has.
OneNode == size % 4 = 0 /\ len >= 7

\* Whatever fragment numbers and counts arrive, fragment data stays inside the
\* payload, unless a copy was refused: then the length is that of the data that
\* did not fit.  Incoming data that is shorter than the fragments it announces
\* is read past its end only with the last fragment of the sample (once, if all
\* nodes are one).  A node is written outside if the block has no seven bytes.
StaysWithin ==
    /\ overWrite' /\ ~overWrite => refused
    /\ overRead' /\ ~overRead /\ ~refused =>
          count - 1 \in received' /\ (OneNode => count - 1 \notin received)
    /\ nodeOutside' /\ ~nodeOutside => max' < 7

\* As the code is, a sample is never complete before its first fragment came.  If
\* fragment sizes are multiples of four and the payload has seven bytes, that one
\* alone completes it, any other that arrives before it is dropped, and no call
\* loops for ever; with other sizes it may.
FirstFragmentDecides ==
    /\ ~refused /\ count > 0 =>
          /\ Assembled => 0 \in received
          /\ OneNode => /\ 0 \in received => Assembled
                        /\ ~Assembled => received = {} /\ MissingFragments(head) = {1}
    /\ hung => refused \/ ~OneNode
=============================================================================
