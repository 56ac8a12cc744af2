------------------------------ MODULE IPv6Text -------------------------------
(***************************************************************************)
(* The text of an IPv6 address (ip_locator.cc): what IPv6isCorrect accepts, *)
(* what setIPv6 makes of it and what toIPv6string writes.  A text is the   *)
(* sequence of its fields, which colons separate: the value of a group,    *)
(* nothing at all, or something that no group is.  A zone behind "%" has no *)
(* colon; it is a sequence of such fields too, as the stream that reads the *)
(* groups takes one character between two of them, whatever it is.  Groups *)
(* is 8 in the code.                                                       *)
(***************************************************************************)
EXTENDS Integers, Sequences, FiniteSets, SequencesExt

CONSTANTS Groups,    \* groups of an address, more than three
          GroupValue, \* values of a group, 0 among them
          Zones      \* zones of texts, <<>> among them for none

Empty == -1
Wrong == -2
Field == GroupValue \cup {Empty, Wrong}
Text == [fields : UNION {[1..n -> Field] : n \in 1..(Groups + 1)}, zone : Zones]
Address == [1..Groups -> GroupValue]

VARIABLES text, addr, ok,   \* a text, the address of the locator, the last result
          read              \* the text has been read into the address
vars == <<text, addr, ok, read>>

Ends(f) == {1, Len(f)}
Double(f) == {i \in 2..(Len(f) - 1) : f[i] = Empty}     \* where "::" is

\* IPv6isCorrect
IPv6isCorrect(f) ==
    /\ Len(f) - 1 \in 2..Groups
    /\ Len(f) - 1 = Groups => \E i \in Ends(f) : f[i] = Empty
    /\ Cardinality(Double(f)) < 2
    /\ f[1] = Empty => 2 \in Double(f)
    /\ f[Len(f)] = Empty => Len(f) - 1 \in Double(f)
    /\ Wrong \notin Range(f)

Padded(f, v) == [g \in 1..Groups |-> IF g <= Len(f) THEN f[g] ELSE v]

\* Slip: one colon of the "::" too many is subtracted.
LeadingOneMore(f, zone) ==
    LET rest == SubSeq(f, 3, Len(f))
    IN  [addr |-> [g \in 1..Groups |-> IF g <= Groups - Len(rest) + 1 THEN 0 ELSE rest[Len(rest) - (Groups - g)]],
         ok |-> zone = <<>>]

\* initial_zeros: zeros, and the groups behind "::" at the end of the address
Leading(f, zone) ==
    LET rest == IF f[Len(f)] = Empty /\ zone = <<>> THEN <<>> ELSE SubSeq(f, 3, Len(f))
    IN  [addr |-> [g \in 1..Groups |-> IF g <= Groups - Len(rest) THEN 0
                                       ELSE rest[Len(rest) - (Groups - g)]],
         ok |-> zone = <<>>]

\* final_zeros: the groups before "::", and then, the stream having ended, the
\* last group again and again, unless it is 65535
Trailing(f) ==
    LET last == f[Len(f) - 2]
    IN  IF last = 65535 THEN [addr |-> Padded(SubSeq(f, 1, Len(f) - 2), 0), ok |-> FALSE]
        ELSE [addr |-> Padded(SubSeq(f, 1, Len(f) - 2), last), ok |-> TRUE]

\* Neither: the fields in order, with those of the zone.  The first that is no
\* group, the one at "::" for example, stops the stream: zeros from there on, and
\* the rest of the text makes the result false.  What is too short is filled with
\* the last group, also when nothing follows the "%".
Stops(s) == {i \in 1..Len(s) : s[i] = Wrong \/ (s[i] = Empty /\ i < Len(s))}
Plain(f, zone) ==
    LET s == f \o zone
        groups == IF Last(s) = Empty THEN Front(s) ELSE s
    IN  IF Stops(s) # {} THEN [addr |-> Padded(SubSeq(s, 1, Min(Stops(s)) - 1), 0), ok |-> FALSE]
        ELSE [addr |-> Padded(groups, Last(groups)), ok |-> Len(s) <= Groups]

\* setIPv6 from a text, on a locator of an IPv6 kind.  A zone takes the place of
\* the last colon as the end of the text.
setIPv6(t, before) ==
    LET f == t.fields
    IN  IF ~IPv6isCorrect(f) THEN [addr |-> before, ok |-> FALSE]
        ELSE IF f[1] = Empty THEN
            IF f[Len(f)] = Empty /\ t.zone # <<>> THEN [addr |-> Padded(<<>>, 0), ok |-> FALSE]
            ELSE Leading(f, t.zone)
        ELSE IF f[Len(f)] = Empty /\ t.zone = <<>> THEN Trailing(f)
        ELSE Plain(f, t.zone)

\* The zero runs of an address, as <<first, size>>.
Runs(a) ==
    {r \in (1..Groups) \X (1..Groups) :
        /\ r[1] + r[2] - 1 <= Groups
        /\ \A g \in r[1]..(r[1] + r[2] - 1) : a[g] = 0
        /\ r[1] = 1 \/ a[r[1] - 1] # 0
        /\ r[1] + r[2] > Groups \/ a[r[1] + r[2]] # 0}

\* The first of the longest runs.
Longest(runs) == CHOOSE r \in runs : \A s \in runs : s[2] < r[2] \/ (s[2] = r[2] /\ r[1] <= s[1])

\* The groups that toIPv6string leaves out, as <<first, size>>: for a run that
\* a group ends, its size is recorded as its place, in octets.
Skipped(a) ==
    LET longest == Longest(Runs(a))
    IN  IF Runs(a) = {} \/ longest[2] < 2 THEN <<0, 0>>
        ELSE IF longest[1] + longest[2] > Groups THEN longest
        ELSE <<(longest[2] + 1) \div 2 + 1, longest[2]>>

\* toIPv6string: a "." where the groups left out are the first
toIPv6string(a) ==
    LET s == Skipped(a)
        behind == SubSeq(a, s[1] + s[2], Groups)
        after == IF s[1] + s[2] - 1 > Groups THEN <<Empty>>
                 ELSE <<Empty>> \o IF behind = <<>> THEN <<Empty>> ELSE behind
    IN  IF s[2] = 0 THEN a
        ELSE IF s[1] = 1 THEN <<Wrong, Empty>>
        ELSE SubSeq(a, 1, s[1] - 1) \o after

Init ==
    /\ text \in Text
    /\ addr = [g \in 1..Groups |-> 0] /\ ok = FALSE /\ read = FALSE

SetIPv6 ==
    /\ ~read
    /\ addr' = setIPv6(text, addr).addr
    /\ ok' = setIPv6(text, addr).ok
    /\ read' = TRUE
    /\ UNCHANGED text

Write ==
    /\ read
    /\ text' = [fields |-> toIPv6string(addr), zone |-> <<>>]
    /\ read' = FALSE
    /\ UNCHANGED <<addr, ok>>

Next == SetIPv6 \/ Write
Spec == Init /\ [][Next]_vars

-----------------------------------------------------------------------------
TypeOK == text \in Text /\ addr \in Address /\ ok \in BOOLEAN /\ read \in BOOLEAN

\* What the fields of a correct text mean: the groups, with zeros for "::".
Meaning(f) ==
    LET i == CHOOSE j \in Double(f) : TRUE
        before == SubSeq(f, IF f[1] = Empty THEN 2 ELSE 1, i - 1)
        behind == IF f[Len(f)] = Empty THEN <<>> ELSE SubSeq(f, i + 1, Len(f))
        zeros == Groups - Len(before) - Len(behind)
    IN  IF Double(f) = {} THEN f
        ELSE [g \in 1..Groups |-> IF g <= Len(before) THEN before[g]
                                  ELSE IF g <= Len(before) + zeros THEN 0
                                  ELSE behind[g - Len(before) - zeros]]
\* "::" stands for at least one group, and without it there are all of them.
Proper(f) == IPv6isCorrect(f) /\ (Double(f) = {} => Len(f) = Groups)

\* An accepted text that is proper has no zone.  It leaves the address it means
\* unless it ends in "::" behind a group that is not 0: then the groups that "::"
\* stands for are that group again, and the address is another one.
OpenEnd(f) == Last(f) = Empty /\ f[Len(f) - 2] \notin {Empty, 0}
AcceptedIsMeant ==
    read /\ ok /\ Proper(text.fields) =>
        /\ text.zone = <<>>
        /\ IF OpenEnd(text.fields)
           THEN LET f == text.fields
                IN  /\ addr = Padded(SubSeq(f, 1, Len(f) - 2), f[Len(f) - 2])
                    /\ addr # Meaning(f)
           ELSE addr = Meaning(text.fields)

\* A text with "::" between two groups is proper and never accepted; the address
\* is left with what stood before the "::" alone.
MiddleRefused ==
    read /\ Proper(text.fields) /\ Double(text.fields) # {} /\ text.fields[1] # Empty /\ Last(text.fields) # Empty
        => /\ ~ok
           /\ LET i == CHOOSE j \in Double(text.fields) : TRUE
              IN  addr = Padded(SubSeq(text.fields, 1, i - 1), 0)

\* The text of an address that was read reads back as that address exactly if the
\* address has no two zero groups side by side.
RoundTrip ==
    LET again == setIPv6([fields |-> toIPv6string(addr), zone |-> <<>>], addr)
        adjacent == \E g \in 1..(Groups - 1) : addr[g] = 0 /\ addr[g + 1] = 0
    IN  read => (again.ok /\ again.addr = addr <=> ~adjacent)
=============================================================================
