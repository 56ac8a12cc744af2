-------------------------------- MODULE Guid ---------------------------------
(***************************************************************************)
(* GUID (guid.h): a prefix and an entity id, compared octet by octet, and  *)
(* its text.  The text is a sequence of characters; operator<< writes two  *)
(* hexadecimal digits for an octet of the prefix, operator>> reads such an *)
(* octet into an unsigned char, which is one character.  The prefix has 12 *)
(* octets in the code, the first 4 for the host and 8 for the process, and *)
(* the entity id 4.                                                        *)
(***************************************************************************)
EXTENDS Integers, Sequences, SequencesExt

CONSTANTS Prefix, Host, Process, Entity,  \* how many octets
          Octet,                          \* values of an octet, 0 among them
          Foreign                         \* characters of texts that operator<< did not write

CharsOfPrefix == 2 * Prefix + 1   \* what the loop of operator>> consumes
Dot == 46
Bar == 124
Digit(n) == IF n < 10 THEN 48 + n ELSE 87 + n
GUID == [prefix : [1..Prefix -> 0..255], entity : [1..Entity -> 0..255]]
Made == [prefix : [1..Prefix -> Octet], entity : [1..Entity -> Octet]]
Unknown == [prefix |-> [i \in 1..Prefix |-> 0], entity |-> [i \in 1..Entity |-> 0]]

VARIABLES a, b,     \* two GUIDs
          from      \* where b was read from: "made", "written" by a, or "foreign"
vars == <<a, b, from>>

\* memcmp: the first octet that differs decides.
Differ(x, y) == {i \in DOMAIN x : x[i] # y[i]}
memcmp(x, y) ==
    IF x = y THEN 0
    ELSE LET i == CHOOSE j \in Differ(x, y) : \A k \in Differ(x, y) : j <= k
         IN  x[i] - y[i]

Less(g1, g2) ==
    LET c == memcmp(g1.prefix, g2.prefix)
    IN  c < 0 \/ (c = 0 /\ memcmp(g1.entity, g2.entity) < 0)

NotEqual(g1, g2) == g1.prefix # g2.prefix \/ g1.entity # g2.entity

isOnSameHostAs(g1, g2) == SubSeq(g1.prefix, 1, Host) = SubSeq(g2.prefix, 1, Host)
isOnSameProcessAs(g1, g2) == SubSeq(g1.prefix, 1, Process) = SubSeq(g2.prefix, 1, Process)

\* operator<<: the prefix in pairs of digits, the digits of the entity unpadded
Shown(o) == IF o < 16 THEN <<Digit(o)>> ELSE <<Digit(o \div 16), Digit(o % 16)>>
Dotted(fields) == FlattenSeq([i \in DOMAIN fields |-> IF i = 1 THEN fields[i] ELSE <<Dot>> \o fields[i]])
Write(g) ==
    IF g = Unknown THEN <<Bar, 71, 85, 73, 68>>
    ELSE Dotted([i \in 1..Prefix |-> <<Digit(g.prefix[i] \div 16), Digit(g.prefix[i] % 16)>>])
         \o <<Bar>> \o Dotted([i \in 1..Entity |-> Shown(g.entity[i])])

\* A text has to have the form c.c...c|.d.d.d, with one c more than the prefix
\* has octets and one d less than the entity.
Readable(s) ==
    /\ Len(s) = CharsOfPrefix + 1 + 2 * (Entity - 1)
    /\ \A i \in 1..Prefix : s[2 * i] = Dot
    /\ s[CharsOfPrefix + 1] = Bar
    /\ \A i \in 1..(Entity - 1) : s[CharsOfPrefix + 2 * i] = Dot /\ s[CharsOfPrefix + 1 + 2 * i] \in 48..57

\* operator>> of GuidPrefix: the loop begins at 0 once more, so the first
\* character is overwritten and the others move up.
ReadPrefix(s) == [i \in 1..Prefix |-> s[2 * i + 1]]

\* operator>> of GUID: all of it, or the unknown GUID.  The first octet of the
\* entity is taken from a variable that nothing was read into; a value above 255
\* there fails like a wrong text.
Read(s) ==
    {Unknown} \cup
    {[prefix |-> ReadPrefix(s),
      entity |-> [i \in 1..Entity |-> IF i = 1 THEN junk ELSE s[CharsOfPrefix + 2 * i - 1] - 48]] :
         junk \in {o \in Octet : Readable(s)}}

Init == a \in Made /\ b \in Made /\ from = "made"

ReadBack ==
    /\ from = "made"
    /\ b' \in Read(Write(a)) /\ from' = "written" /\ UNCHANGED a

\* c.c...c|.d.d...d
ForeignText(c, d) == Dotted([i \in 1..(Prefix + 1) |-> <<c>>]) \o <<Bar>> \o FlattenSeq([i \in 1..(Entity - 1) |-> <<Dot, d>>])
ReadForeign(s) ==
    /\ from = "made"
    /\ b' \in Read(s) /\ from' = "foreign" /\ UNCHANGED a

Next == ReadBack \/ \E c, d \in Foreign : ReadForeign(ForeignText(c, d))

Spec == Init /\ [][Next]_vars

-----------------------------------------------------------------------------
TypeOK == a \in Made /\ b \in GUID /\ from \in {"made", "written", "foreign"}

\* operator< puts the GUIDs in one order, that of their octets read as one row
\* (the map keys of a participant depend on it), and fits == and !=.
OneOrder ==
    /\ Less(a, b) <=> memcmp(a.prefix \o a.entity, b.prefix \o b.entity) < 0
    /\ ~(Less(a, b) /\ Less(b, a))
    /\ NotEqual(a, b) <=> Less(a, b) \/ Less(b, a)

\* Two GUIDs of one process are on one host, and GUIDs of a process lie between
\* no others in the order.
ProcessInsideHost ==
    /\ isOnSameProcessAs(a, b) => isOnSameHostAs(a, b)
    /\ ~isOnSameProcessAs(a, b) =>
           (Less(a, b) <=> memcmp(SubSeq(a.prefix, 1, Process), SubSeq(b.prefix, 1, Process)) < 0)

\* The text of a GUID reads back as the unknown GUID, whatever was written.
ReadBackIsUnknown == from = "written" => b = Unknown

=============================================================================
