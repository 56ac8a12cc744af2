------------------------------ MODULE Properties ------------------------------
(***************************************************************************)
(* Property, BinaryProperty and the serialized sizes that PropertyHelper   *)
(* and BinaryPropertyHelper announce (property.h, binary_property.h).      *)
(* props is a sequence of properties, all of one of the two classes;       *)
(* strings and octet vectors are reduced to their sizes.                   *)
(***************************************************************************)
EXTENDS Integers, Sequences, SequencesExt

CONSTANTS Size,       \* sizes of names and values, 0 among them
          MaxProps    \* length of the sequence

VARIABLES binary, props
vars == <<binary, props>>

Property == [name : Size, value : Size, propagate : BOOLEAN]

\* (4 - at % 4) & 3
alignment(at) == (4 - (at % 4)) % 4

\* Slip: the value begins where the name ends.
SizeUnaligned(p, at) ==
    IF p.propagate THEN 4 + alignment(at) + p.name + 1 + 4 + p.value + (IF binary THEN 0 ELSE 1) ELSE 0

\* serialized_size of one property: the length and the characters of its name and
\* of its value, a text with the 0 at its end
serialized_size(p, at) ==
    LET afterName == at + 4 + alignment(at) + p.name + 1
        afterValue == afterName + 4 + alignment(afterName) + p.value + (IF binary THEN 0 ELSE 1)
    IN  IF p.propagate THEN afterValue - at ELSE 0

\* serialized_size of the sequence, whose number of properties comes first
TotalSize(at) ==
    FoldLeft(LAMBDA end, p : end + serialized_size(p, end), at + 4 + alignment(at), props) - at

Init == binary \in BOOLEAN /\ props = <<>>

Made(n, v) == [name |-> n, value |-> v, propagate |-> FALSE]

\* The constructors, and the property put behind the others.  BinaryProperty's
\* constructor of a name and a value leaves the flag as the memory was.
Construct(n, v) ==
    /\ Len(props) < MaxProps
    /\ \/ props' = Append(props, Made(n, v))
       \/ binary /\ props' = Append(props, [Made(n, v) EXCEPT !.propagate = TRUE])
    /\ UNCHANGED binary

SetName(i, n) == props' = [props EXCEPT ![i].name = n] /\ UNCHANGED binary
SetValue(i, v) == props' = [props EXCEPT ![i].value = v] /\ UNCHANGED binary
SetPropagate(i, f) ==
    props' = [props EXCEPT ![i].propagate = f] /\ UNCHANGED binary

Assign(i, j) == props' = [props EXCEPT ![i] = props[j]] /\ UNCHANGED binary

\* Assigning from one that is given up: its strings are left empty, its flag
\* stays.  That of BinaryProperty takes a const argument, and copies.
Move(i, j) ==
    /\ i # j
    /\ IF binary THEN Assign(i, j)
       ELSE props' = [props EXCEPT ![i] = props[j], ![j].name = 0, ![j].value = 0] /\ UNCHANGED binary

Next ==
    \/ \E n, v \in Size : Construct(n, v)
    \/ \E i \in DOMAIN props :
          \/ \E n \in Size : SetName(i, n) \/ SetValue(i, n)
          \/ \E f \in BOOLEAN : SetPropagate(i, f)
          \/ \E j \in DOMAIN props : Assign(i, j) \/ Move(i, j)

Spec == Init /\ [][Next]_vars

-----------------------------------------------------------------------------
TypeOK == binary \in BOOLEAN /\ props \in UNION {[1..n -> Property] : n \in 0..MaxProps}

\* The message itself, octet by octet: lengths at multiples of 4, and what they
\* announce.
Zeros(n) == [i \in 1..n |-> 0]
PutLength(m, n) == m \o Zeros(CHOOSE k \in 0..3 : (Len(m) + k) % 4 = 0) \o <<n, 0, 0, 0>>
PutCounted(m, n) == PutLength(m, n) \o Zeros(n)
PutProperty(m, p) ==
    IF p.propagate THEN PutCounted(PutCounted(m, p.name + 1), p.value + (IF binary THEN 0 ELSE 1)) ELSE m
Message(start) == FoldLeft(PutProperty, PutLength(Zeros(start), Len(props)), props)

\* The announced size is that of the message, wherever in a larger message it
\* begins: a buffer allocated by it is neither too small nor too large.
SizeIsLayout == \A at \in 0..4 : TotalSize(at) = Len(Message(at)) - at
=============================================================================
