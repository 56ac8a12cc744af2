------------------------------ MODULE MCValues ------------------------------
(***************************************************************************)
(* The values of the system, for TLC: sequence numbers, times, locators    *)
(* and their texts, GUIDs, properties and the sizes of share stacks.  A    *)
(* behaviour stays in one part, chosen in its initial state; the variables *)
(* of the other parts are 0.                                               *)
(***************************************************************************)
EXTENDS SequenceNumber, Sequences

CONSTANTS
    Half, Limit, SECOND,
    Groups, GroupValue, Zones,
    DottedTexts, LanTexts, Addresses, Ports,
    Prefix, Host, Process, Entity, OctetValues, Foreign,
    Size, MaxProps,
    Requests, MinSize, DefaultSize, PageSize

VARIABLES
    part,
    t, d, mark, total, span, elapsed, overflow,
    text, addr, ok, read,
    locator, mixed, last,
    guid, other, from,
    binary, props,
    asked, stack, failed

ASSUME TimeAssumption == Half \in Nat \ {0} /\ SECOND \in Nat
ASSUME TextAssumption == Groups \in Nat /\ Groups > 3 /\ GroupValue \subseteq Nat /\ 0 \in GroupValue
ASSUME LocatorAssumption ==
    /\ \A q \in DottedTexts : q.num \in [1..4 -> Nat] /\ q.rest \in BOOLEAN
    /\ \A q \in LanTexts : q.num \in [1..8 -> Nat] /\ q.dotted \in BOOLEAN
    /\ Addresses \subseteq [1..16 -> 0..255]
ASSUME GuidAssumption ==
    /\ Prefix \in Nat \ {0} /\ Entity \in Nat \ {0}
    /\ Process \in 0..Prefix /\ Host \in 0..Process
    /\ OctetValues \subseteq 0..255 /\ Foreign \subseteq 0..255
ASSUME PropertyAssumption == Size \subseteq Nat /\ 0 \in Size /\ MaxProps \in Nat
ASSUME StackAssumption ==
    /\ Requests \subseteq Nat /\ PageSize \in Nat \ {0}
    /\ MinSize \in Nat /\ DefaultSize \in Nat /\ 40 < MinSize /\ MinSize <= DefaultSize

Timer == INSTANCE TimeArithmetic
Text6 == INSTANCE IPv6Text
ASSUME ZoneAssumption == Zones \subseteq Seq(Text6!Field) /\ <<>> \in Zones
Place == INSTANCE IPLocator WITH
    Dotted <- DottedTexts, LanText <- LanTexts, Octets16 <- Addresses, Port <- Ports, l <- locator
Guids == INSTANCE Guid WITH Octet <- OctetValues, a <- guid, b <- other
Announced == INSTANCE Properties
Stacks == INSTANCE ShareStackSize WITH aborted <- failed

times == <<t, d, mark, total, span, elapsed, overflow>>
texts == <<text, addr, ok, read>>
places == <<locator, mixed, last>>
guids == <<guid, other, from>>
properties == <<binary, props>>
stacks == <<asked, stack, failed>>
parts == <<part, vars, times, texts, places, guids, properties, stacks>>

AllSteps == 0..(W - 1)
SomeZones == {<<>>, <<-1>>, <<1>>, <<1, -2>>}   \* none, "%", "%1" and "%1x"
SomeRequests == 0..300
Quad(w, x, y, z, rest) == [num |-> <<w, x, y, z>>, rest |-> rest]
SomeDotted ==
    {Quad(0, 0, 0, 0, FALSE), Quad(127, 0, 0, 1, FALSE), Quad(224, 0, 0, 1, FALSE),
     Quad(10, 1, 2, 300, FALSE), Quad(10, 1, 2, 3, TRUE)}
SomeLans == {[num |-> <<255, 0, 0, 0, 0, 0, 0, 2>>, dotted |-> dotted] : dotted \in BOOLEAN}
Zero16 == [i \in 1..16 |-> 0]
SomeAddresses ==
    {Zero16, [Zero16 EXCEPT ![16] = 1],
     [Zero16 EXCEPT ![1] = 255, ![2] = 2, ![13] = 127, ![16] = 1]}

PartsInit ==
    /\ part \in {"number", "time", "text", "locator", "guid", "property", "stack"}
    /\ Init
    /\ IF part = "time" THEN Timer!Init
       ELSE t = 0 /\ d = 0 /\ mark = 0 /\ total = 0 /\ span = 0 /\ elapsed = 0 /\ overflow = 0
    /\ IF part = "text" THEN Text6!Init ELSE text = 0 /\ addr = 0 /\ ok = 0 /\ read = 0
    /\ IF part = "locator" THEN Place!Init ELSE locator = 0 /\ mixed = 0 /\ last = 0
    /\ IF part = "guid" THEN Guids!Init ELSE guid = 0 /\ other = 0 /\ from = 0
    /\ IF part = "property" THEN Announced!Init ELSE binary = 0 /\ props = 0
    /\ IF part = "stack" THEN Stacks!Init ELSE asked = 0 /\ stack = 0 /\ failed = 0

PartsNext ==
    /\ UNCHANGED part
    /\ \/ /\ part = "number" /\ Next
          /\ UNCHANGED <<times, texts, places, guids, properties, stacks>>
       \/ /\ part = "time" /\ Timer!Next
          /\ UNCHANGED <<vars, texts, places, guids, properties, stacks>>
       \/ /\ part = "text" /\ Text6!Next
          /\ UNCHANGED <<vars, times, places, guids, properties, stacks>>
       \/ /\ part = "locator" /\ Place!Next
          /\ UNCHANGED <<vars, times, texts, guids, properties, stacks>>
       \/ /\ part = "guid" /\ Guids!Next
          /\ UNCHANGED <<vars, times, texts, places, properties, stacks>>
       \/ /\ part = "property" /\ Announced!Next
          /\ UNCHANGED <<vars, times, texts, places, guids, stacks>>
       \/ /\ part = "stack" /\ Stacks!Next
          /\ UNCHANGED <<vars, times, texts, places, guids, properties>>

PartsSpec == PartsInit /\ [][PartsNext]_parts

-----------------------------------------------------------------------------
\* Times and durations are the numbers they stand for, across every wrap of the
\* 64 bits, and times compare as they follow each other unless one lies between.
TimesAreExact ==
    part = "time" =>
        /\ Timer!TypeOK /\ Timer!TimeIsTotal /\ Timer!DurationIsSpan
        /\ Timer!SinceIsElapsed /\ Timer!OrderAgreesUnlessWrapped

\* What the readers of addresses and GUIDs make of a text: an accepted address is
\* the one meant but for texts that end in "::" behind a group, its own text reads back unless it has zeros side by side, and
\* the text of a GUID reads back as the unknown one.
TextsReadBack ==
    /\ part = "text" => Text6!TypeOK /\ Text6!AcceptedIsMeant /\ Text6!MiddleRefused /\ Text6!RoundTrip
    /\ part = "guid" => Guids!TypeOK /\ Guids!ReadBackIsUnknown

\* Addresses and GUIDs classify and compare consistently: a locator is in one
\* class and equal to what createLocator makes of its parts, and GUIDs are in one
\* order that keeps the entities of a process together.
NamesAgree ==
    /\ part = "locator" => Place!TypeOK /\ Place!OneClass /\ Place!LanIdClears /\ Place!SameIPv4SameAddress
    /\ part = "guid" => Guids!OneOrder /\ Guids!ProcessInsideHost

\* The sizes that are computed in advance fit: a buffer holds the properties to
\* be written, and a stack what was asked for, with its limit above the guard page.
SizesFit ==
    /\ part = "property" => Announced!TypeOK /\ Announced!SizeIsLayout
    /\ part = "stack" => Stacks!TypeOK /\ Stacks!LargeEnough /\ Stacks!LimitInsideArea
=============================================================================
