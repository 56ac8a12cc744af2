------------------------------ MODULE IPLocator ------------------------------
(***************************************************************************)
(* Locators (ip_locator.cc, locator.h): a kind, a port in two halves and   *)
(* 16 octets of address, which an IPv4 locator divides into LAN id (1..8), *)
(* WAN address (9..12) and IPv4 address (13..16).  l is the locator that   *)
(* the operations change.  A dotted text is its numbers and whether        *)
(* something follows them; the text of an IPv6 address is the subject of   *)
(* IPv6Text, and here it is its 16 octets.                                 *)
(***************************************************************************)
EXTENDS Naturals, Sequences, SequencesExt

CONSTANTS Dotted,     \* texts [num: four numbers, rest: BOOLEAN]
          LanText,    \* texts [num: eight numbers, dotted: BOOLEAN]
          Octets16,   \* IPv6 addresses
          Port        \* values of a half of the port

UDPv4 == 1
UDPv6 == 2
TCPv4 == 4
TCPv6 == 8
SHM == 16
Kinds == {UDPv4, UDPv6, TCPv4, TCPv6, SHM}
IPv4Kinds == {UDPv4, TCPv4}
IPv6Kinds == {UDPv6, TCPv6}
Octet == 0..255
Zeros(n) == [i \in 1..n |-> 0]

VARIABLES l,
          mixed,  \* history: parts were written that the kind of l does not have
          last    \* history: the last call was createLocator, setIPv4address with
                  \* a LAN id of eight numbers with dots, or another one
vars == <<l, mixed, last>>

Locator == [kind : Kinds, physical : Port, logical : Port, address : [1..16 -> Octet]]
Part(a, from, quad) == [i \in 1..16 |-> IF i \in from..(from + Len(quad) - 1) THEN quad[i - from + 1] ELSE a[i]]
Octets(nums) == [i \in DOMAIN nums |-> nums[i] % 256]
Lan(x) == SubSeq(x.address, 1, 8)
Wan(x) == SubSeq(x.address, 9, 12)
IPv4(x) == SubSeq(x.address, 13, 16)

\* setIPv4 from a text: the locator left, and whether it returned true.  Numbers
\* with something behind them are written and refused.
WithIPv4(x, t) ==
    IF x.kind \notin IPv4Kinds \/ \E i \in 1..4 : t.num[i] > 255 THEN [loc |-> x, ok |-> FALSE]
    ELSE [loc |-> [x EXCEPT !.address = Part(@, 13, t.num)], ok |-> ~t.rest]

\* setWan from a text: neither the kind, nor the range, nor the end is looked at.
WithWan(x, t) == [loc |-> [x EXCEPT !.address = Part(@, 9, Octets(t.num))], ok |-> TRUE]

\* setLanID reads six numbers with separators and a seventh without one: eight
\* numbers with dots are refused, and the third octet of what is accepted was
\* never assigned.
WithLan(x, t, junk) ==
    IF x.kind # TCPv4 \/ t.dotted THEN [loc |-> x, ok |-> FALSE]
    ELSE LET n == Octets(t.num)
         IN  [loc |-> [x EXCEPT !.address = Part(@, 1, <<n[1], n[2], junk, n[3], n[4], n[5], n[6], n[7]>>)],
              ok |-> TRUE]

Init ==
    \E k \in Kinds, p, q \in Port :
        /\ l = [kind |-> k, physical |-> p, logical |-> q, address |-> Zeros(16)]
        /\ mixed = FALSE /\ last = "create"

ChangePart(x, own) == l' = x /\ mixed' = (mixed \/ ~own) /\ last' = "other"
Change(x) == ChangePart(x, TRUE)
Create(x) == l' = x /\ mixed' = FALSE /\ last' = "create"

\* Slip: the octets of the locator that was there stay.
CreateOnTop(k, t, a, p, q) ==
    LET fresh == [kind |-> k, physical |-> p, logical |-> q, address |-> l.address]
    IN  \/ k \in IPv4Kinds /\ Create(WithIPv4(fresh, t).loc)
        \/ k \in IPv6Kinds /\ Create([fresh EXCEPT !.address = a])
        \/ k = SHM /\ Create(fresh)

\* createLocator, and the constructors of Locator_t: the address is cleared, and
\* set if the kind has one; whether the text was accepted is lost.
CreateLocator(k, t, a, p, q) ==
    LET fresh == [kind |-> k, physical |-> p, logical |-> q, address |-> Zeros(16)]
    IN  \/ k \in IPv4Kinds /\ Create(WithIPv4(fresh, t).loc)
        \/ k \in IPv6Kinds /\ Create([fresh EXCEPT !.address = a])
        \/ k = SHM /\ Create(fresh)

SetIPv4(t) == Change(WithIPv4(l, t).loc)

\* setIPv4 from four octets, or from those of another locator of whatever kind
SetIPv4Octets(t) ==
    /\ l.kind \in IPv4Kinds
    /\ Change([l EXCEPT !.address = Part(@, 13, Octets(t.num))])

\* setIPv6(locator, group0..group7): no look at the kind
SetIPv6(a) == ChangePart([l EXCEPT !.address = a], l.kind \in IPv6Kinds)

SetWan(t) == ChangePart(WithWan(l, t).loc, l.kind = TCPv4)
SetLanID(t) == \E junk \in {0, 255} : Change(WithLan(l, t, junk).loc)

\* setIPv4address: all three or nothing
SetIPv4address(lan, wan, t) ==
    \E junk \in {0, 255} :
        LET x == WithLan(l, lan, junk)
            y == WithWan(x.loc, wan)
            z == WithIPv4(y.loc, t)
        IN  /\ l' = IF x.ok /\ y.ok /\ z.ok THEN z.loc ELSE [l EXCEPT !.address = Zeros(16)]
            /\ last' = IF lan.dotted THEN "dotted" ELSE "other"
            /\ UNCHANGED mixed

SetPhysicalPort(p) == Change([l EXCEPT !.physical = p])

\* setLogicalPort reads the logical half and assigns nothing; toPhysicalLocator,
\* which calls it with 0, returns the locator as it is.
SetLogicalPort(p) == Change(l)

SetPortRTPS(p) ==
    \/ l.kind \in {UDPv4, UDPv6} /\ SetPhysicalPort(p)
    \/ l.kind \in {TCPv4, TCPv6} /\ SetLogicalPort(p)

Next ==
    \/ \E t \in Dotted, p, q \in Port :
          \E k \in Kinds : \E a \in Octets16 : CreateLocator(k, t, a, p, q)
    \/ \E t \in Dotted : SetIPv4(t) \/ SetIPv4Octets(t) \/ SetWan(t)
    \/ \E a \in Octets16 : SetIPv6(a)
    \/ \E t \in LanText : SetLanID(t)
    \/ \E t \in LanText, w, d \in Dotted : SetIPv4address(t, w, d)
    \/ \E p \in Port : SetPhysicalPort(p) \/ SetLogicalPort(p) \/ SetPortRTPS(p)

Spec == Init /\ [][Next]_vars

\* the questions ip_locator.cc answers about a locator
IsZero(octets) == \A i \in DOMAIN octets : octets[i] = 0
IsLoopback(octets) == octets = [Zeros(Len(octets)) EXCEPT ![Len(octets)] = 1]
isEmpty(x) == IF x.kind \in IPv4Kinds THEN IsZero(IPv4(x)) ELSE IsZero(x.address)
hasIPv4(x) == x.kind \in IPv4Kinds /\ ~isEmpty(x)
hasIPv6(x) == x.kind \in IPv6Kinds /\ ~isEmpty(x)
hasWan(x) == x.kind = TCPv4 /\ ~IsZero(Wan(x))
ip_equals_wan(x) == hasWan(x) /\ Wan(x) = IPv4(x)

isLocal(x) == IF x.kind \in IPv4Kinds THEN IPv4(x) = <<127, 0, 0, 1>> ELSE IsLoopback(x.address)
isAny(x) == IF x.kind \in IPv4Kinds THEN IsZero(IPv4(x)) ELSE IsZero(x.address)

\* isMulticast: the branch for UDPv4 comes behind the one that returned false
\* for it, and TCPv4 is tested by the first octet of its LAN id.
isMulticast(x) == x.kind \notin {UDPv4, TCPv6} /\ x.address[1] = 255
compareAddress(x, y, full) ==
    /\ x.kind = y.kind
    /\ IF ~full /\ x.kind \in IPv4Kinds THEN IPv4(x) = IPv4(y) ELSE x.address = y.address
compareAddressAndPhysicalPort(x, y) == compareAddress(x, y, TRUE) /\ x.physical = y.physical

-----------------------------------------------------------------------------
TypeOK == l \in Locator /\ mixed \in BOOLEAN /\ last \in {"create", "dotted", "other"}

\* Of a locator whose parts fit its kind, at most one of isLocal, isAny and
\* isMulticast is true, except for TCPv4, where a LAN id that begins with 255
\* counts as multicast; what has a WAN address equal to its own is not empty.
OneClass ==
    ~mixed => /\ ~(isLocal(l) /\ isAny(l))
              /\ isMulticast(l) /\ l.kind # TCPv4 => ~isLocal(l) /\ ~isAny(l)
              /\ ip_equals_wan(l) => hasIPv4(l)
              /\ hasIPv4(l) \/ hasIPv6(l) => ~isAny(l)

\* A UDPv4 locator without octets that its kind does not have, however it came
\* to its address and port, is for the full comparison the same as the one that
\* createLocator makes of them: what lies in front of the address was cleared.
SameIPv4SameAddress ==
    LET made == [l EXCEPT !.address = Part(Zeros(16), 13, IPv4(l))]
    IN  l.kind = UDPv4 /\ ~mixed => compareAddressAndPhysicalPort(l, made)

\* setIPv4address with a LAN id of eight numbers with dots leaves a locator
\* without any address.
LanIdClears == last = "dotted" => IsZero(l.address)
=============================================================================
