----------------------------- MODULE MCDnsServer -----------------------------
(***************************************************************************)
(* DnsServer with packets of every kind the decoder tells apart.  The      *)
(* letters are 1 (a), 5 (A), 2 (b) and 46 (.); the domains "a" and "b.b"   *)
(* are blocked; the header is one octet and one octet follows the name.    *)
(***************************************************************************)
EXTENDS DnsServer

CONSTANTS c1, c2

MCLower == [octet \in 0..255 |-> IF octet = 5 THEN 1 ELSE octet]
MCBlocked == {<<1>>, <<2, 46, 2>>}

\* The packet that spells a name label by label.
Plain(name) == <<1>> \o FlattenSeq([i \in DOMAIN name |-> <<Len(name[i])>> \o name[i]]) \o <<0, 1>>

\* Names with blocked and other ends, two with a dot inside a label, and the root.
Ordinary ==
  (<<<<1>>>> :> <<1>>) @@ (<<<<5>>>> :> <<5>>) @@ (<<<<2>>, <<1>>>> :> <<2, 46, 1>>)
  @@ (<<<<1>>, <<2>>>> :> <<1, 46, 2>>) @@ (<<<<2, 1>>>> :> <<2, 1>>)
  @@ (<<<<2>>, <<2>>>> :> <<2, 46, 2>>) @@ (<<<<2>>>> :> <<2>>)
  @@ (<<<<1>>, <<2>>, <<2>>>> :> <<1, 46, 2, 46, 2>>)
  @@ (<<<<2, 46, 1>>>> :> <<2, 46, 1>>) @@ (<<<<1, 46>>>> :> <<1, 46>>) @@ (<<>> :> <<>>)

\* Names that go on where a pointer leads, once and twice.
Compressed ==
  (<<1, 1, 2, 192, 6, 1, 1, 1, 0>> :> <<2, 46, 1>>)
  @@ (<<1, 192, 4, 1, 192, 6, 1, 5, 0>> :> <<5>>)

\* No question, two questions, no octet after the name, reserved bits, a label and a
\* pointer that end outside, pointers to themselves, to a label before them and
\* outside, one pointer too many.
Nameless ==
  {<<>>, <<2, 1, 1, 0, 1>>, <<1, 1, 1, 0>>, <<1, 64, 1>>, <<1, 3, 1, 1>>, <<1, 192>>,
   <<1, 192, 1, 1>>, <<1, 1, 1, 192, 1, 1>>, <<1, 192, 9, 1>>,
   <<1, 192, 4, 1, 192, 6, 192, 8, 1, 1, 0>>}

MCPackets == {Plain(name) : name \in DOMAIN Ordinary} \cup DOMAIN Compressed \cup Nameless

\* The format gives every packet the name that is meant.
ASSUME ReadAsMeant ==
  /\ \A name \in DOMAIN Ordinary : Asks(Plain(name)) = {Ordinary[name]}
  /\ \A p \in DOMAIN Compressed : Asks(p) = {Compressed[p]}
  /\ \A p \in Nameless : Asks(p) = {}

\* Blocked are a, A, b.a, b.b, a.b.b, and the labels "b.a" and "a.".
ASSUME BlockedAsMeant ==
  {name \in DOMAIN Ordinary : AsksBlocked(Plain(name))}
    = {<<<<1>>>>, <<<<5>>>>, <<<<2>>, <<1>>>>, <<<<2>>, <<2>>>>, <<<<1>>, <<2>>, <<2>>>>,
       <<<<2, 46, 1>>>>, <<<<1, 46>>>>}
=============================================================================
