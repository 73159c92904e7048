--------------------------- MODULE MCControlSocket ---------------------------
(***************************************************************************)
(* A small instance of ControlSocket and the WebFilter within: reloads add *)
(* and remove users, change and exchange their domains, have too many      *)
(* users to filter, or name a user who has another one's UID.              *)
(***************************************************************************)
EXTENDS ControlSocket

CONSTANTS alice, bob, carol, dave, video, chat, lpctl1, lpctl2, indicator

AllUsers == {alice, bob, carol, dave}
AllUids == {1, 2, 3}
AllDomains == {video, chat}

\* The second has more users with domains than there are ports, the last one two
\* users who have one UID, or one who does not exist.
SomeConfigs == {[u \in {alice, bob} |-> IF u = alice THEN {video} ELSE {chat}],
                [u \in {alice, bob, carol} |-> {chat}],
                [u \in {bob, carol} |-> IF u = bob THEN {video, chat} ELSE {}],
                [u \in {alice, dave} |-> {}]}

Numbers == [u \in {alice, bob, carol} |-> CASE u = alice -> 1 [] u = bob -> 3 [] u = carol -> 2]

\* dave comes and goes, with alice's UID.
SomeDatabases == { Numbers, [u \in AllUsers |-> IF u = dave THEN 1 ELSE Numbers[u]] }

TwoLpctls == {lpctl1, lpctl2}
OneIndicator == {indicator}
AlicesOwn == [i \in Indicators |-> 1]
=============================================================================
