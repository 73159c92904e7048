---------------------------- MODULE MCEnforcement ----------------------------
(***************************************************************************)
(* Small instances of Enforcement: two PIDs that are reused, and processes *)
(* of two users or two applications.                                       *)
(***************************************************************************)
EXTENDS Enforcement

CONSTANTS alice, bob, game, chess

One == {1}
Two == {1, 2}
OneUser == {alice}
TwoUsers == {alice, bob}
OneApp == {game}
TwoApps == {game, chess}
=============================================================================
