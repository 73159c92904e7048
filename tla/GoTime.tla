------------------------------- MODULE GoTime -------------------------------
(***************************************************************************)
(* The instants of Go's package time as the daemon uses them.  An instant  *)
(* that time.Now returned carries a wall clock reading and a monotonic     *)
(* one; the monotonic clock of Linux does not move while the machine is    *)
(* suspended or when somebody sets the wall clock.  An instant that was    *)
(* built by time.Date, or read back from JSON, has a wall reading only.    *)
(* Comparison and subtraction use the monotonic readings when both         *)
(* instants have one and the wall readings otherwise.                      *)
(***************************************************************************)
EXTENDS Integers

Instant == [wall : Int, mono : Int, hasMono : BOOLEAN]

\* time.Now: both clocks are read.
Reading(w, m) == [wall |-> w, mono |-> m, hasMono |-> TRUE]

\* time.Date, and an instant decoded from JSON.
WallOnly(w) == [wall |-> w, mono |-> 0, hasMono |-> FALSE]

\* What remains of an instant after MarshalJSON and UnmarshalJSON.
Stored(t) == WallOnly(t.wall)

\* a.Sub(b)
Sub(a, b) == IF a.hasMono /\ b.hasMono THEN a.mono - b.mono ELSE a.wall - b.wall

\* a.Before(b)
Before(a, b) == Sub(a, b) < 0

\* t.Add(d): both readings move.
Plus(t, d) == [wall |-> t.wall + d,
               mono |-> IF t.hasMono THEN t.mono + d ELSE t.mono,
               hasMono |-> t.hasMono]
=============================================================================
