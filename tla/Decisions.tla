----------------------------- MODULE Decisions -----------------------------
(***************************************************************************)
(* How photos are judged: the policy turns the measurements of one photo   *)
(* into a verdict, the selection compares the verdicts of a group.  Both   *)
(* are taken up again by rescore, each from its own columns of the row, so *)
(* that together they are the conjunction of their specifications.         *)
(***************************************************************************)
EXTENDS ScorePolicy, Selection

DecisionsSpec == PolicySpec /\ SelectionSpec

(* A decision follows from what was measured, however often photos are     *)
(* scored again, rescored or configured anew: a rescored verdict is that   *)
(* of a run (rescore_service.py, aesthetic_calibration.py), and the best   *)
(* photo of a group is chosen by the quality stored, not by an earlier     *)
(* choice (layered_decision.py).                                           *)
DecisionsHold == RescoreIsARun /\ SelectionFollowsQuality
=============================================================================
