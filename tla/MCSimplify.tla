----------------------------- MODULE MCSimplify -----------------------------
(* Instances of Simplify small enough for TLC.                             *)
EXTENDS Simplify

CONSTANTS MaxNet  \* bound on a net balance, either way

AnyNets == [Members -> -MaxNet .. MaxNet]

(* Two that cancel and three that cancel: 3 = 3 and 4 = 2 + 2.             *)
TwoCircles == {<<3, 2, 2, -3, -4>>}
=============================================================================
