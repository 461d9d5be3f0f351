-------------------------- MODULE MCControlEngine ---------------------------
(* Values of the constants of ControlEngine for TLC. *)
EXTENDS ControlEngine

CONSTANTS c1, c2

OneRule == {1}
TwoRules == {1, 2}
OneChannel == {c1}
TwoChannels == {c1, c2}
=============================================================================
