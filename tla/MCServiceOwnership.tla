------------------------- MODULE MCServiceOwnership -------------------------
(* Values of the constants of ServiceOwnership for TLC. *)
EXTENDS ServiceOwnership

CONSTANTS s1, s2, s3, d1

TwoServices == {s1, s2}
OneDesktop == {d1}
=============================================================================
