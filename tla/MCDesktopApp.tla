---------------------------- MODULE MCDesktopApp -----------------------------
(* DesktopApp for TLC: the values of its constants are in the cfg files.     *)
EXTENDS DesktopApp
=============================================================================
