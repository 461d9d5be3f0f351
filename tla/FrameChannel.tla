---------------------------- MODULE FrameChannel ----------------------------
(***************************************************************************)
(* What framing promises to the two ends of a link (framing.rs: a corrupt  *)
(* frame is detected rather than fed to the parser, and the decoder finds  *)
(* its way back): the receiver gets messages that were sent, each at most  *)
(* once, in the order they were sent.  Messages may be lost.               *)
(***************************************************************************)
EXTENDS Naturals, SequencesExt

VARIABLES sent, got

\* some is all with some of its elements taken out.
IsSubsequence(some, all) ==
    \E place \in [DOMAIN some -> DOMAIN all] :
        /\ \A j, k \in DOMAIN some : j < k => place[j] < place[k]
        /\ \A k \in DOMAIN some : some[k] = all[place[k]]

Init == sent = <<>> /\ got = <<>>

Send == IsStrictPrefix(sent, sent') /\ UNCHANGED got

\* Several at once: one read may complete more than one frame.
Deliver == IsStrictPrefix(got, got') /\ IsSubsequence(got', sent) /\ UNCHANGED sent

Spec == Init /\ [][Send \/ Deliver]_<<sent, got>>
=============================================================================
