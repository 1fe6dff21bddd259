------------------------ MODULE MCIntentionLifecycle ------------------------
(* Instances of IntentionLifecycle for TLC.                                 *)
EXTENDS IntentionLifecycle, TLC

CONSTANTS a1, a2, r1, r2, w1, t1

\* Requests are interchangeable: every action treats them alike.
RequestSymmetry == Permutations(Request)

=============================================================================
