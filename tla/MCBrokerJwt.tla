---------------------------- MODULE MCBrokerJwt ----------------------------
(* Instances of BrokerJwt for TLC.                                          *)
EXTENDS BrokerJwt, TLC

CONSTANTS j1, j2, j3, j4, acc, r1, r2, w1

\* The ids of tokens are drawn at random: no action tells one from another.
JtiSymmetry == Permutations(Jti) \union Permutations(Request)

=============================================================================
