---- MODULE MCServices ----
(* What the Broker does for services, one part of it at a time: opening      *)
(* intentions, closing them, and destroying secret ids.                     *)
EXTENDS MCIntentionSync, SecretIdCleanup, MCValidationRules

VARIABLE part

Init ==
    /\ part \in {"opening", "closing", "secret ids"}
    /\ SyncInit /\ SecretInit /\ RulesInit
    /\ part # "closing" => scenario.account

Next ==
    /\ UNCHANGED part
    /\ \/ part = "closing" /\ SyncNext
       \/ part = "secret ids" /\ SecretNext
       \/ part = "opening" /\ RulesNext
    /\ part = "closing" \/ UNCHANGED syncVars
    /\ part = "secret ids" \/ UNCHANGED secretVars
    /\ part = "opening" \/ UNCHANGED rulesVars

(* What is not under way has no fair action enabled. *)
Spec == Init /\ [][Next]_<<part, syncVars, secretVars, rulesVars>> /\ SyncFairness /\ SecretFairness

TypesOK == SyncTypeOK /\ SecretTypeOK /\ RulesTypeOK
====
