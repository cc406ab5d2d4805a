--------------------------- MODULE MCKeyRotation ----------------------------
(* Two pods at first and one spare for the rollout; one approval, created  *)
(* at any time of one rotation.  It lasts 2, the operator waits for more   *)
(* than 2 + 2, of which a drained pod and Key Vault may take 1 each.       *)
EXTENDS KeyRotation

CONSTANTS podA, podB, podC, r1
============================================================================
