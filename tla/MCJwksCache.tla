---------------------------- MODULE MCJwksCache -----------------------------
(* Two tasks that look keys up, and two keys that the issuer rotates.      *)
(* Times: the process starts a cooldown after the machine; a cooldown, a   *)
(* cache's life and a response's flight are 1 each, so that a key retired  *)
(* at once in flight is still given at the last moment it may be.          *)
EXTENDS JwksCache

CONSTANTS x1, x2, k1, k2
=============================================================================
