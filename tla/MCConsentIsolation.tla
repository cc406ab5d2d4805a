------------------------- MODULE MCConsentIsolation -------------------------
(* Two calls of two accounts, served by one pod each, and a POST that      *)
(* brings a right answer, or one for another's approval, under another's   *)
(* token or from another's device; a phone may enrol again.                *)
(* Alice has a tablet besides, so that a push may fail for one of two.     *)
EXTENDS MCConsentFlow

CONSTANTS r2, bob, other

ForAlice == Signed(alice, r1, phone, k1, "approved", "d1", Disclosure(r1, "d1"))
ForBob   == Signed(bob, r2, other, k2, "approved", "d2", Disclosure(r2, "d2"))

IsolationBodies ==
  {ForAlice, ForBob, Spliced,
   Signed(alice, r2, phone, k1, "approved", "d1", Disclosure(r2, "d1")), \* another's approval
   [ForAlice EXCEPT !.account = bob],                 \* another account's token
   [ForBob EXCEPT !.device = phone],                  \* another account's device
   Signed(bob, r2, other, k2, "approved", "d2", Disclosure(r1, "d1"))} \* another's ciphertext

IsolationOwner  == [r \in Requests |-> IF r = r1 THEN alice ELSE bob]
IsolationHolder == [d \in Devices |-> IF d = other THEN bob ELSE alice]
IsolationPodOf  == [x \in Requests \cup Posts |-> IF x \in {r2, p2} THEN podB ELSE podA]
IsolationFirstKey == [d \in Devices |-> IF d = other THEN k2 ELSE k1]
============================================================================
