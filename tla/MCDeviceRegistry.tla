-------------------------- MODULE MCDeviceRegistry --------------------------
(* Two PUTs on two pods, alice's phone and bob's account, one call that    *)
(* disables.  Times: a challenge lasts 2, the run 3.                       *)
EXTENDS DeviceRegistry

CONSTANTS p1, p2, x1, podA, podB, phone, alice, bob, c1, c2, k1, k2

(* A request as an honest phone builds it. *)
Signed(a, d, c, k) ==
  [account |-> a, device |-> d, challenge |-> c, key |-> k,
   sig |-> [account |-> a, device |-> d, challenge |-> c, key |-> k]]

First  == Signed(alice, phone, c1, k1)
Again   == Signed(alice, phone, c2, k2)   \* a later enrolment of the phone
Foreign == Signed(bob, phone, c1, k1)     \* for another account, with alice's nonce
Moved   == [First EXCEPT !.challenge = c2]  \* replayed under another challenge

MCBodies == {First, Again, Foreign, Moved}
MCIssuedTo == [c \in Challenges |-> alice]
MCPodOf == [y \in Puts \cup Disables \cup Challenges |-> IF y = p2 THEN podB ELSE podA]

MCBudget == [fault |-> 1, crash |-> 1, delete |-> 1]
=============================================================================
