------------------------- MODULE ConsentRefinement -------------------------
(***************************************************************************)
(* ConsentFlow implements Consent: the verdict is the last version of the  *)
(* stored document, whatever copies of it the handlers still hold.         *)
(***************************************************************************)
EXTENDS ConsentFlow

VerdictOf(r) ==
  CASE log[r] = <<>>                -> "none"
    [] log[r] # <<>> /\ Verdict(r).status \in Closed    -> "closed"
    [] log[r] # <<>> /\ Verdict(r).status \notin Closed -> Verdict(r).status

AckedOf(r) == \E p \in Posts : reply[p] = 200 /\ body[p].to = r

ToldOf(r) ==
  CASE pc[r] # "done"                                                -> "nothing"
    [] pc[r] = "done" /\ outcome[r] = "denied"                       -> "denied"
    [] pc[r] = "done" /\ outcome[r] \in {"approved", "partially_approved", "unavailable"}
                                                                     -> "approved"
    [] OTHER                                                         -> "failure"

Abstract == INSTANCE Consent WITH
  verdict <- [r \in Requests |-> VerdictOf(r)],
  acked   <- [r \in Requests |-> AckedOf(r)],
  told    <- [r \in Requests |-> ToldOf(r)]

(* Every step of the protocol is a step of the promise, or none of its     *)
(* business.                                                               *)
ImplementsConsent == Abstract!Spec
============================================================================
