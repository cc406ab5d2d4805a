------------------------------ MODULE Consent ------------------------------
(***************************************************************************)
(* What the service promises about one approval, without stores, pods or   *)
(* clocks: it is opened once and settled at most once, and afterwards the  *)
(* phone and the caller can only be told what it was settled as.  A caller *)
(* may always be told that the call failed.                                *)
(***************************************************************************)
CONSTANT Requests

VARIABLES verdict,   \* none, pending, approved, denied or closed
          acked,     \* some phone was told that its decision stands
          told       \* what the caller was told

vars == <<verdict, acked, told>>

Init ==
  /\ verdict = [r \in Requests |-> "none"]
  /\ acked = [r \in Requests |-> FALSE]
  /\ told = [r \in Requests |-> "nothing"]

Open(r) ==
  /\ verdict[r] = "none"
  /\ verdict' = [verdict EXCEPT ![r] = "pending"]
  /\ UNCHANGED <<acked, told>>

(* The first decision settles; its acknowledgement may be lost. *)
Decide(r, decision) ==
  /\ verdict[r] = "pending"
  /\ verdict' = [verdict EXCEPT ![r] = decision]
  /\ \E heard \in BOOLEAN : acked' = [acked EXCEPT ![r] = heard]
  /\ UNCHANGED told

(* A caller that leaves, or a phone that comes too late, closes. *)
Close(r) ==
  /\ verdict[r] = "pending"
  /\ verdict' = [verdict EXCEPT ![r] = "closed"]
  /\ UNCHANGED acked
  /\ told' \in {told, [told EXCEPT ![r] = "failure"]}

Acknowledge(r) ==
  /\ verdict[r] \in {"approved", "denied"}
  /\ acked' = [acked EXCEPT ![r] = TRUE]
  /\ UNCHANGED <<verdict, told>>

(* The caller hears once. *)
Tell(r, what) ==
  /\ told[r] = "nothing"
  /\ what # "failure" => verdict[r] = what
  /\ told' = [told EXCEPT ![r] = what]
  /\ UNCHANGED <<verdict, acked>>

Next ==
  \E r \in Requests :
    \/ Open(r) \/ Close(r) \/ Acknowledge(r)
    \/ \E decision \in {"approved", "denied"} : Decide(r, decision)
    \/ \E what \in {"approved", "denied", "failure"} : Tell(r, what)

Spec == Init /\ [][Next]_vars
============================================================================
