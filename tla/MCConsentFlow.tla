--------------------------- MODULE MCConsentFlow ---------------------------
(* One call for alice on pod A; POSTs on pods A and B from her phone.      *)
(* Times: the approval lasts 1, its document 2, the run 3.                 *)
EXTENDS ConsentFlow

CONSTANTS p1, p2, podA, podB, r1, phone, tablet, alice, k1, k2

Item == [key |-> "name", type |-> "text", sound |-> TRUE]
Jwe(r, id) ==
  [request |-> r, decisionId |-> id, keys |-> <<"name">>, expires |-> Timeout, intact |-> TRUE,
   plain |-> [request |-> r, decisionId |-> id, expires |-> Timeout, created |-> 0,
              fields |-> <<[key |-> "name", type |-> "text", value |-> "Ada"]>>]]

Denial == [available |-> <<>>, approved |-> <<>>, denied |-> <<>>, unavailable |-> <<>>,
           metadata |-> <<>>, jwe |-> NoJwe]
Disclosure(r, id) == [Denial EXCEPT !.approved = <<"name">>, !.metadata = <<Item>>,
                                    !.jwe = Jwe(r, id)]
Nothing == [Denial EXCEPT !.denied = <<"name">>, !.metadata = <<Item>>]

(* A body as an honest phone builds it. *)
Signed(account, r, d, key, decision, id, result) ==
  [account |-> account, to |-> r, device |-> d, decision |-> decision, decisionId |-> id,
   result |-> result, hash |-> ResultManifestHash(result),
   sig |-> [key |-> key, account |-> account, device |-> d, request |-> r,
            decision |-> decision, hash |-> ResultManifestHash(result)]]

Approve == Signed(alice, r1, phone, k1, "approved", "d1", Disclosure(r1, "d1"))
Decline == Signed(alice, r1, phone, k1, "denied", "d2", Denial)
Refuse  == Signed(alice, r1, phone, k1, "approved", "d3", Nothing)
(* The signature of one answer under the result of another. *)
Spliced == [Refuse EXCEPT !.result = Disclosure(r1, "d3"),
                          !.hash = ResultManifestHash(Disclosure(r1, "d3"))]

PhoneBodies == {Approve, Decline}

MCAsked == [r \in Requests |-> <<"name">>]
MCOwner == [r \in Requests |-> alice]
MCHolder == [d \in Devices |-> alice]
MCPodOf == [x \in Requests \cup Posts |-> IF x = p2 THEN podB ELSE podA]
MCFirstKey == [d \in Devices |-> k1]

NoTrouble == [fault |-> 0, crash |-> 0, cancel |-> 0, link |-> 0]
Cancels   == [NoTrouble EXCEPT !.cancel = 1]
CallTrouble    == [NoTrouble EXCEPT !.fault = 1, !.cancel = 2, !.crash = 1]
Relinking      == [NoTrouble EXCEPT !.link = 1]
============================================================================
