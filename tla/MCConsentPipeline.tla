------------------------- MODULE MCConsentPipeline -------------------------
(* Two handles and one malformed key; every list of at most two keys; the  *)
(* disclosures are a good one and one that breaks each binding in turn.    *)
EXTENDS ConsentPipeline

MCHandles == {"name", "email"}
MCKeys == MCHandles \cup {"bad"}

Lists(S) == {<<>>} \cup {<<x>> : x \in S} \cup {<<x, y>> : x, y \in S}

MCRawRequests == Lists(MCKeys) \cup {<<"name", "email", "phone">>}

Item(key) == [key |-> key, type |-> "text", sound |-> TRUE, listable |-> TRUE]
Metadata == {<<>>, <<Item("name")>>, <<Item("email")>>,
             <<Item("name"), Item("email")>>, <<Item("email"), Item("name")>>,
             <<Item("name"), Item("name")>>, <<[Item("name") EXCEPT !.sound = FALSE]>>}

Field(key) == [key |-> key, type |-> "text", value |-> <<"value of", key>>]
Jwe(keys) ==
  [request |-> "r1", decisionId |-> "d1", keys |-> keys, expires |-> 2, intact |-> TRUE,
   plain |-> [request |-> "r1", decisionId |-> "d1", expires |-> 2, created |-> 0,
              fields |-> [i \in DOMAIN keys |-> Field(keys[i])]]]

(* One disclosure per way of going wrong. *)
Spoilt(jwe) ==
  {[jwe EXCEPT !.request = "r0"], [jwe EXCEPT !.decisionId = "d0"],
   [jwe EXCEPT !.keys = <<"email">>], [jwe EXCEPT !.expires = 3, !.plain.expires = 3],
   [jwe EXCEPT !.expires = 1, !.plain.expires = 1], [jwe EXCEPT !.intact = FALSE],
   [jwe EXCEPT !.plain.request = "r0"], [jwe EXCEPT !.plain.decisionId = "d0"],
   [jwe EXCEPT !.plain.expires = 1], [jwe EXCEPT !.plain.created = 2],
   [jwe EXCEPT !.plain.fields = <<Field("email")>>],
   [jwe EXCEPT !.plain.fields = [i \in DOMAIN jwe.keys |->
                                   [Field(jwe.keys[i]) EXCEPT !.type = "date"]]]}

Good == {Jwe(keys) : keys \in {<<"name">>, <<"email">>, <<"name", "email">>, <<"email", "name">>}}

Short == {<<>>, <<"name">>, <<"email">>, <<"email", "name">>}

MCResults ==
  [available : {<<>>}, approved : Lists(MCHandles), denied : Short,
   unavailable : Short \cup {<<"bad">>}, metadata : Metadata, jwe : {NoJwe}]

WithJwe(approved, jwes) ==
  {[decision |-> "approved", decisionId |-> "d1", result |-> [r EXCEPT !.jwe = j]] :
     r \in {x \in MCResults : x.approved = approved /\ x.metadata # <<>>}, j \in jwes}

(* A spoilt ciphertext only accompanies the list it was made for. *)
AllAnswers ==
  {[decision |-> d, decisionId |-> "d1", result |-> r] :
     d \in {"approved", "denied"}, r \in MCResults}
  \cup UNION {WithJwe(keys, Good \cup Spoilt(Jwe(keys))) : keys \in {<<"name">>, <<"name", "email">>}}
MCAnswers == AllAnswers   \* TLC works out only the former once
============================================================================
