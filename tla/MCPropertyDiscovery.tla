------------------------ MODULE MCPropertyDiscovery -------------------------
(* The call of MCConsentPipeline after up to two PUTs, by the caller's     *)
(* user and by one of the same object id in another tenant.                *)
EXTENDS MCConsentPipeline, PropertyDiscovery

MCCaller   == [tenant |-> "ours", object |-> "o1"]
MCAccounts == {MCCaller, [MCCaller EXCEPT !.tenant = "theirs"]}
MCManifests ==
  Metadata \cup {<<Item("bad")>>, <<[Item("name") EXCEPT !.sound = FALSE, !.listable = FALSE]>>}
=============================================================================
