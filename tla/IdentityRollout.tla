-------------------------- MODULE IdentityRollout ---------------------------
(***************************************************************************)
(* What the outputs of the bootstrap are for.  The infrastructure workflow *)
(* hands the variables, as they are when it runs, to the pods; these take  *)
(* them as settings when they start and check every bearer token against   *)
(* them for as long as they live.  Tokens are issued by a tenant, to a     *)
(* client it has registered, with the scopes that someone there has        *)
(* consented to.                                                           *)
(***************************************************************************)
EXTENDS Bootstrap, PodLifecycle

VARIABLE settings   \* of the pod

rolloutVars == <<vars, settings, podVars>>

----------------------------------------------------------------------------
(* The boundaries that Settings checks: everything is there, and the two   *)
(* clients differ.  With others build_app raises, and the process is none. *)
Valid(s) ==
  /\ \A n \in Names : s[n].tenant # "unset"
  /\ s["IOS_CLIENT_ID"] # s["VSCODE_CLIENT_ID"]

BuildApp ==
  /\ Valid(variables) /\ Launch
  /\ settings' = variables
  /\ UNCHANGED vars

RolloutInit == Init /\ PodInit /\ settings = variables
RolloutNext ==
  \/ Next /\ UNCHANGED <<settings, podVars>>
  \/ BuildApp
  \/ PodRuns /\ UNCHANGED <<vars, settings>>

RolloutSpec ==
  /\ RolloutInit /\ [][RolloutNext]_rolloutVars
  /\ WF_vars(Step \/ Refuse) /\ WF_vars(CreateFlow) /\ SF_vars(RestoreConfiguration)

----------------------------------------------------------------------------
(* The tokens there are, with the user's object id or without it.  A user   *)
(* other than the one who consented alone gets what was consented to       *)
(* tenant-wide.                                                            *)
Token(tenant, api, client, scopes, oid) ==
  [tenant |-> tenant, audience |-> [tenant |-> tenant, app |-> api],
   party |-> [tenant |-> tenant, app |-> client], scopes |-> scopes, oid |-> oid]

Consented(g, alone) == g.tenantWide \/ alone
Issuable(alone, oid) ==
  {Token("this", g.api, g.client, g.scopes, oid) : g \in {h \in grants : Consented(h, alone)}}
  \cup {Token("former", FormerApps["api"], FormerApps[c], {ScopeOf(c)}, oid) : c \in Clients}
Issued(alone) == Issuable(alone, TRUE) \cup Issuable(alone, FALSE)

----------------------------------------------------------------------------
(* verify_token: signed by a key from the JWKS URL, for this audience, by  *)
(* this issuer and tenant, with an object id, to a client that is known.   *)
(* The mutant does not ask for the issuer.                                 *)
VerifiedByAnyIssuer(s, t) ==
  /\ t.tenant = s["JWKS_URL"].tenant /\ t.audience = s["API_AUDIENCE"] /\ t.oid
  /\ t.party \in {s["VSCODE_CLIENT_ID"], s["IOS_CLIENT_ID"]}
Verified(s, t) ==
  /\ t.tenant = s["JWKS_URL"].tenant /\ t.audience = s["API_AUDIENCE"] /\ t.oid
  /\ t.tenant = s["ISSUER"].tenant /\ t.tenant = s["TENANT_ID"].tenant
  /\ t.party \in {s["VSCODE_CLIENT_ID"], s["IOS_CLIENT_ID"]}

ClientKind(s, t) == IF t.party = s["IOS_CLIENT_ID"] THEN "ios" ELSE "vscode"

(* The tools, and the /v1 routes, each ask for their scope and their kind. *)
McpAccepts(s, t) ==
  Verified(s, t) /\ ClientKind(s, t) = "vscode" /\ "access" \in t.scopes
MobileAccepts(s, t) ==
  Verified(s, t) /\ ClientKind(s, t) = "ios" /\ "mobile" \in t.scopes

(* test-identity-pkce.py: what the probe asks of the token it was given.   *)
(* All that it compares with are its own arguments: the tenant, the domain *)
(* whose discovery names issuer and keys, the client and the audience.     *)
ProbePasses(p, t) ==
  /\ t.tenant = p.domain /\ t.tenant = p.tenant
  /\ t.party = p.client /\ t.audience = p.audience /\ "access" \in t.scopes

(* Arguments with the client and the audience that were published.         *)
ArgumentsAsPublished ==
  {[domain |-> domain, tenant |-> tenant,
    client |-> variables["VSCODE_CLIENT_ID"], audience |-> variables["API_AUDIENCE"]] :
     domain \in {"former", "this"}, tenant \in {"former", "this"}}

RoleOf(v) ==
  IF v.tenant = "former" THEN CHOOSE role \in Roles : FormerApps[role] = v.app
  ELSE apps[v.app].role

----------------------------------------------------------------------------
RolloutTypeOK == TypeOK /\ settings \in [Names -> Values] /\ PodTypeOK

(* Pods may be started with variables of which a run has set some and not  *)
(* yet, or never, the others.  Whoever is let in with such settings is let *)
(* in by the one tenant that all of its issuer, keys, tenant and audience  *)
(* name, and as the client he is.                                          *)
MixedSettingsTrustNobodyElse ==
  phase = "serving" => \A t \in Issued(TRUE) :
    McpAccepts(settings, t) \/ MobileAccepts(settings, t) =>
      /\ \A n \in {"ISSUER", "JWKS_URL", "TENANT_ID", "API_AUDIENCE"} : settings[n].tenant = t.tenant
      /\ RoleOf(t.party) = ClientKind(settings, t)

(* Once a run has ended well, and through every later run however it ends, *)
(* the variables work: pods that start with them let in the VS Code client *)
(* to the tools and the iPhone to its routes.  They do so for every user,  *)
(* but for a client to which somebody had consented for himself before a   *)
(* run reached it: that consent is then the only one there is, and those   *)
(* let in are he.                                                          *)
ConsentedAlone(name) ==
  \E g \in grants : ~g.tenantWide /\ g.client = variables[name].app
                    /\ g.api = variables["API_AUDIENCE"].app

FinishedWorks ==
  finished =>
    /\ Valid(variables)
    /\ \E t \in Issued(ConsentedAlone("VSCODE_CLIENT_ID")) : McpAccepts(variables, t)
    /\ \E t \in Issued(ConsentedAlone("IOS_CLIENT_ID")) : MobileAccepts(variables, t)

(* "Grant the public client the one delegated API scope tenant-wide"       *)
(* (bootstrap-identity.py:242): once a run has ended well, a user who      *)
(* consented to nothing himself is let in.                                 *)
GrantedTenantWide ==
  finished =>
    /\ \E t \in Issued(FALSE) : McpAccepts(variables, t)
    /\ \E t \in Issued(FALSE) : MobileAccepts(variables, t)

(* Once a run has ended well, a token that passes the probe for the client *)
(* and the audience it has published, whatever tenant the probe was told,  *)
(* passes the server, if it carries an object id, which the probe does not *)
(* ask for (test-identity-pkce.py:193).                                    *)
ProbePredictsServer ==
  finished => \A p \in ArgumentsAsPublished, t \in Issued(TRUE) :
    ProbePasses(p, t) /\ t.oid => McpAccepts(variables, t)
=============================================================================
