----------------------------- MODULE Bootstrap ------------------------------
(***************************************************************************)
(* scripts/bootstrap-identity.py: an operator creates, or brings up to     *)
(* date, the registrations of the API and of its two public clients, the   *)
(* consents between them, and what the deployment is told of them.  A run  *)
(* is a row of requests with nothing to undo them; it may end between any  *)
(* two (a refused or unanswered request, an expired token, Ctrl-C) and is  *)
(* then started again, by one operator at a time.                          *)
(***************************************************************************)
EXTENDS Integers, Sequences, FiniteSets

CONSTANTS Tenants,       \* what a tenant may hold before the first run
          Interruptions  \* bound: runs that end early

Clients == {"vscode", "ios"}
Roles   == Clients \cup {"api"}
Scopes  == {"access", "mobile"}

NoScopes == [s \in Scopes |-> 0]
NoClaim  == [api |-> 0, scope |-> 0]
NoneYet  == [r \in Roles |-> 0]

(* A registration is numbered as it is created, and the number is its      *)
(* client id.  Of a client: the one permission it requires.                *)
Registrations == [role : Roles, renamed : BOOLEAN, scopes : [Scopes -> Nat],
                  requires : [api : Nat, scope : Nat]]
Grants == [client : Nat, api : Nat, tenantWide : BOOLEAN, scopes : SUBSET Scopes]

ScopeOf(client) == IF client = "vscode" THEN "access" ELSE "mobile"

(* What must hold of a tenant before the first run, and what no run may    *)
(* spoil: a client that requires a permission requires one that exists, on *)
(* the API's registration, and its own ...                                 *)
RegistrationsSound(registrations) ==
  \A c \in DOMAIN registrations :
   /\ registrations[c].role \in Clients => registrations[c].scopes = NoScopes
   /\ registrations[c].requires # NoClaim =>
    /\ registrations[c].role \in Clients
    /\ registrations[c].requires.api \in DOMAIN registrations
    /\ LET api == registrations[registrations[c].requires.api]
       IN  /\ api.role = "api"
           /\ api.scopes[ScopeOf(registrations[c].role)] = registrations[c].requires.scope
           /\ registrations[c].requires.scope # 0

(* ... and a consent is a client's, to its own scope.                      *)
GrantsSound(registrations, consents) ==
  \A g \in consents :
    /\ g.client \in DOMAIN registrations /\ registrations[g.client].role \in Clients
    /\ g.scopes = {ScopeOf(registrations[g.client].role)}

ASSUME BootstrapAssumption ==
  /\ Interruptions \in Nat
  /\ \A t \in Tenants :
       /\ t.apps \in Seq(Registrations)
       /\ t.principals \subseteq DOMAIN t.apps
       /\ t.grants \subseteq Grants
       /\ t.minted \in Nat
       /\ RegistrationsSound(t.apps) /\ GrantsSound(t.apps, t.grants)

(* The six that the deployment reads.  A value names a tenant - this one,  *)
(* or one that was used before it - and, of the last three, an application *)
(* of it.                                                                  *)
Names == {"ISSUER", "JWKS_URL", "TENANT_ID", "API_AUDIENCE", "VSCODE_CLIENT_ID", "IOS_CLIENT_ID"}
Values == [tenant : {"unset", "former", "this"}, app : Nat]

Variables(tenant, appOf) ==
  [n \in Names |->
     [tenant |-> tenant,
      app |-> CASE n = "API_AUDIENCE"     -> appOf["api"]
                [] n = "VSCODE_CLIENT_ID" -> appOf["vscode"]
                [] n = "IOS_CLIENT_ID"    -> appOf["ios"]
                [] OTHER                  -> 0]]

FormerApps == [api |-> 1, vscode |-> 2, ios |-> 3]

VARIABLES
  apps, principals, grants, included,  \* the directory; the clients in the user flow
  minted,       \* how many permission ids have been made up
  flow,         \* whether the user flow exists
  mcp,          \* the clientId last written to .vscode/mcp.json; 0 at first
  torn,         \* whether that file was emptied and not yet written
  variables,    \* of the GitHub environment
  pc, mine, ids, \* of the run: its next step, its applications, its scope ids
  finished,     \* history: some run has ended well
  budget

directoryVars == <<apps, principals, grants, included, minted, flow>>
outputVars    == <<mcp, torn, variables>>
runVars       == <<pc, mine, ids>>
vars == <<directoryVars, outputVars, runVars, finished, budget>>

----------------------------------------------------------------------------
(* main(), one entry for each request that changes something.              *)
Program ==
  << <<"application", "api">>, <<"application", "vscode">>, <<"application", "ios">>,
     <<"principal", "api">>, <<"principal", "vscode">>, <<"principal", "ios">>,
     <<"grant", "vscode">>, <<"grant", "ios">>,
     <<"include", "vscode">>, <<"include", "ios">>,
     <<"open", "mcp.json">>, <<"write", "mcp.json">>,
     <<"publish", "ISSUER">>, <<"publish", "JWKS_URL">>, <<"publish", "TENANT_ID">>,
     <<"publish", "API_AUDIENCE">>, <<"publish", "VSCODE_CLIENT_ID">>,
     <<"publish", "IOS_CLIENT_ID">> >>

At(what, of) == pc # 0 /\ Program[pc] = <<what, of>>
ProceedPastTheEnd == pc' = pc + 1   \* mutant
Proceed == pc' = IF pc = Len(Program) THEN 0 ELSE pc + 1

Matching(role) == {a \in DOMAIN apps : apps[a].role = role}
Ambiguous(role) == Cardinality(Matching(role)) > 1

Init ==
  /\ \E t \in Tenants :
       /\ apps = t.apps /\ principals = t.principals
       /\ grants = t.grants /\ minted = t.minted
  /\ included = {}
  /\ flow \in BOOLEAN
  /\ mcp = 0 /\ torn = FALSE
  /\ variables \in {Variables("unset", NoneYet), Variables("former", FormerApps)}
  /\ pc = 0 /\ mine = NoneYet /\ ids = NoScopes
  /\ finished = FALSE
  /\ budget = Interruptions

(* azure_access_token: the operator runs the script. *)
Begin ==
  /\ pc = 0
  /\ pc' = 1 /\ mine' = NoneYet /\ ids' = NoScopes
  /\ UNCHANGED <<directoryVars, outputVars, finished, budget>>

----------------------------------------------------------------------------
(* A permission keeps its id; one that is missing gets a new one.  The     *)
(* mutant makes up both anew.                                              *)
Fresh(s) == minted + (IF s = "access" THEN 1 ELSE 2)
ScopesRenewed(old) == [s \in Scopes |-> Fresh(s)]
Completed(old) == [s \in Scopes |-> IF old[s] = 0 THEN Fresh(s) ELSE old[s]]

(* find_application, which refuses two under the new or the old name, then *)
(* POST, or PATCH and GET.  The mutants do not mind two, and look for the  *)
(* new name only.                                                          *)
RefusedNever(role) == FALSE
Refused(role) == Ambiguous(role)

FoundByNewName(role) == {a \in Matching(role) : apps[a].renamed}
Found(role) == Matching(role)

Save(role, registration) ==
  \/ /\ Found(role) = {}
     /\ apps' = Append(apps, registration)
     /\ mine' = [mine EXCEPT ![role] = Len(apps) + 1]
  \/ \E a \in Found(role) :
       /\ apps' = [apps EXCEPT ![a] = registration]
       /\ mine' = [mine EXCEPT ![role] = a]

EnsureApi ==
  /\ At("application", "api") /\ ~Refused("api")
  /\ LET old == IF Found("api") = {} THEN NoScopes
                ELSE apps[CHOOSE a \in Found("api") : TRUE].scopes
     IN  /\ ids' = Completed(old)
         /\ Save("api", [role |-> "api", renamed |-> TRUE, scopes |-> Completed(old),
                         requires |-> NoClaim])
         /\ minted' = IF Completed(old) = old THEN minted ELSE minted + 2
  /\ Proceed
  /\ UNCHANGED <<principals, grants, included, flow, outputVars, finished, budget>>

EnsureClient(c) ==
  /\ At("application", c) /\ ~Refused(c)
  /\ Save(c, [role |-> c, renamed |-> TRUE, scopes |-> NoScopes,
              requires |-> [api |-> mine["api"], scope |-> ids[ScopeOf(c)]]])
  /\ Proceed
  /\ UNCHANGED <<principals, grants, included, minted, flow, outputVars, ids, finished, budget>>

EnsurePrincipal(role) ==
  /\ At("principal", role)
  /\ principals' = principals \cup {mine[role]}
  /\ Proceed
  /\ UNCHANGED <<apps, grants, included, minted, flow, outputVars, mine, ids, finished, budget>>

(* grant_admin_consent: the scope is added to the first consent there is   *)
(* between the two, or a tenant-wide one is created.  The mutant gives     *)
(* every client both scopes.                                               *)
BothScopes(c) == Scopes
Granted(c) == {ScopeOf(c)}

Between(c) == {g \in grants : g.client = mine[c] /\ g.api = mine["api"]}

GrantAdminConsent(c) ==
  /\ At("grant", c)
  /\ \/ /\ Between(c) = {}
        /\ grants' = grants \cup {[client |-> mine[c], api |-> mine["api"],
                                  tenantWide |-> TRUE, scopes |-> Granted(c)]}
     \/ \E current \in Between(c) :
          grants' = (grants \ {current}) \cup {[current EXCEPT !.scopes = @ \cup Granted(c)]}
  /\ Proceed
  /\ UNCHANGED <<apps, principals, included, minted, flow, outputVars, mine, ids, finished, budget>>

(* ensure_user_flow_application; the mutant fails where a client is there. *)
IncludeAgainFails(c) ==
  /\ At("include", c) /\ flow /\ mine[c] \notin included
  /\ included' = included \cup {mine[c]}
  /\ Proceed
  /\ UNCHANGED <<apps, principals, grants, minted, flow, outputVars, mine, ids, finished, budget>>

IncludeInFlow(c) ==
  /\ At("include", c) /\ flow
  /\ included' = included \cup {mine[c]}
  /\ Proceed
  /\ UNCHANGED <<apps, principals, grants, minted, flow, outputVars, mine, ids, finished, budget>>

(* update_vscode: the file is read, emptied and written.                   *)
OpenConfiguration ==
  /\ At("open", "mcp.json") /\ ~torn
  /\ torn' = TRUE
  /\ Proceed
  /\ UNCHANGED <<directoryVars, mcp, variables, mine, ids, finished, budget>>

WriteConfiguration ==
  /\ At("write", "mcp.json")
  /\ mcp' = mine["vscode"] /\ torn' = FALSE
  /\ Proceed
  /\ UNCHANGED <<directoryVars, variables, mine, ids, finished, budget>>

(* gh variable set, one by one; then the run has ended well.  The mutants  *)
(* swap the client ids, and leave the issuer as it was.                    *)
OutputsSwapped == Variables("this", [mine EXCEPT !["ios"] = mine["vscode"], !["vscode"] = mine["ios"]])
OutputsKeepIssuer == [Variables("this", mine) EXCEPT !["ISSUER"] = variables["ISSUER"]]
Outputs == Variables("this", mine)

Publish(n) ==
  /\ At("publish", n)
  /\ variables' = [variables EXCEPT ![n] = Outputs[n]]
  /\ finished' = (finished \/ pc = Len(Program))
  /\ Proceed
  /\ UNCHANGED <<directoryVars, mcp, torn, mine, ids, budget>>

(* The script raises: two registrations match, the user flow does not      *)
(* exist, or the file is not JSON.                                         *)
Refuse ==
  /\ \/ \E role \in Roles : At("application", role) /\ Refused(role)
     \/ \E c \in Clients : At("include", c) /\ ~flow
     \/ At("open", "mcp.json") /\ torn
  /\ pc' = 0
  /\ UNCHANGED <<directoryVars, outputVars, mine, ids, finished, budget>>

(* The run ends before its next request, or in place of an answer.         *)
Interrupt ==
  /\ pc # 0 /\ budget > 0
  /\ pc' = 0 /\ budget' = budget - 1
  /\ UNCHANGED <<directoryVars, outputVars, mine, ids, finished>>

----------------------------------------------------------------------------
(* What people do in the portal and in the working copy: create the user   *)
(* flow; sign in as an administrator while there is no consent, and        *)
(* consent for oneself alone; take the file back from git.                 *)
CreateFlow ==
  /\ ~flow /\ flow' = TRUE
  /\ UNCHANGED <<apps, principals, grants, included, minted, outputVars, runVars, finished, budget>>

ConsentAlone(a, c) ==
  /\ {a, c} \subseteq principals
  /\ apps[a].role = "api" /\ apps[c].role \in Clients
  /\ \A g \in grants : <<g.client, g.api>> # <<c, a>>
  /\ grants' = grants \cup {[client |-> c, api |-> a, tenantWide |-> FALSE,
                            scopes |-> {ScopeOf(apps[c].role)}]}
  /\ UNCHANGED <<apps, principals, included, minted, flow, outputVars, runVars, finished, budget>>

RestoreConfiguration ==
  /\ torn /\ pc = 0
  /\ torn' = FALSE /\ mcp' \in {0, mcp}
  /\ UNCHANGED <<directoryVars, variables, runVars, finished, budget>>

Step ==
  \/ Begin \/ EnsureApi \/ OpenConfiguration \/ WriteConfiguration
  \/ \E c \in Clients : EnsureClient(c) \/ GrantAdminConsent(c) \/ IncludeInFlow(c)
  \/ \E role \in Roles : EnsurePrincipal(role)
  \/ \E n \in Names : Publish(n)

Next ==
  \/ Step \/ Refuse \/ Interrupt
  \/ CreateFlow \/ RestoreConfiguration
  \/ \E a, c \in DOMAIN apps : ConsentAlone(a, c)

Spec == Init /\ [][Next]_vars

(* The operator mends what the script complains of and runs it again until *)
(* it ends well.                                                           *)
FairSpec ==
  /\ Spec
  /\ WF_vars(Step \/ Refuse)
  /\ WF_vars(CreateFlow)
  /\ SF_vars(RestoreConfiguration)

----------------------------------------------------------------------------
TypeOK ==
  /\ apps \in Seq(Registrations)
  /\ principals \subseteq DOMAIN apps /\ included \subseteq DOMAIN apps
  /\ grants \subseteq Grants
  /\ minted \in Nat /\ flow \in BOOLEAN
  /\ mcp \in Nat /\ torn \in BOOLEAN
  /\ variables \in [Names -> Values]
  /\ pc \in 0 .. Len(Program)
  /\ mine \in [Roles -> Nat] /\ ids \in [Scopes -> Nat]
  /\ finished \in BOOLEAN /\ budget \in Nat

(* "Renames the existing registrations in place; their client IDs remain   *)
(* unchanged" (docs/identity-runbook.md:15), nor does a permission change  *)
(* its id: whatever a run finds, wherever it ends and however often it is  *)
(* run again, a role keeps its registration, and that its permissions.     *)
RegistrationsKept ==
  [][\A role \in Roles :
       /\ Matching(role) # {} => Matching(role)' = Matching(role)
       /\ \A a \in Matching(role), s \in Scopes :
            apps[a].scopes[s] # 0 => apps'[a].scopes[s] = apps[a].scopes[s]]_vars

(* A client that requires a permission requires one that exists, on the    *)
(* API's registration, and its own.                                        *)
RequiredPermissionsExist == RegistrationsSound(apps)

(* "VS Code receives only soffortbackend.access; iOS receives only         *)
(* soffortbackend.mobile" (docs/identity-runbook.md:22): though a consent  *)
(* is only ever added to, no client's holds the other's scope.             *)
LeastPrivilege == GrantsSound(apps, grants)

(* Where two registrations match a role no run ends well, and none tells   *)
(* anybody which it has taken: the outputs stay as they were.              *)
AmbiguityPublishesNothing ==
  (\E role \in Roles : Ambiguous(role)) =>
    /\ ~finished /\ mcp = 0 /\ ~torn
    /\ \A n \in Names : variables[n].tenant # "this"

(* "Idempotently create": from wherever runs have ended, running again     *)
(* ends well, unless two registrations match.                              *)
RerunCompletes == <>(finished \/ \E role \in Roles : Ambiguous(role))
=============================================================================
