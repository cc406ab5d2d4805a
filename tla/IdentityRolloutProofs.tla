----------------------- MODULE IdentityRolloutProofs ------------------------
(* What a pod promises by itself.                                          *)
(* The rollout is a bootstrap and a server that share the variables; what  *)
(* either promises by itself it promises here.  And whom a server lets in, *)
(* with whatever part of the variables a run has come to set.              *)
EXTENDS IdentityRollout, BootstrapProofs

----------------------------------------------------------------------------
(* One pod: provider tokens and shutdown, for all durations that the       *)
(* assumption admits.                                                      *)

(* A token on its way was younger than Reuse when it was taken.            *)
TakenYoung == \A s \in sending : s.age < Reuse + s.elapsed

(* The notifier holds a token only while it is open, its age matters while *)
(* the process serves, and what has ended without an exception is closed.  *)
TokenWhileOpen ==
  /\ signed => started \in {3, 4} \/ raised
  /\ raised => phase = "ended"
  /\ phase \in {"down", "starting"} => ~signed
  /\ phase = "starting" => started < 4
  /\ ~signed \/ phase # "serving" => age = 0
  /\ phase = "ended" => raised \/ started = 0

PodInv == PodTypeOK /\ TakenYoung /\ TokenWhileOpen

LEMMA PartsAre ==
  /\ Len(Parts) = 4
  /\ Parts[1] = "verifier" /\ Parts[2] = "store" /\ Parts[3] = "push" /\ Parts[4] = "disclosure"
BY DEF Parts

LEMMA Durations ==
  /\ Reuse \in Nat /\ MinReuse \in Nat /\ MaxAge \in Nat /\ SendTime \in Nat
  /\ MinReuse <= Reuse /\ 0 < Reuse /\ Reuse + SendTime <= MaxAge
BY LifecycleAssumption

LEMMA PodInvInit == PodInit => PodInv
<1>. SUFFICES ASSUME PodInit PROVE PodInv
  OBVIOUS
<1>. USE PartsAre, Durations DEF PodInit
<1>1. ~raised /\ ~signed /\ raised \in BOOLEAN /\ signed \in BOOLEAN
  OBVIOUS
<1>2. PodTypeOK
  BY <1>1 DEF PodTypeOK, Phases
<1>3. TakenYoung
  BY DEF TakenYoung
<1>4. TokenWhileOpen
  BY <1>1 DEF TokenWhileOpen
<1>. QED
  BY <1>2, <1>3, <1>4 DEF PodInv

LEMMA PodInvNext == PodInv /\ [Launch \/ PodRuns]_podVars => PodInv'
<1>. SUFFICES ASSUME PodInv, [Launch \/ PodRuns]_podVars PROVE PodInv'
  OBVIOUS
<1>. USE PartsAre, Durations DEF PodInv, PodTypeOK, TakenYoung, TokenWhileOpen, Phases
<1>1. CASE Launch
  <2>1. ~raised' /\ ~signed' /\ raised' \in BOOLEAN /\ signed' \in BOOLEAN
    BY <1>1 DEF Launch
  <2>2. PodTypeOK'
    BY <1>1, <2>1 DEF Launch
  <2>3. TakenYoung' /\ TokenWhileOpen'
    BY <1>1, <2>1 DEF Launch
  <2>. QED
    BY <2>2, <2>3
<1>2. CASE StartPart
  BY <1>2 DEF StartPart
<1>3. CASE StartFails
  BY <1>3 DEF StartFails
<1>4. CASE Terminate
  BY <1>4 DEF Terminate
<1>5. CASE ClosePart
  <2>1. started \in {1, 2, 3, 4} /\ started' = started - 1
    BY <1>5 DEF ClosePart, Unwinding
  <2>2. signed' => started = 4 \/ (phase' = "ended" /\ raised')
    BY <1>5, <2>1 DEF ClosePart, TokenAfterClose
  <2>3. signed' \in BOOLEAN /\ raised' \in BOOLEAN
    BY <1>5 DEF ClosePart, TokenAfterClose
  <2>4. PodTypeOK'
    BY <1>5, <2>1, <2>3 DEF ClosePart, Unwinding
  <2>5. TokenWhileOpen'
    BY <1>5, <2>1, <2>2 DEF ClosePart, Unwinding, TokenAfterClose
  <2>. QED
    BY <1>5, <2>4, <2>5 DEF ClosePart
<1>6. CASE Exit
  BY <1>6 DEF Exit, Unwinding
<1>7. CASE Kill
  <2>1. ~raised' /\ ~signed' /\ raised' \in BOOLEAN /\ signed' \in BOOLEAN
    BY <1>7 DEF Kill
  <2>2. PodTypeOK'
    BY <1>7, <2>1 DEF Kill
  <2>3. TakenYoung' /\ TokenWhileOpen'
    BY <1>7, <2>1 DEF Kill
  <2>. QED
    BY <2>2, <2>3
<1>8. CASE Send
  <2>1. age' \in 0 .. MaxAge /\ age' < Reuse
    BY <1>8 DEF Send, Reusable
  <2>2. \A s \in sending' : s \in sending \/ (s.age = age' /\ s.elapsed = 0)
    BY <1>8 DEF Send, JustTaken
  <2>3. sending' \subseteq [age : Nat, elapsed : 0 .. SendTime]
    BY <1>8, <2>1 DEF Send, JustTaken
  <2>4. TakenYoung'
    BY <2>1, <2>2
  <2>. QED
    BY <1>8, <2>1, <2>3, <2>4 DEF Send
<1>9. CASE Arrive
  BY <1>9 DEF Arrive
<1>10. CASE PodTick
  <2>1. \A t \in sending' : \E s \in sending :
          t = [age |-> s.age + 1, elapsed |-> s.elapsed + 1] /\ s.elapsed < SendTime
    BY <1>10 DEF PodTick
  <2>2. TakenYoung' /\ sending' \subseteq [age : Nat, elapsed : 0 .. SendTime]
    BY <2>1
  <2>. QED
    BY <1>10, <2>2 DEF PodTick
<1>11. CASE UNCHANGED podVars
  BY <1>11 DEF podVars
<1>. QED
  BY <1>1, <1>2, <1>3, <1>4, <1>5, <1>6, <1>7, <1>8, <1>9, <1>10, <1>11 DEF PodRuns

(* The invariant, for every behaviour of a process and its successors.     *)
THEOREM PodInvariant == PodSpec => []PodInv
BY PodInvInit, PodInvNext, PTL DEF PodSpec

(* Fifty minutes of reuse and the time of a push stay within the hour that *)
(* Apple allows a token (notifications.py:155).                            *)
THEOREM TokensAreYoung == PodSpec => []NoOldTokenSent
<1>1. PodInv => NoOldTokenSent
  <2>. SUFFICES ASSUME PodInv, NEW s \in sending PROVE s.age <= MaxAge
    BY DEF NoOldTokenSent
  <2>1. s.age \in Nat /\ s.elapsed \in 0 .. SendTime /\ s.age < Reuse + s.elapsed
    BY DEF PodInv, PodTypeOK, TakenYoung
  <2>. QED
    BY <2>1, Durations
<1>. QED
  BY <1>1, PodInvariant, PTL

(* Whatever has been started is closed, from wherever the start had come   *)
(* to (app.py:96).                                                         *)
THEOREM ProcessesEndClosed == PodSpec => []EndsClosed
<1>1. PodInv => EndsClosed
  BY DEF PodInv, PodTypeOK, TokenWhileOpen, EndsClosed
<1>. QED
  BY <1>1, PodInvariant, PTL

(* A process signs another token only when twenty minutes have passed.     *)
THEOREM RenewalsAreSpaced == PodSpec => RenewedSparingly
<1>. DEFINE Spaced == age' < age => age >= MinReuse \/ phase' # "serving"
<1>1. PodInv /\ [Launch \/ PodRuns]_podVars => [Spaced]_podVars
  <2>. SUFFICES ASSUME PodInv, Launch \/ PodRuns PROVE Spaced
    OBVIOUS
  <2>. USE Durations DEF PodInv, PodTypeOK
  <2>1. CASE Send
    BY <2>1, PodInv DEF Send, Reusable, TokenWhileOpen
  <2>2. CASE PodTick
    BY <2>2 DEF PodTick
  <2>3. CASE Launch
    BY <2>3 DEF Launch
  <2>4. CASE StartPart \/ StartFails \/ Terminate \/ ClosePart \/ Exit \/ Kill \/ Arrive
    BY <2>4 DEF StartPart, StartFails, Terminate, ClosePart, Exit, Kill, Arrive
  <2>. QED
    BY <2>1, <2>2, <2>3, <2>4 DEF PodRuns
<1>. QED
  BY <1>1, PodInvariant, PTL DEF PodSpec, RenewedSparingly

----------------------------------------------------------------------------
(* The client ids of any settings are an application's in that role, of    *)
(* the one tenant or the other.                                            *)
NamesARole(v, role) ==
  \/ v.tenant = "unset"
  \/ v.tenant = "former" /\ v.app = FormerApps[role]
  \/ v.tenant = "this" /\ v.app \in DOMAIN apps /\ apps[v.app].role = role

ClientsNamed(s) ==
  NamesARole(s["VSCODE_CLIENT_ID"], "vscode") /\ NamesARole(s["IOS_CLIENT_ID"], "ios")

RolloutInv ==
  /\ settings \in [Names -> Values]
  /\ ClientsNamed(variables) /\ ClientsNamed(settings)
  /\ phase \in {"starting", "serving"} => Valid(settings)

LEMMA RolloutSteps ==
  /\ RolloutInit => Init /\ PodInit
  /\ [RolloutNext]_rolloutVars => [Next]_vars /\ [Launch \/ PodRuns]_podVars
<1>1. RolloutInit => Init /\ PodInit
  BY DEF RolloutInit
<1>2. ASSUME [RolloutNext]_rolloutVars PROVE [Next]_vars /\ [Launch \/ PodRuns]_podVars
  BY <1>2 DEF RolloutNext, BuildApp, rolloutVars
<1>. QED
  BY <1>1, <1>2

(* Every behaviour of the rollout is one of the bootstrap and one of a     *)
(* server.                                                                 *)
THEOREM RolloutHasParts == RolloutSpec => Spec /\ PodSpec
BY RolloutSteps, PTL DEF RolloutSpec, Spec, PodSpec

----------------------------------------------------------------------------
(* What named a role still does after a step of a run.                     *)
LEMMA RolesStand ==
  ASSUME BootstrapInv, [Next]_vars, NEW v, NEW role, NamesARole(v, role)
  PROVE  NamesARole(v, role)'
<1>1. CASE v.tenant # "this"
  BY <1>1 DEF NamesARole
<1>2. CASE v.tenant = "this"
  <2>1. v.app \in DOMAIN apps /\ apps[v.app].role = role
    BY <1>2 DEF NamesARole
  <2>2. role \in Roles
    BY <2>1, TypesOf, AppsAt DEF BootstrapInv, Registrations
  <2>3. v.app \in Matching(role)
    BY <2>1 DEF Matching
  <2>4. CASE Next
    <3>1. Matching(role)' = Matching(role)
      BY <2>2, <2>3, <2>4, StepsKeep DEF KeptBy
    <3>. QED
      BY <1>2, <2>3, <3>1 DEF NamesARole, Matching
  <2>5. CASE UNCHANGED vars
    BY <1>2, <2>1, <2>5 DEF vars, directoryVars, NamesARole
  <2>. QED
    BY <2>4, <2>5
<1>. QED
  BY <1>1, <1>2

(* A run publishes only when it knows its applications.                    *)
LEMMA PublishedRoles ==
  ASSUME BootstrapInv, ClientsNamed(variables), NEW n \in Names, Publish(n)
  PROVE  ClientsNamed(variables')
<1>. USE DEF BootstrapInv
<1>1. Known("vscode") /\ Known("ios")
  <2>1. pc > 3
    BY AtRow, TypesOf DEF Publish
  <2>. QED
    BY <2>1, KnownAll, RolesAre
<1>2. /\ Outputs["VSCODE_CLIENT_ID"].tenant = "this" /\ Outputs["VSCODE_CLIENT_ID"].app = mine["vscode"]
      /\ Outputs["IOS_CLIENT_ID"].tenant = "this" /\ Outputs["IOS_CLIENT_ID"].app = mine["ios"]
  BY NamesAre DEF Outputs, Variables
<1>3. variables' = [variables EXCEPT ![n] = Outputs[n]] /\ variables \in [Names -> Values]
  BY DEF Publish, TypeOK
<1>4. NamesARole(variables'["VSCODE_CLIENT_ID"], "vscode")
  BY <1>1, <1>2, <1>3, NamesAre DEF Known, NamesARole, ClientsNamed
<1>5. NamesARole(variables'["IOS_CLIENT_ID"], "ios")
  BY <1>1, <1>2, <1>3, NamesAre DEF Known, NamesARole, ClientsNamed
<1>. QED
  BY <1>4, <1>5 DEF ClientsNamed

LEMMA RolloutInvInit == RolloutInit => RolloutInv
<1>. SUFFICES ASSUME RolloutInit PROVE RolloutInv
  OBVIOUS
<1>1. variables \in [Names -> Values]
  BY InvInit DEF RolloutInit, BootstrapInv, TypeOK
<1>2. ClientsNamed(variables)
  BY NamesAre DEF RolloutInit, Init, Variables, FormerApps, ClientsNamed, NamesARole
<1>. QED
  BY <1>1, <1>2 DEF RolloutInit, RolloutInv, PodInit

LEMMA VariablesStep ==
  ASSUME BootstrapInv, ClientsNamed(variables), Next
  PROVE  variables' = variables \/ \E n \in Names : Publish(n)
BY DEF Next, Step, Begin, EnsureApi, EnsureClient, EnsurePrincipal, GrantAdminConsent,
       IncludeInFlow, OpenConfiguration, WriteConfiguration, Refuse, Interrupt, CreateFlow,
       RestoreConfiguration, ConsentAlone, outputVars

LEMMA RolloutInvNext ==
  BootstrapInv /\ RolloutInv /\ [RolloutNext]_rolloutVars => RolloutInv'
<1>. SUFFICES ASSUME BootstrapInv, RolloutInv, [RolloutNext]_rolloutVars PROVE RolloutInv'
  OBVIOUS
<1>. USE DEF RolloutInv
<1>1. CASE Next /\ UNCHANGED <<settings, podVars>>
  <2>1. \A v, role : NamesARole(v, role) => NamesARole(v, role)'
    BY <1>1, RolesStand
  <2>2. ClientsNamed(settings)'
    BY <1>1, <2>1 DEF ClientsNamed, NamesARole
  <2>3. ClientsNamed(variables)'
    <3>1. CASE variables' = variables
      BY <2>1, <3>1 DEF ClientsNamed, NamesARole
    <3>2. CASE \E n \in Names : Publish(n)
      <4>1. ClientsNamed(variables') /\ apps' = apps
        BY <3>2, PublishedRoles DEF Publish, directoryVars
      <4>. QED
        BY <4>1 DEF ClientsNamed, NamesARole
    <3>. QED
      BY <1>1, <3>1, <3>2, VariablesStep
  <2>. QED
    BY <1>1, <2>2, <2>3 DEF podVars, Valid
<1>2. CASE BuildApp
  <2>1. apps' = apps /\ variables' = variables /\ settings' = variables /\ Valid(variables)
    BY <1>2 DEF BuildApp, vars, directoryVars, outputVars
  <2>2. variables \in [Names -> Values]
    BY DEF BootstrapInv, TypeOK
  <2>. QED
    BY <2>1, <2>2 DEF ClientsNamed, NamesARole, Valid
<1>3. CASE PodRuns /\ UNCHANGED <<vars, settings>>
  <2>1. apps' = apps /\ variables' = variables /\ settings' = settings
    BY <1>3 DEF vars, directoryVars, outputVars
  <2>2. phase' \in {"starting", "serving"} => phase \in {"starting", "serving"}
    BY <1>3 DEF PodRuns, StartPart, StartFails, Terminate, ClosePart, Exit, Kill, Send, Arrive, PodTick
  <2>. QED
    BY <2>1, <2>2 DEF ClientsNamed, NamesARole, Valid
<1>4. CASE UNCHANGED rolloutVars
  BY <1>4 DEF rolloutVars, vars, directoryVars, outputVars, podVars, ClientsNamed, NamesARole, Valid
<1>. QED
  BY <1>1, <1>2, <1>3, <1>4 DEF RolloutNext

(* Every variable keeps its type: the two parts' theorems, and settings    *)
(* that are always a copy of the variables.                                *)
THEOREM RolloutTypeCorrect == RolloutSpec => []RolloutTypeOK
<1>1. BootstrapInv /\ RolloutInv /\ PodInv => RolloutTypeOK
  BY DEF BootstrapInv, RolloutInv, PodInv, RolloutTypeOK
<1>. QED
  BY <1>1, RolloutHasParts, BootstrapInvariant, PodInvariant, RolloutInvInit, RolloutInvNext, PTL
     DEF RolloutSpec

(* A token names its tenant in all of its parts.                           *)
LEMMA TokensOfOneTenant ==
  ASSUME NEW t \in Issued(TRUE)
  PROVE  /\ t.audience.tenant = t.tenant /\ t.party.tenant = t.tenant
         /\ t.tenant \in {"this", "former"}
<1>1. PICK tenant \in {"this", "former"} :
        \E api, client, scopes, oid : t = Token(tenant, api, client, scopes, oid)
  BY DEF Issued, Issuable
<1>. QED
  BY <1>1 DEF Token

(* Whom a serving pod lets in.                                             *)
LEMMA LetIn ==
  ASSUME BootstrapInv, RolloutInv, phase = "serving", NEW t \in Issued(TRUE), Verified(settings, t)
  PROVE  /\ \A n \in {"ISSUER", "JWKS_URL", "TENANT_ID", "API_AUDIENCE"} : settings[n].tenant = t.tenant
         /\ RoleOf(t.party) = ClientKind(settings, t)
<1>1. t.party \in {settings["VSCODE_CLIENT_ID"], settings["IOS_CLIENT_ID"]}
  BY DEF Verified
<1>2. ASSUME NEW role \in Roles, NamesARole(t.party, role)
      PROVE  RoleOf(t.party) = role
  <2>1. CASE t.party.tenant = "this"
    BY <1>2, <2>1 DEF RoleOf, NamesARole
  <2>2. CASE t.party.tenant = "former"
    <3>1. t.party.app = FormerApps[role]
      BY <1>2, <2>2 DEF NamesARole
    <3>2. \A other \in Roles : FormerApps[other] = FormerApps[role] => other = role
      BY RolesAre DEF FormerApps
    <3>. QED
      BY <2>2, <3>1, <3>2 DEF RoleOf
  <2>. QED
    BY TokensOfOneTenant, <2>1, <2>2
<1>3. RoleOf(t.party) = ClientKind(settings, t)
  <2>1. CASE t.party = settings["IOS_CLIENT_ID"]
    BY <1>2, <2>1, RolesAre DEF ClientKind, RolloutInv, ClientsNamed
  <2>2. CASE t.party # settings["IOS_CLIENT_ID"]
    BY <1>1, <1>2, <2>2, RolesAre DEF ClientKind, RolloutInv, ClientsNamed
  <2>. QED
    BY <2>1, <2>2
<1>. QED
  BY TokensOfOneTenant, <1>3 DEF Verified

(* Settings of which a run had set only some let in nobody but the clients *)
(* of the one tenant that they all name (verify_token, auth.py:153, and    *)
(* the loop over the outputs, bootstrap-identity.py:387).                  *)
THEOREM NobodyElseTrusted == RolloutSpec => []MixedSettingsTrustNobodyElse
<1>1. BootstrapInv /\ RolloutInv => MixedSettingsTrustNobodyElse
  BY LetIn DEF MixedSettingsTrustNobodyElse, McpAccepts, MobileAccepts
<1>. QED
  BY <1>1, RolloutHasParts, BootstrapInvariant, RolloutInvInit, RolloutInvNext, PTL DEF RolloutSpec

----------------------------------------------------------------------------
(* What a run that has ended well leaves works, as long as nobody else has *)
(* a hand in it: the variables name the registrations, and these have      *)
(* their consents.                                                         *)
LEMMA VariablesNow ==
  ASSUME BootstrapInv, ProgressInv, finished
  PROVE  /\ \A n \in Names : variables[n].tenant = "this"
         /\ variables["API_AUDIENCE"] = [tenant |-> "this", app |-> Chosen("api")]
         /\ variables["VSCODE_CLIENT_ID"] = [tenant |-> "this", app |-> Chosen("vscode")]
         /\ variables["IOS_CLIENT_ID"] = [tenant |-> "this", app |-> Chosen("ios")]
         /\ Chosen("vscode") # Chosen("ios")
<1>1. \A n \in Names : variables[n] = Variables("this", ChosenApps)[n]
  BY DEF ProgressInv, Published
<1>2. /\ \A n \in Names : Variables("this", ChosenApps)[n].tenant = "this"
      /\ Variables("this", ChosenApps)["API_AUDIENCE"] = [tenant |-> "this", app |-> Chosen("api")]
      /\ Variables("this", ChosenApps)["VSCODE_CLIENT_ID"]
           = [tenant |-> "this", app |-> Chosen("vscode")]
      /\ Variables("this", ChosenApps)["IOS_CLIENT_ID"] = [tenant |-> "this", app |-> Chosen("ios")]
  BY NamesAre, RolesAre DEF Variables, ChosenApps
<1>3. Chosen("vscode") # Chosen("ios")
  <2>1. \A role \in Roles : Chosen(role) \in Matching(role)
    BY DEF ProgressInv, Settled, Chosen
  <2>. QED
    BY <2>1, RolesAre DEF Matching
<1>. QED
  BY <1>1, <1>2, <1>3, NamesAre

(* A token for a client's own consent is let in where the client belongs.  *)
LEMMA ClientLetIn ==
  ASSUME BootstrapInv, ProgressInv, finished, NEW c \in Clients, NEW t, t.tenant = "this",
         t.audience = [tenant |-> "this", app |-> Chosen("api")],
         t.party = [tenant |-> "this", app |-> Chosen(c)], ScopeOf(c) \in t.scopes, t.oid
  PROVE  IF c = "vscode" THEN McpAccepts(variables, t) ELSE MobileAccepts(variables, t)
<1>1. Verified(variables, t)
  BY VariablesNow, NamesAre, RolesAre DEF Verified
<1>2. ClientKind(variables, t) = c
  <2>1. t.party = variables["IOS_CLIENT_ID"] <=> c = "ios"
    <3>1. t.party.app = Chosen(c) /\ variables["IOS_CLIENT_ID"].app = Chosen("ios")
      BY VariablesNow
    <3>. QED
      BY <3>1, VariablesNow, RolesAre
  <2>. QED
    BY <2>1, RolesAre DEF ClientKind
<1>. QED
  BY <1>1, <1>2, RolesAre DEF McpAccepts, MobileAccepts, ScopeOf

LEMMA ConsentGivesToken ==
  ASSUME BootstrapInv, ProgressInv, finished, NEW c \in Clients, NEW name \in Names,
         variables[name].app = Chosen(c)
  PROVE  \E t \in Issued(ConsentedAlone(name)) :
           /\ t.tenant = "this" /\ t.audience = [tenant |-> "this", app |-> Chosen("api")]
           /\ t.party = [tenant |-> "this", app |-> Chosen(c)] /\ ScopeOf(c) \in t.scopes
           /\ t.oid
<1>1. PICK g \in grants : g.client = Chosen(c) /\ g.api = Chosen("api")
  BY DEF ProgressInv, Consenting
<1>2. Consented(g, ConsentedAlone(name))
  <2>1. variables["API_AUDIENCE"].app = Chosen("api")
    BY VariablesNow
  <2>2. ~g.tenantWide => ConsentedAlone(name)
    BY <1>1, <2>1 DEF ConsentedAlone
  <2>. QED
    BY <2>2 DEF Consented
<1>3. g.scopes = {ScopeOf(c)}
  <2>1. Chosen(c) \in Matching(c)
    BY RolesAre DEF ProgressInv, Settled, Chosen
  <2>. QED
    BY <1>1, <2>1 DEF Matching, BootstrapInv, GrantsSound
<1>. DEFINE t == Token("this", g.api, g.client, g.scopes, TRUE)
<1>4. t \in Issued(ConsentedAlone(name))
  BY <1>1, <1>2 DEF Issued, Issuable
<1>5. /\ t.tenant = "this" /\ t.audience = [tenant |-> "this", app |-> Chosen("api")]
      /\ t.party = [tenant |-> "this", app |-> Chosen(c)] /\ ScopeOf(c) \in t.scopes
      /\ t.oid
  BY <1>1, <1>3 DEF Token
<1>. HIDE DEF t
<1>. QED
  BY <1>4, <1>5

(* Once a run has ended well the variables let in the VS Code client to    *)
(* the tools and the iPhone to its routes, whatever later runs do: every   *)
(* user, but for a client to which one had consented for himself, and      *)
(* there him (main, bootstrap-identity.py:333, grant_admin_consent, 252,   *)
(* and verify_token, auth.py:153).                                         *)
THEOREM FinishedRunsWork == RolloutSpec => []FinishedWorks
<1>1. BootstrapInv /\ ProgressInv => FinishedWorks
  <2>. SUFFICES ASSUME BootstrapInv, ProgressInv, finished
                PROVE  /\ Valid(variables)
                       /\ \E t \in Issued(ConsentedAlone("VSCODE_CLIENT_ID")) : McpAccepts(variables, t)
                       /\ \E t \in Issued(ConsentedAlone("IOS_CLIENT_ID")) : MobileAccepts(variables, t)
    BY DEF FinishedWorks
  <2>1. Valid(variables)
    <3>1. variables["IOS_CLIENT_ID"].app # variables["VSCODE_CLIENT_ID"].app
      BY VariablesNow
    <3>. QED
      BY <3>1, VariablesNow DEF Valid
  <2>2. variables["VSCODE_CLIENT_ID"].app = Chosen("vscode")
    BY VariablesNow
  <2>3. variables["IOS_CLIENT_ID"].app = Chosen("ios")
    BY VariablesNow
  <2>4. \E t \in Issued(ConsentedAlone("VSCODE_CLIENT_ID")) : McpAccepts(variables, t)
    BY <2>2, ConsentGivesToken, ClientLetIn, RolesAre, NamesAre
  <2>5. \E t \in Issued(ConsentedAlone("IOS_CLIENT_ID")) : MobileAccepts(variables, t)
    BY <2>3, ConsentGivesToken, ClientLetIn, RolesAre, NamesAre
  <2>. QED
    BY <2>1, <2>4, <2>5
<1>. QED
  BY <1>1, RolloutHasParts, BootstrapInvariant, ProgressLasts, PTL

(* A probe whose client and audience are the published ones predicts: what *)
(* passes it with an object id is for the VS Code client, and the tools    *)
(* accept it (test-identity-pkce.py:157, auth.py:153).                     *)
THEOREM ProbesPredict == RolloutSpec => []ProbePredictsServer
<1>1. BootstrapInv /\ ProgressInv => ProbePredictsServer
  <2>. SUFFICES ASSUME BootstrapInv, ProgressInv, finished, NEW p \in ArgumentsAsPublished,
                       NEW t \in Issued(TRUE), ProbePasses(p, t), t.oid
                PROVE  McpAccepts(variables, t)
    BY DEF ProbePredictsServer
  <2>1. p.client = variables["VSCODE_CLIENT_ID"] /\ p.audience = variables["API_AUDIENCE"]
    BY DEF ArgumentsAsPublished
  <2>2. /\ t.party = [tenant |-> "this", app |-> Chosen("vscode")]
        /\ t.audience = [tenant |-> "this", app |-> Chosen("api")] /\ "access" \in t.scopes
    BY <2>1, VariablesNow DEF ProbePasses
  <2>3. t.tenant = t.party.tenant
    BY TokensOfOneTenant
  <2>4. t.tenant = "this"
    BY <2>2, <2>3
  <2>. QED
    BY <2>2, <2>4, ClientLetIn, RolesAre DEF ScopeOf
<1>. QED
  BY <1>1, RolloutHasParts, BootstrapInvariant, ProgressLasts, PTL
=============================================================================
