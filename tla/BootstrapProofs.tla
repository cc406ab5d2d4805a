-------------------------- MODULE BootstrapProofs ---------------------------
(* The registrations and their permissions, for any tenant that is in      *)
(* order when the first run begins, and however many runs end early.       *)
EXTENDS Bootstrap, FiniteSetTheorems, TLAPS

----------------------------------------------------------------------------
Row == [api |-> 1, vscode |-> 2, ios |-> 3]

(* What a run knows of a role, from the step that finds it on.             *)
Known(role) == mine[role] \in DOMAIN apps /\ apps[mine[role]].role = role

RunKnows ==
  /\ \A role \in Roles : pc > Row[role] => Known(role)
  /\ pc > 1 => \A s \in Scopes : ids[s] # 0 /\ apps[mine["api"]].scopes[s] = ids[s]

BootstrapInv ==
  TypeOK /\ RunKnows /\ RegistrationsSound(apps) /\ GrantsSound(apps, grants)

LEMMA RolesAre == Clients = {"vscode", "ios"} /\ Roles = {"vscode", "ios", "api"}
BY DEF Clients, Roles

LEMMA NamesAre ==
  Names = {"ISSUER", "JWKS_URL", "TENANT_ID", "API_AUDIENCE", "VSCODE_CLIENT_ID", "IOS_CLIENT_ID"}
BY DEF Names

LEMMA ScopesAre == Scopes = {"access", "mobile"} /\ \A c : ScopeOf(c) \in Scopes
BY DEF Scopes, ScopeOf

LEMMA Rows ==
  /\ Len(Program) = 18
  /\ Program[1] = <<"application", "api">>
  /\ Program[2] = <<"application", "vscode">>
  /\ Program[3] = <<"application", "ios">>
  /\ \A i \in 4 .. 18 : Program[i][1] # "application"
BY DEF Program

LEMMA AtRow ==
  ASSUME pc \in 0 .. 18, NEW what, NEW of, At(what, of)
  PROVE  /\ pc > 0
         /\ what = "application" => pc \in 1 .. 3 /\ pc = Row[of] /\ of \in Roles
         /\ what # "application" => pc > 3
<1>1. pc \in 1 .. 18 /\ Program[pc] = <<what, of>>
  BY DEF At
<1>2. CASE pc \in 4 .. 18
  BY <1>1, <1>2, Rows
<1>3. CASE pc = 1
  BY <1>1, <1>3, Rows, RolesAre DEF Row
<1>4. CASE pc = 2
  BY <1>1, <1>4, Rows, RolesAre DEF Row
<1>5. CASE pc = 3
  BY <1>1, <1>5, Rows, RolesAre DEF Row
<1>. QED
  BY <1>1, <1>2, <1>3, <1>4, <1>5

LEMMA ProceedAhead ==
  ASSUME pc \in 1 .. 18, Proceed
  PROVE  pc' \in 0 .. 18 /\ (pc' = 0 \/ pc' = pc + 1)
BY Rows DEF Proceed

LEMMA Registering ==
  ASSUME NEW r \in Registrations
  PROVE  /\ r.role \in Roles /\ r.renamed \in BOOLEAN /\ r.scopes \in [Scopes -> Nat]
         /\ r.requires \in [api : Nat, scope : Nat]
BY DEF Registrations

(* Creating or updating a registration touches that one, and not its role. *)
LEMMA Saving ==
  ASSUME apps \in Seq(Registrations), mine \in [Roles -> Nat],
         NEW role \in Roles, NEW r \in Registrations, r.role = role, Save(role, r)
  PROVE  /\ apps' \in Seq(Registrations) /\ mine' \in [Roles -> Nat]
         /\ DOMAIN apps \subseteq DOMAIN apps'
         /\ \A a \in DOMAIN apps : apps'[a].role = apps[a].role
         /\ \A a \in DOMAIN apps' : a # mine'[role] => a \in DOMAIN apps /\ apps'[a] = apps[a]
         /\ mine'[role] \in DOMAIN apps' /\ apps'[mine'[role]] = r
         /\ \A other \in Roles \ {role} : mine'[other] = mine[other]
         /\ Matching(role) # {} => mine'[role] \in Matching(role) /\ DOMAIN apps' = DOMAIN apps
         /\ Matching(role) = {} => mine'[role] \notin DOMAIN apps
<1>1. CASE /\ Found(role) = {}
           /\ apps' = Append(apps, r)
           /\ mine' = [mine EXCEPT ![role] = Len(apps) + 1]
  BY <1>1 DEF Found
<1>2. CASE \E a \in Found(role) :
             apps' = [apps EXCEPT ![a] = r] /\ mine' = [mine EXCEPT ![role] = a]
  <2>1. PICK a \in Found(role) :
          apps' = [apps EXCEPT ![a] = r] /\ mine' = [mine EXCEPT ![role] = a]
    BY <1>2
  <2>2. a \in DOMAIN apps /\ apps[a].role = role
    BY <2>1 DEF Found, Matching
  <2>. QED
    BY <2>1, <2>2 DEF Found
<1>. QED
  BY <1>1, <1>2 DEF Save

LEMMA AppsAt ==
  ASSUME apps \in Seq(Registrations)
  PROVE  /\ DOMAIN apps = 1 .. Len(apps) /\ Len(apps) \in Nat
         /\ \A a \in DOMAIN apps : apps[a] \in Registrations
OBVIOUS

(* Where a role is not ambiguous its registration is the chosen one.       *)
LEMMA OnlyOne ==
  ASSUME apps \in Seq(Registrations), NEW role, ~Ambiguous(role), NEW a \in Matching(role)
  PROVE  a = CHOOSE b \in Matching(role) : TRUE
<1>. DEFINE b == CHOOSE b \in Matching(role) : TRUE
<1>1. b \in Matching(role)
  OBVIOUS
<1>2. IsFiniteSet(1 .. Len(apps)) /\ Matching(role) \subseteq 1 .. Len(apps)
  BY FS_Interval, AppsAt DEF Matching
<1>3. IsFiniteSet(Matching(role))
  BY <1>2, FS_Subset
<1>. SUFFICES ASSUME a # b PROVE FALSE
  OBVIOUS
<1>4. {a, b} \subseteq Matching(role) /\ IsFiniteSet({a, b}) /\ Cardinality({a, b}) = 2
  <2>1. IsFiniteSet({a}) /\ Cardinality({a}) = 1 /\ b \notin {a}
    BY FS_Singleton
  <2>2. Cardinality({a} \cup {b}) = 2 /\ IsFiniteSet({a} \cup {b})
    BY <2>1, FS_AddElement
  <2>3. {a} \cup {b} = {a, b}
    OBVIOUS
  <2>. QED
    BY <1>1, <2>2, <2>3
<1>5. Cardinality({a, b}) <= Cardinality(Matching(role))
  BY <1>3, <1>4, FS_Subset
<1>6. Cardinality(Matching(role)) \in Nat
  BY <1>3, FS_CardinalityType
<1>. QED
  BY <1>4, <1>5, <1>6 DEF Ambiguous

(* The permissions of the API, as EnsureApi leaves them.                   *)
OldScopes ==
  IF Found("api") = {} THEN NoScopes ELSE apps[CHOOSE a \in Found("api") : TRUE].scopes

ApiRegistration == [role |-> "api", renamed |-> TRUE, scopes |-> Completed(OldScopes),
                    requires |-> NoClaim]

LEMMA Completing ==
  ASSUME apps \in Seq(Registrations), minted \in Nat
  PROVE  /\ OldScopes \in [Scopes -> Nat] /\ Completed(OldScopes) \in [Scopes -> Nat]
         /\ \A s \in Scopes : Completed(OldScopes)[s] # 0
         /\ \A s \in Scopes : OldScopes[s] # 0 => Completed(OldScopes)[s] = OldScopes[s]
         /\ ApiRegistration \in Registrations
<1>1. OldScopes \in [Scopes -> Nat]
  <2>1. CASE Found("api") = {}
    BY <2>1 DEF OldScopes, NoScopes
  <2>2. CASE Found("api") # {}
    <3>1. (CHOOSE a \in Found("api") : TRUE) \in DOMAIN apps
      BY <2>2 DEF Found, Matching
    <3>. QED
      BY <2>2, <3>1, AppsAt, Registering DEF OldScopes
  <2>. QED
    BY <2>1, <2>2
<1>2. \A s \in Scopes : Fresh(s) \in Nat \ {0}
  BY DEF Fresh
<1>3. Completed(OldScopes) \in [Scopes -> Nat]
  BY <1>1, <1>2 DEF Completed
<1>4. ApiRegistration \in Registrations
  BY <1>3, RolesAre DEF ApiRegistration, Registrations, NoClaim
<1>. QED
  BY <1>1, <1>2, <1>3, <1>4 DEF Completed

LEMMA ApiSaved ==
  ASSUME TypeOK, EnsureApi
  PROVE  /\ pc = 1 /\ ids' = Completed(OldScopes)
         /\ Save("api", ApiRegistration)
         /\ \A a \in Matching("api") : OldScopes = apps[a].scopes
<1>1. pc = 1
  <2>1. pc \in 0 .. 18 /\ At("application", "api")
    BY Rows DEF EnsureApi, TypeOK
  <2>2. pc = Row["api"]
    BY <2>1, AtRow
  <2>. QED
    BY <2>2 DEF Row
<1>2. ids' = Completed(OldScopes) /\ Save("api", ApiRegistration)
  BY DEF EnsureApi, OldScopes, ApiRegistration
<1>3. ASSUME NEW a \in Matching("api") PROVE OldScopes = apps[a].scopes
  <2>1. ~Ambiguous("api") /\ Found("api") = Matching("api")
    BY DEF EnsureApi, Refused, Found
  <2>2. a = CHOOSE b \in Matching("api") : TRUE
    BY <2>1, OnlyOne DEF TypeOK
  <2>. QED
    BY <2>1, <2>2 DEF OldScopes
<1>. QED
  BY <1>1, <1>2, <1>3

ClientRegistration(c) ==
  [role |-> c, renamed |-> TRUE, scopes |-> NoScopes,
   requires |-> [api |-> mine["api"], scope |-> ids[ScopeOf(c)]]]

LEMMA ClientSaved ==
  ASSUME TypeOK, NEW c \in Clients, EnsureClient(c)
  PROVE  /\ pc = Row[c] /\ pc \in {2, 3}
         /\ Save(c, ClientRegistration(c)) /\ ClientRegistration(c) \in Registrations
<1>1. pc = Row[c] /\ pc \in {2, 3}
  <2>1. pc \in 0 .. 18 /\ At("application", c)
    BY Rows DEF EnsureClient, TypeOK
  <2>2. pc = Row[c]
    BY <2>1, AtRow
  <2>. QED
    BY <2>2, RolesAre DEF Row
<1>2. Save(c, ClientRegistration(c))
  BY DEF EnsureClient, ClientRegistration
<1>3. ClientRegistration(c) \in Registrations
  BY ScopesAre, RolesAre DEF ClientRegistration, Registrations, TypeOK, NoScopes
<1>. QED
  BY <1>1, <1>2, <1>3

----------------------------------------------------------------------------
LEMMA TypesOf ==
  ASSUME TypeOK
  PROVE  /\ apps \in Seq(Registrations) /\ principals \subseteq DOMAIN apps
         /\ included \subseteq DOMAIN apps /\ grants \subseteq Grants
         /\ minted \in Nat /\ flow \in BOOLEAN /\ mcp \in Nat /\ torn \in BOOLEAN
         /\ variables \in [Names -> Values] /\ pc \in 0 .. 18
         /\ mine \in [Roles -> Nat] /\ ids \in [Scopes -> Nat]
         /\ finished \in BOOLEAN /\ budget \in Nat
BY Rows DEF TypeOK

(* The registrations only grow, so what refers to them goes on doing so.   *)
LEMMA TypeStays ==
  ASSUME TypeOK, apps' \in Seq(Registrations), DOMAIN apps \subseteq DOMAIN apps',
         minted' \in Nat, pc' \in 0 .. 18, mine' \in [Roles -> Nat], ids' \in [Scopes -> Nat],
         UNCHANGED <<principals, grants, included, flow, mcp, torn, variables, finished, budget>>
  PROVE  TypeOK'
<1>1. principals' \subseteq DOMAIN apps' /\ included' \subseteq DOMAIN apps'
  BY TypesOf
<1>2. grants' \subseteq Grants /\ mcp' \in Nat /\ variables' \in [Names -> Values] /\ budget' \in Nat
  BY TypesOf
<1>3. flow' \in BOOLEAN /\ torn' \in BOOLEAN /\ finished' \in BOOLEAN
  BY TypesOf
<1>. QED
  BY <1>1, <1>2, <1>3, Rows DEF TypeOK

LEMMA KnownApi ==
  ASSUME TypeOK, RunKnows, pc > 1
  PROVE  /\ mine["api"] \in DOMAIN apps /\ apps[mine["api"]].role = "api"
         /\ \A s \in Scopes : ids[s] # 0 /\ apps[mine["api"]].scopes[s] = ids[s]
<1>1. pc > Row["api"] /\ "api" \in Roles
  BY RolesAre DEF Row
<1>2. Known("api")
  BY <1>1 DEF RunKnows
<1>. QED
  BY <1>2 DEF RunKnows, Known

LEMMA KnownAll ==
  ASSUME TypeOK, RunKnows, pc > 3, NEW role \in Roles
  PROVE  Known(role)
<1>1. pc \in 0 .. 18
  BY TypesOf
<1>2. Row[role] \in {1, 2, 3}
  BY RolesAre DEF Row
<1>3. pc > Row[role]
  BY <1>1, <1>2
<1>. QED
  BY <1>3 DEF RunKnows

LEMMA InvInit == Init => BootstrapInv
<1>. SUFFICES ASSUME Init PROVE BootstrapInv
  OBVIOUS
<1>1. PICK t \in Tenants : /\ apps = t.apps /\ principals = t.principals
                           /\ grants = t.grants /\ minted = t.minted
  BY DEF Init
<1>2. /\ apps \in Seq(Registrations) /\ principals \subseteq DOMAIN apps
      /\ grants \subseteq Grants /\ minted \in Nat /\ budget \in Nat
  BY <1>1, BootstrapAssumption DEF Init
<1>3. variables \in [Names -> Values]
  <2>1. ASSUME NEW tenant \in {"unset", "former"}, NEW appOf \in [Roles -> Nat]
        PROVE  Variables(tenant, appOf) \in [Names -> Values]
    <3>1. ASSUME NEW n \in Names
          PROVE  (CASE n = "API_AUDIENCE"     -> appOf["api"]
                    [] n = "VSCODE_CLIENT_ID" -> appOf["vscode"]
                    [] n = "IOS_CLIENT_ID"    -> appOf["ios"]
                    [] OTHER                  -> 0) \in Nat
      BY RolesAre
    <3>. QED
      BY <3>1 DEF Variables, Values
  <2>2. NoneYet \in [Roles -> Nat] /\ FormerApps \in [Roles -> Nat]
    BY RolesAre DEF NoneYet, FormerApps
  <2>. QED
    BY <2>1, <2>2 DEF Init
<1>4. TypeOK
  <2>1. mine \in [Roles -> Nat] /\ ids \in [Scopes -> Nat]
    BY DEF Init, NoneYet, NoScopes
  <2>2. pc = 0 /\ mcp = 0 /\ included = {}
    BY DEF Init
  <2>3. flow \in BOOLEAN /\ torn \in BOOLEAN /\ finished \in BOOLEAN
    BY DEF Init
  <2>. QED
    BY <1>2, <1>3, <2>1, <2>2, <2>3, Rows DEF TypeOK
<1>5. RunKnows
  BY RolesAre DEF Init, RunKnows, Row
<1>6. RegistrationsSound(t.apps) /\ GrantsSound(t.apps, t.grants)
  BY BootstrapAssumption
<1>. QED
  BY <1>1, <1>4, <1>5, <1>6 DEF BootstrapInv

(* Where the registrations stay, so does what is said of them.             *)
LEMMA KnowledgeStays ==
  ASSUME TypeOK, RunKnows, UNCHANGED <<apps, mine, ids>>,
         pc' \in 0 .. 18, pc' = 0 \/ pc' = pc \/ (pc > 3 /\ pc' = pc + 1)
         \/ (pc = 0 /\ pc' = 1)
  PROVE  RunKnows'
<1>0. pc \in 0 .. 18 /\ \A role \in Roles : Row[role] \in 1 .. 3
  BY RolesAre, TypesOf DEF Row
<1>1. ASSUME NEW role \in Roles, pc' > Row[role] PROVE Known(role)'
  <2>1. pc > Row[role]
    BY <1>0, <1>1
  <2>. QED
    BY <2>1 DEF RunKnows, Known
<1>2. ASSUME NEW s \in Scopes, pc' > 1 PROVE ids'[s] # 0 /\ apps'[mine'["api"]].scopes[s] = ids'[s]
  <2>1. pc > 1
    BY <1>0, <1>2
  <2>. QED
    BY <2>1 DEF RunKnows
<1>. QED
  BY <1>1, <1>2 DEF RunKnows

LEMMA ApiStep ==
  ASSUME BootstrapInv, EnsureApi
  PROVE  BootstrapInv'
<1>. USE DEF BootstrapInv
<1>1. /\ pc = 1 /\ ids' = Completed(OldScopes) /\ Save("api", ApiRegistration)
      /\ \A a \in Matching("api") : OldScopes = apps[a].scopes
  BY ApiSaved
<1>2. /\ Completed(OldScopes) \in [Scopes -> Nat]
      /\ \A s \in Scopes : Completed(OldScopes)[s] # 0
      /\ \A s \in Scopes : OldScopes[s] # 0 => Completed(OldScopes)[s] = OldScopes[s]
      /\ ApiRegistration \in Registrations
  BY Completing, TypesOf
<1>3. "api" \in Roles /\ ApiRegistration.role = "api"
  BY RolesAre DEF ApiRegistration
<1>4. /\ apps' \in Seq(Registrations) /\ mine' \in [Roles -> Nat]
      /\ DOMAIN apps \subseteq DOMAIN apps'
      /\ \A a \in DOMAIN apps : apps'[a].role = apps[a].role
      /\ \A a \in DOMAIN apps' : a # mine'["api"] => a \in DOMAIN apps /\ apps'[a] = apps[a]
      /\ mine'["api"] \in DOMAIN apps' /\ apps'[mine'["api"]] = ApiRegistration
      /\ Matching("api") # {} => mine'["api"] \in Matching("api") /\ DOMAIN apps' = DOMAIN apps
      /\ Matching("api") = {} => mine'["api"] \notin DOMAIN apps
  BY <1>1, <1>2, <1>3, TypesOf, Saving
<1>5. pc' = 2
  BY <1>1, Rows DEF EnsureApi, Proceed
<1>6. TypeOK'
  <2>1. minted' \in Nat
    BY TypesOf DEF EnsureApi
  <2>2. UNCHANGED <<principals, grants, included, flow, mcp, torn, variables, finished, budget>>
    BY DEF EnsureApi, outputVars
  <2>3. pc' \in 0 .. 18 /\ ids' \in [Scopes -> Nat]
    BY <1>1, <1>2, <1>5
  <2>. QED
    BY <1>4, <2>1, <2>2, <2>3, TypeStays
<1>7. RunKnows'
  BY <1>1, <1>2, <1>3, <1>4, <1>5, RolesAre DEF RunKnows, Known, Row, ApiRegistration
<1>8. RegistrationsSound(apps')
  <2>. SUFFICES ASSUME NEW c \in DOMAIN apps', c # mine'["api"]
                PROVE  /\ apps'[c].role \in Clients => apps'[c].scopes = NoScopes
                       /\ apps'[c].requires # NoClaim =>
                            /\ apps'[c].role \in Clients
                            /\ apps'[c].requires.api \in DOMAIN apps'
                            /\ apps'[apps'[c].requires.api].role = "api"
                            /\ apps'[apps'[c].requires.api].scopes[ScopeOf(apps'[c].role)]
                                 = apps'[c].requires.scope
                            /\ apps'[c].requires.scope # 0
    BY <1>4, RolesAre DEF RegistrationsSound, ApiRegistration
  <2>1. c \in DOMAIN apps /\ apps'[c] = apps[c]
    BY <1>4
  <2>2. apps[c].role \in Clients => apps[c].scopes = NoScopes
    BY <2>1 DEF RegistrationsSound
  <2>. SUFFICES ASSUME apps[c].requires # NoClaim
                PROVE  /\ apps[c].role \in Clients
                       /\ apps[c].requires.api \in DOMAIN apps'
                       /\ apps'[apps[c].requires.api].role = "api"
                       /\ apps'[apps[c].requires.api].scopes[ScopeOf(apps[c].role)]
                            = apps[c].requires.scope
                       /\ apps[c].requires.scope # 0
    BY <2>1, <2>2
  <2>. DEFINE a == apps[c].requires.api
             s == ScopeOf(apps[c].role)
  <2>3. /\ apps[c].role \in Clients /\ a \in DOMAIN apps /\ apps[a].role = "api"
        /\ apps[a].scopes[s] = apps[c].requires.scope /\ apps[c].requires.scope # 0
    BY <2>1 DEF RegistrationsSound
  <2>4. CASE a = mine'["api"]
    <3>1. a \in Matching("api")
      BY <2>3 DEF Matching
    <3>2. OldScopes[s] = apps[c].requires.scope
      BY <1>1, <2>3, <3>1
    <3>3. Completed(OldScopes)[s] = OldScopes[s]
      BY <1>2, <2>3, <3>2, ScopesAre
    <3>4. apps'[a].scopes = Completed(OldScopes)
      BY <1>4, <2>4 DEF ApiRegistration
    <3>. QED
      BY <1>4, <2>3, <3>2, <3>3, <3>4
  <2>5. CASE a # mine'["api"]
    BY <1>4, <2>3, <2>5
  <2>. QED
    BY <2>4, <2>5
<1>9. GrantsSound(apps', grants')
  <2>1. grants' = grants
    BY DEF EnsureApi
  <2>. QED
    BY <1>4, <2>1 DEF GrantsSound
<1>. QED
  BY <1>6, <1>7, <1>8, <1>9

LEMMA ClientStep ==
  ASSUME BootstrapInv, NEW client \in Clients, EnsureClient(client)
  PROVE  BootstrapInv'
<1>. USE DEF BootstrapInv
<1>. DEFINE r == ClientRegistration(client)
<1>1. /\ pc = Row[client] /\ pc \in {2, 3}
      /\ Save(client, r) /\ r \in Registrations
  BY ClientSaved
<1>2. client \in Roles /\ client # "api" /\ r.role = client
  BY RolesAre DEF ClientRegistration
<1>3. /\ apps' \in Seq(Registrations) /\ mine' \in [Roles -> Nat]
      /\ DOMAIN apps \subseteq DOMAIN apps'
      /\ \A a \in DOMAIN apps : apps'[a].role = apps[a].role
      /\ \A a \in DOMAIN apps' : a # mine'[client] => a \in DOMAIN apps /\ apps'[a] = apps[a]
      /\ mine'[client] \in DOMAIN apps' /\ apps'[mine'[client]] = r
      /\ \A other \in Roles \ {client} : mine'[other] = mine[other]
      /\ Matching(client) # {} => mine'[client] \in Matching(client)
      /\ Matching(client) = {} => mine'[client] \notin DOMAIN apps
  BY <1>1, <1>2, TypesOf, Saving
<1>. HIDE DEF r
<1>4. pc' = pc + 1 /\ ids' = ids
  BY <1>1, Rows DEF EnsureClient, Proceed
<1>5. /\ mine["api"] \in DOMAIN apps /\ apps[mine["api"]].role = "api"
      /\ \A s \in Scopes : ids[s] # 0 /\ apps[mine["api"]].scopes[s] = ids[s]
  BY <1>1, KnownApi
<1>6. \A a \in DOMAIN apps : apps[a].role = "api" => apps'[a] = apps[a] /\ a \in DOMAIN apps'
  BY <1>2, <1>3 DEF Matching
<1>7. TypeOK'
  <2>1. UNCHANGED <<principals, grants, included, flow, mcp, torn, variables, finished, budget>>
        /\ minted' \in Nat
    BY TypesOf DEF EnsureClient, outputVars
  <2>2. pc' \in 0 .. 18
    BY <1>1, <1>4
  <2>3. ids' \in [Scopes -> Nat]
    BY <1>4, TypesOf
  <2>. QED
    BY <1>3, <2>1, <2>2, <2>3, TypeStays
<1>8. RunKnows'
  <2>1. ASSUME NEW role \in Roles, pc' > Row[role] PROVE Known(role)'
    <3>1. CASE role = client
      BY <1>2, <1>3, <3>1 DEF Known
    <3>2. CASE role # client
      <4>1. pc > Row[role]
        BY <1>1, <1>4, <2>1, <3>2, RolesAre DEF Row
      <4>2. mine'[role] = mine[role] /\ Known(role)
        BY <1>3, <3>2, <4>1 DEF RunKnows
      <4>. QED
        BY <1>3, <4>2 DEF Known
    <3>. QED
      BY <3>1, <3>2
  <2>2. mine'["api"] = mine["api"] /\ apps'[mine["api"]] = apps[mine["api"]]
    BY <1>2, <1>3, <1>5, <1>6, RolesAre
  <2>. QED
    BY <1>4, <1>5, <2>1, <2>2 DEF RunKnows
<1>9. RegistrationsSound(apps')
  <2>. SUFFICES ASSUME NEW c \in DOMAIN apps'
                PROVE  /\ apps'[c].role \in Clients => apps'[c].scopes = NoScopes
                       /\ apps'[c].requires # NoClaim =>
                            /\ apps'[c].role \in Clients
                            /\ apps'[c].requires.api \in DOMAIN apps'
                            /\ apps'[apps'[c].requires.api].role = "api"
                            /\ apps'[apps'[c].requires.api].scopes[ScopeOf(apps'[c].role)]
                                 = apps'[c].requires.scope
                            /\ apps'[c].requires.scope # 0
    BY DEF RegistrationsSound
  <2>1. CASE c = mine'[client]
    <3>1. apps'[c].role = client /\ apps'[c].scopes = NoScopes
          /\ apps'[c].requires.api = mine["api"] /\ apps'[c].requires.scope = ids[ScopeOf(client)]
      BY <1>3, <2>1 DEF r, ClientRegistration
    <3>2. ScopeOf(client) \in Scopes
      BY ScopesAre
    <3>. QED
      BY <1>5, <1>6, <3>1, <3>2
  <2>2. CASE c # mine'[client]
    <3>1. c \in DOMAIN apps /\ apps'[c] = apps[c]
      BY <1>3, <2>2
    <3>. QED
      BY <1>6, <3>1 DEF RegistrationsSound
  <2>. QED
    BY <2>1, <2>2
<1>10. GrantsSound(apps', grants')
  <2>1. grants' = grants
    BY DEF EnsureClient
  <2>. QED
    BY <1>3, <2>1 DEF GrantsSound
<1>. QED
  BY <1>7, <1>8, <1>9, <1>10

(* The steps that leave registrations and consents alone.                  *)
LEMMA QuietStep ==
  ASSUME BootstrapInv,
         \/ Begin \/ OpenConfiguration \/ WriteConfiguration \/ Refuse \/ Interrupt
         \/ CreateFlow \/ RestoreConfiguration
         \/ (\E role \in Roles : EnsurePrincipal(role)) \/ (\E c \in Clients : IncludeInFlow(c))
         \/ (\E n \in Names : Publish(n)) \/ UNCHANGED vars
  PROVE  BootstrapInv'
<1>. USE DEF BootstrapInv
<1>1. apps' = apps /\ grants' = grants
  BY DEF Begin, OpenConfiguration, WriteConfiguration, Refuse, Interrupt, CreateFlow,
         RestoreConfiguration, EnsurePrincipal, IncludeInFlow, Publish, vars, directoryVars, outputVars
<1>2. CASE Begin
  <2>1. pc = 0 /\ pc' = 1 /\ mine' = NoneYet /\ ids' = NoScopes
    BY <1>2 DEF Begin
  <2>2. RunKnows'
    BY <2>1, RolesAre DEF RunKnows, Row
  <2>3. TypeOK'
    <3>1. mine' \in [Roles -> Nat] /\ ids' \in [Scopes -> Nat] /\ pc' \in 0 .. 18
      BY <2>1 DEF NoneYet, NoScopes
    <3>2. UNCHANGED <<principals, grants, included, flow, mcp, torn, variables, finished, budget, minted>>
      BY <1>2 DEF Begin, directoryVars, outputVars
    <3>. QED
      BY <1>1, <3>1, <3>2, TypesOf, TypeStays
  <2>. QED
    BY <1>1, <2>2, <2>3
<1>3. CASE \/ OpenConfiguration \/ WriteConfiguration \/ Refuse \/ Interrupt \/ CreateFlow
           \/ RestoreConfiguration \/ (\E role \in Roles : EnsurePrincipal(role))
           \/ (\E c \in Clients : IncludeInFlow(c)) \/ (\E n \in Names : Publish(n))
           \/ UNCHANGED vars
  <2>1. mine' = mine /\ ids' = ids /\ minted' = minted
    BY <1>3 DEF OpenConfiguration, WriteConfiguration, Refuse, Interrupt, CreateFlow,
                RestoreConfiguration, EnsurePrincipal, IncludeInFlow, Publish, vars, directoryVars, runVars
  <2>2. pc' = 0 \/ pc' = pc \/ (pc > 3 /\ Proceed)
    <3>1. ASSUME NEW what \in {"open", "write", "principal", "include", "publish"}, NEW of, At(what, of)
          PROVE  pc > 3
      BY <3>1, AtRow, TypesOf
    <3>2. CASE OpenConfiguration
      BY <3>1, <3>2 DEF OpenConfiguration
    <3>3. CASE WriteConfiguration
      BY <3>1, <3>3 DEF WriteConfiguration
    <3>4. CASE \E role \in Roles : EnsurePrincipal(role)
      BY <3>1, <3>4 DEF EnsurePrincipal
    <3>5. CASE \E c \in Clients : IncludeInFlow(c)
      BY <3>1, <3>5 DEF IncludeInFlow
    <3>6. CASE \E n \in Names : Publish(n)
      BY <3>1, <3>6 DEF Publish
    <3>7. CASE Refuse \/ Interrupt \/ CreateFlow \/ RestoreConfiguration \/ UNCHANGED vars
      BY <3>7 DEF Refuse, Interrupt, CreateFlow, RestoreConfiguration, vars, runVars
    <3>. QED
      BY <1>3, <3>2, <3>3, <3>4, <3>5, <3>6, <3>7
  <2>3. pc' \in 0 .. 18 /\ (pc' = 0 \/ pc' = pc \/ (pc > 3 /\ pc' = pc + 1))
    <3>1. CASE pc > 3 /\ Proceed
      BY <3>1, TypesOf, ProceedAhead
    <3>. QED
      BY <2>2, <3>1, TypesOf
  <2>4. RunKnows'
    BY <1>1, <2>1, <2>3, KnowledgeStays
  <2>5. principals' \subseteq DOMAIN apps /\ included' \subseteq DOMAIN apps
    <3>1. CASE \E role \in Roles : EnsurePrincipal(role)
      <4>1. PICK role \in Roles : EnsurePrincipal(role)
        BY <3>1
      <4>2. pc > 3
        BY <4>1, AtRow, TypesOf DEF EnsurePrincipal
      <4>3. mine[role] \in DOMAIN apps
        BY <4>2, KnownAll DEF Known
      <4>. QED
        BY <4>1, <4>3, TypesOf DEF EnsurePrincipal
    <3>2. CASE \E c \in Clients : IncludeInFlow(c)
      <4>1. PICK c \in Clients : IncludeInFlow(c)
        BY <3>2
      <4>2. pc > 3
        BY <4>1, AtRow, TypesOf DEF IncludeInFlow
      <4>3. mine[c] \in DOMAIN apps
        BY <4>2, KnownAll, RolesAre DEF Known
      <4>. QED
        BY <4>1, <4>3, TypesOf DEF IncludeInFlow
    <3>3. CASE \/ OpenConfiguration \/ WriteConfiguration \/ Refuse \/ Interrupt \/ CreateFlow
               \/ RestoreConfiguration \/ (\E n \in Names : Publish(n)) \/ UNCHANGED vars
      BY <3>3, TypesOf
         DEF OpenConfiguration, WriteConfiguration, Refuse, Interrupt, CreateFlow,
             RestoreConfiguration, Publish, vars, directoryVars
    <3>. QED
      BY <1>3, <3>1, <3>2, <3>3
  <2>6. mcp' \in Nat /\ variables' \in [Names -> Values]
    <3>1. CASE WriteConfiguration
      BY <3>1, TypesOf, RolesAre DEF WriteConfiguration
    <3>2. CASE \E n \in Names : Publish(n)
      <4>1. PICK n \in Names : Publish(n)
        BY <3>2
      <4>2. Outputs[n] \in Values
        <5>1. (CASE n = "API_AUDIENCE"     -> mine["api"]
                 [] n = "VSCODE_CLIENT_ID" -> mine["vscode"]
                 [] n = "IOS_CLIENT_ID"    -> mine["ios"]
                 [] OTHER                  -> 0) \in Nat
          BY TypesOf, RolesAre
        <5>. QED
          BY <5>1 DEF Outputs, Variables, Values
      <4>. QED
        BY <4>1, <4>2, TypesOf DEF Publish
    <3>3. CASE \/ OpenConfiguration \/ Refuse \/ Interrupt \/ CreateFlow \/ RestoreConfiguration
               \/ (\E role \in Roles : EnsurePrincipal(role))
               \/ (\E c \in Clients : IncludeInFlow(c)) \/ UNCHANGED vars
      BY <3>3, TypesOf
         DEF OpenConfiguration, Refuse, Interrupt, CreateFlow, RestoreConfiguration,
             EnsurePrincipal, IncludeInFlow, vars, outputVars
    <3>. QED
      BY <1>3, <3>1, <3>2, <3>3
  <2>7. flow' \in BOOLEAN /\ torn' \in BOOLEAN /\ finished' \in BOOLEAN
    BY <1>3, TypesOf
       DEF OpenConfiguration, WriteConfiguration, Refuse, Interrupt, CreateFlow, RestoreConfiguration,
           EnsurePrincipal, IncludeInFlow, Publish, vars, directoryVars, outputVars
  <2>8. budget' \in Nat
    <3>1. CASE Interrupt
      BY <3>1, TypesOf DEF Interrupt
    <3>. QED
      BY <1>3, <3>1, TypesOf
         DEF OpenConfiguration, WriteConfiguration, Refuse, CreateFlow, RestoreConfiguration,
             EnsurePrincipal, IncludeInFlow, Publish, vars
  <2>9. TypeOK'
    <3>1. /\ apps' \in Seq(Registrations) /\ principals' \subseteq DOMAIN apps'
          /\ included' \subseteq DOMAIN apps' /\ grants' \subseteq Grants /\ minted' \in Nat
      BY <1>1, <2>1, <2>5, TypesOf
    <3>2. mine' \in [Roles -> Nat] /\ ids' \in [Scopes -> Nat] /\ pc' \in 0 .. Len(Program)
      BY <2>1, <2>3, TypesOf, Rows
    <3>. QED
      BY <2>6, <2>7, <2>8, <3>1, <3>2 DEF TypeOK
  <2>. QED
    BY <1>1, <2>4, <2>9
<1>. QED
  BY <1>2, <1>3

(* A change of the consents alone.                                         *)
LEMMA ConsentStep ==
  ASSUME BootstrapInv, UNCHANGED <<apps, principals, included, minted, flow, outputVars,
                                   mine, ids, finished, budget>>,
         pc' = pc \/ (pc > 3 /\ Proceed),
         grants' \subseteq Grants, GrantsSound(apps, grants')
  PROVE  BootstrapInv'
<1>1. pc' \in 0 .. 18 /\ (pc' = 0 \/ pc' = pc \/ (pc > 3 /\ pc' = pc + 1))
  <2>1. CASE pc > 3 /\ Proceed
    BY <2>1, TypesOf, ProceedAhead DEF BootstrapInv
  <2>. QED
    BY <2>1, TypesOf DEF BootstrapInv
<1>2. RunKnows'
  BY <1>1, KnowledgeStays DEF BootstrapInv
<1>3. TypeOK'
  <2>1. UNCHANGED <<mcp, torn, variables>>
    BY DEF outputVars
  <2>2. flow' \in BOOLEAN /\ torn' \in BOOLEAN /\ finished' \in BOOLEAN
    BY <2>1, TypesOf DEF BootstrapInv
  <2>. QED
    BY <1>1, <2>1, <2>2, TypesOf, Rows DEF BootstrapInv, TypeOK
<1>. QED
  BY <1>2, <1>3 DEF BootstrapInv

LEMMA GrantStep ==
  ASSUME BootstrapInv, NEW c \in Clients, GrantAdminConsent(c)
  PROVE  BootstrapInv'
<1>. USE DEF BootstrapInv
<1>1. pc > 3 /\ Proceed
  BY AtRow, TypesOf DEF GrantAdminConsent
<1>2. Known(c) /\ mine[c] \in Nat /\ mine["api"] \in Nat
  BY <1>1, KnownAll, TypesOf, RolesAre
<1>3. Granted(c) = {ScopeOf(c)} /\ Granted(c) \subseteq Scopes
  BY ScopesAre DEF Granted
<1>4. \A g \in grants' :
         \/ g \in grants
         \/ g = [client |-> mine[c], api |-> mine["api"], tenantWide |-> TRUE, scopes |-> Granted(c)]
         \/ \E current \in grants : /\ current.client = mine[c]
                                   /\ g = [current EXCEPT !.scopes = @ \cup Granted(c)]
  BY DEF GrantAdminConsent, Between
<1>5. ASSUME NEW g \in grants'
      PROVE  /\ g \in Grants /\ g.client \in DOMAIN apps /\ apps[g.client].role \in Clients
             /\ g.scopes = {ScopeOf(apps[g.client].role)}
  <2>1. CASE g \in grants
    BY <2>1, TypesOf DEF GrantsSound
  <2>2. CASE g = [client |-> mine[c], api |-> mine["api"], tenantWide |-> TRUE, scopes |-> Granted(c)]
    <3>1. g \in Grants
      BY <1>2, <1>3, <2>2 DEF Grants
    <3>. QED
      BY <1>2, <1>3, <2>2, <3>1 DEF Known
  <2>3. CASE \E current \in grants : /\ current.client = mine[c]
                                    /\ g = [current EXCEPT !.scopes = @ \cup Granted(c)]
    <3>1. PICK current \in grants : /\ current.client = mine[c]
                                    /\ g = [current EXCEPT !.scopes = @ \cup Granted(c)]
      BY <2>3
    <3>2. current \in Grants /\ current.scopes = {ScopeOf(c)}
      BY <1>2, <3>1, TypesOf DEF GrantsSound, Known
    <3>3. g.client = mine[c] /\ g.scopes = {ScopeOf(c)} /\ g \in Grants
      BY <1>3, <3>1, <3>2 DEF Grants
    <3>. QED
      BY <1>2, <3>3 DEF Known
  <2>. QED
    BY <1>4, <2>1, <2>2, <2>3
<1>6. GrantsSound(apps, grants') /\ grants' \subseteq Grants
  BY <1>5 DEF GrantsSound
<1>. QED
  BY <1>1, <1>6, ConsentStep DEF GrantAdminConsent

LEMMA AloneStep ==
  ASSUME BootstrapInv, NEW a \in DOMAIN apps, NEW c \in DOMAIN apps, ConsentAlone(a, c)
  PROVE  BootstrapInv'
<1>. USE DEF BootstrapInv
<1>. DEFINE new == [client |-> c, api |-> a, tenantWide |-> FALSE, scopes |-> {ScopeOf(apps[c].role)}]
<1>1. grants' = grants \cup {new} /\ apps[c].role \in Clients
  BY DEF ConsentAlone
<1>2. new \in Grants
  <2>1. a \in Nat /\ c \in Nat
    BY TypesOf, AppsAt
  <2>2. {ScopeOf(apps[c].role)} \subseteq Scopes
    BY ScopesAre
  <2>. QED
    BY <2>1, <2>2 DEF Grants
<1>3. grants' \subseteq Grants
  BY <1>1, <1>2, TypesOf
<1>4. ASSUME NEW g \in grants'
      PROVE  /\ g.client \in DOMAIN apps /\ apps[g.client].role \in Clients
             /\ g.scopes = {ScopeOf(apps[g.client].role)}
  <2>1. CASE g \in grants
    BY <2>1 DEF GrantsSound
  <2>2. CASE g = new
    BY <1>1, <2>2
  <2>. QED
    BY <1>1, <1>4, <2>1, <2>2
<1>5. GrantsSound(apps, grants')
  BY <1>4 DEF GrantsSound
<1>. QED
  BY <1>3, <1>5, ConsentStep DEF ConsentAlone, runVars

LEMMA InvNext == BootstrapInv /\ [Next]_vars => BootstrapInv'
<1>. SUFFICES ASSUME BootstrapInv, [Next]_vars PROVE BootstrapInv'
  OBVIOUS
<1>1. CASE EnsureApi
  BY <1>1, ApiStep
<1>2. CASE \E c \in Clients : EnsureClient(c)
  BY <1>2, ClientStep
<1>3. CASE \E c \in Clients : GrantAdminConsent(c)
  BY <1>3, GrantStep
<1>4. CASE \E a, c \in DOMAIN apps : ConsentAlone(a, c)
  BY <1>4, AloneStep
<1>5. CASE \/ Begin \/ OpenConfiguration \/ WriteConfiguration \/ Refuse \/ Interrupt
           \/ CreateFlow \/ RestoreConfiguration
           \/ (\E role \in Roles : EnsurePrincipal(role)) \/ (\E c \in Clients : IncludeInFlow(c))
           \/ (\E n \in Names : Publish(n)) \/ UNCHANGED vars
  BY <1>5, QuietStep
<1>. QED
  BY <1>1, <1>2, <1>3, <1>4, <1>5 DEF Next, Step

(* From a tenant that is in order: what a run knows of its registrations   *)
(* is so, and clients and consents refer to what there is.                 *)
THEOREM BootstrapInvariant == Spec => []BootstrapInv
<1>1. Init => BootstrapInv
  BY InvInit
<1>. QED
  BY <1>1, InvNext, PTL DEF Spec

(* Every variable of the bootstrap keeps its type.                         *)
THEOREM BootstrapTypeCorrect == Spec => []TypeOK
<1>1. BootstrapInv => TypeOK
  BY DEF BootstrapInv
<1>. QED
  BY <1>1, BootstrapInvariant, PTL

(* No client's consent holds the other client's scope                      *)
(* (grant_admin_consent, bootstrap-identity.py:236).                       *)
THEOREM ConsentsAreLeast == Spec => []LeastPrivilege
<1>1. BootstrapInv => LeastPrivilege
  BY DEF BootstrapInv, LeastPrivilege
<1>. QED
  BY <1>1, BootstrapInvariant, PTL

(* A client requires a permission that the API has                         *)
(* (ensure_client_application, bootstrap-identity.py:185).                 *)
THEOREM RequirementsHold == Spec => []RequiredPermissionsExist
<1>1. BootstrapInv => RequiredPermissionsExist
  BY DEF BootstrapInv, RequiredPermissionsExist
<1>. QED
  BY <1>1, BootstrapInvariant, PTL

(* What a step may never do to a role's registration.                      *)
KeptBy(role) ==
  /\ Matching(role) # {} => Matching(role)' = Matching(role)
  /\ \A a \in Matching(role), s \in Scopes :
       apps[a].scopes[s] # 0 => apps'[a].scopes[s] = apps[a].scopes[s]

LEMMA SavingKeeps ==
  ASSUME TypeOK, NEW role \in Roles, NEW r \in Registrations, r.role = role, Save(role, r),
         \A a \in Matching(role), s \in Scopes :
           apps[a].scopes[s] # 0 => r.scopes[s] = apps[a].scopes[s]
  PROVE  \A other \in Roles : KeptBy(other)
<1>1. /\ DOMAIN apps \subseteq DOMAIN apps'
      /\ \A a \in DOMAIN apps : apps'[a].role = apps[a].role
      /\ \A a \in DOMAIN apps' : a # mine'[role] => a \in DOMAIN apps /\ apps'[a] = apps[a]
      /\ mine'[role] \in DOMAIN apps' /\ apps'[mine'[role]] = r
      /\ Matching(role) # {} => mine'[role] \in Matching(role) /\ DOMAIN apps' = DOMAIN apps
      /\ Matching(role) = {} => mine'[role] \notin DOMAIN apps
  BY TypesOf, Saving
<1>. TAKE other \in Roles
<1>2. Matching(other) # {} => Matching(other)' = Matching(other)
  <2>1. CASE Matching(role) # {}
    BY <1>1, <2>1 DEF Matching
  <2>2. CASE Matching(role) = {}
    BY <1>1, <2>2 DEF Matching
  <2>. QED
    BY <2>1, <2>2
<1>3. ASSUME NEW a \in Matching(other), NEW s \in Scopes, apps[a].scopes[s] # 0
      PROVE  apps'[a].scopes[s] = apps[a].scopes[s]
  <2>1. CASE a = mine'[role]
    <3>1. a \in Matching(role)
      BY <1>1, <2>1 DEF Matching
    <3>. QED
      BY <1>1, <1>3, <2>1, <3>1
  <2>2. CASE a # mine'[role]
    BY <1>1, <2>2 DEF Matching
  <2>. QED
    BY <2>1, <2>2
<1>. QED
  BY <1>2, <1>3 DEF KeptBy

LEMMA StepsKeep == BootstrapInv /\ Next => \A role \in Roles : KeptBy(role)
<1>. SUFFICES ASSUME BootstrapInv, Next PROVE \A role \in Roles : KeptBy(role)
  OBVIOUS
<1>. USE DEF BootstrapInv
<1>1. CASE EnsureApi
  <2>1. Save("api", ApiRegistration) /\ \A a \in Matching("api") : OldScopes = apps[a].scopes
    BY <1>1, ApiSaved
  <2>2. ApiRegistration \in Registrations /\ ApiRegistration.role = "api" /\ "api" \in Roles
    BY Completing, TypesOf, RolesAre DEF ApiRegistration
  <2>3. \A a \in Matching("api"), s \in Scopes :
          apps[a].scopes[s] # 0 => ApiRegistration.scopes[s] = apps[a].scopes[s]
    BY <2>1, Completing, TypesOf DEF ApiRegistration
  <2>. QED
    BY <2>1, <2>2, <2>3, SavingKeeps
<1>2. CASE \E c \in Clients : EnsureClient(c)
  <2>1. PICK c \in Clients : EnsureClient(c)
    BY <1>2
  <2>2. Save(c, ClientRegistration(c)) /\ ClientRegistration(c) \in Registrations
    BY <2>1, ClientSaved
  <2>3. ClientRegistration(c).role = c /\ c \in Roles
    BY RolesAre DEF ClientRegistration
  <2>4. \A a \in Matching(c), s \in Scopes : apps[a].scopes[s] = 0
    BY DEF RegistrationsSound, Matching, NoScopes
  <2>. QED
    BY <2>2, <2>3, <2>4, SavingKeeps
<1>3. CASE apps' = apps
  BY <1>3 DEF KeptBy, Matching
<1>. QED
  BY <1>1, <1>2, <1>3
     DEF Next, Step, Begin, GrantAdminConsent, IncludeInFlow, EnsurePrincipal, OpenConfiguration,
         WriteConfiguration, Publish, Refuse, Interrupt, CreateFlow, RestoreConfiguration,
         ConsentAlone, directoryVars

(* "Renames the existing registrations in place" - no step of any run      *)
(* gives a role another registration, or a permission another id.          *)
THEOREM RegistrationsStay == Spec => RegistrationsKept
<1>1. BootstrapInv /\ [Next]_vars => [\A role \in Roles : KeptBy(role)]_vars
  BY StepsKeep
<1>. QED
  BY <1>1, BootstrapInvariant, PTL DEF Spec, RegistrationsKept, KeptBy

----------------------------------------------------------------------------
(* Two registrations under one role are never of the script's making, and  *)
(* where they are it goes no further than to the role.                     *)
Speaks == finished \/ mcp # 0 \/ torn \/ \E n \in Names : variables[n].tenant = "this"

SoleInv ==
  /\ \A role \in Roles : pc > Row[role] => ~Ambiguous(role)
  /\ Speaks => \A role \in Roles : ~Ambiguous(role)

LEMMA AtMostOne ==
  ASSUME NEW x, NEW S \in SUBSET {x} PROVE ~(Cardinality(S) > 1)
<1>1. IsFiniteSet({x}) /\ Cardinality({x}) = 1
  BY FS_Singleton
<1>2. IsFiniteSet(S) /\ Cardinality(S) <= 1
  BY <1>1, FS_Subset
<1>. QED
  BY <1>2, FS_CardinalityType

LEMMA StaysSole ==
  ASSUME BootstrapInv, [Next]_vars, NEW role \in Roles, ~Ambiguous(role)
  PROVE  ~Ambiguous(role)'
<1>1. CASE Matching(role)' = Matching(role)
  BY <1>1 DEF Ambiguous
<1>2. ASSUME NEW new \in Registrations, NEW of \in Roles, new.role = of, Save(of, new),
             Matching(role) = {}
      PROVE  ~Ambiguous(role)'
  <2>1. \A a \in DOMAIN apps' : a # mine'[of] => a \in DOMAIN apps /\ apps'[a] = apps[a]
    BY <1>2, Saving, TypesOf DEF BootstrapInv
  <2>2. Matching(role)' \subseteq {mine'[of]}
    BY <1>2, <2>1 DEF Matching
  <2>. QED
    BY <2>2, AtMostOne DEF Ambiguous
<1>3. CASE EnsureApi
  <2>1. Save("api", ApiRegistration) /\ ApiRegistration \in Registrations
    BY <1>3, ApiSaved, Completing, TypesOf DEF BootstrapInv
  <2>2. Matching(role) # {} => Matching(role)' = Matching(role)
    BY <1>3, StepsKeep DEF KeptBy, Next, Step
  <2>. QED
    BY <1>1, <1>2, <2>1, <2>2, RolesAre DEF ApiRegistration
<1>4. CASE \E c \in Clients : EnsureClient(c)
  <2>1. PICK c \in Clients : EnsureClient(c)
    BY <1>4
  <2>2. Save(c, ClientRegistration(c)) /\ ClientRegistration(c) \in Registrations
    BY <2>1, ClientSaved DEF BootstrapInv
  <2>3. Matching(role) # {} => Matching(role)' = Matching(role)
    BY <2>1, StepsKeep DEF KeptBy, Next, Step
  <2>4. c \in Roles /\ ClientRegistration(c).role = c
    BY RolesAre DEF ClientRegistration
  <2>. QED
    BY <1>1, <1>2, <2>2, <2>3, <2>4
<1>5. CASE apps' = apps
  BY <1>1, <1>5 DEF Matching
<1>. QED
  BY <1>3, <1>4, <1>5
     DEF Next, Step, Begin, GrantAdminConsent, IncludeInFlow, EnsurePrincipal, OpenConfiguration,
         WriteConfiguration, Publish, Refuse, Interrupt, CreateFlow, RestoreConfiguration,
         ConsentAlone, directoryVars, vars

(* How a step moves the run on.                                            *)
LEMMA RunMoves ==
  ASSUME BootstrapInv, [Next]_vars
  PROVE  /\ pc' \in 0 .. 18
         /\ \/ pc' = 0 \/ pc' = pc
            \/ pc = 0 /\ pc' = 1
            \/ pc \in 1 .. 3 /\ pc' = pc + 1
                 /\ \A role \in Roles : Row[role] = pc => ~Ambiguous(role)
            \/ pc > 3 /\ pc' = pc + 1
         /\ Speaks' => Speaks \/ pc > 3
<1>. USE DEF BootstrapInv
<1>0. pc \in 0 .. 18
  BY TypesOf
<1>1. CASE EnsureApi \/ \E c \in Clients : EnsureClient(c)
  <2>1. PICK role \in Roles : At("application", role) /\ ~Refused(role) /\ Proceed
    BY <1>1, RolesAre DEF EnsureApi, EnsureClient
  <2>2. pc \in 1 .. 3 /\ pc = Row[role] /\ pc' = pc + 1
    BY <1>0, <2>1, AtRow, Rows DEF Proceed
  <2>3. \A other \in Roles : Row[other] = pc => other = role
    BY <2>2, RolesAre DEF Row
  <2>4. Speaks' => Speaks
    BY <1>1 DEF EnsureApi, EnsureClient, outputVars, Speaks
  <2>. QED
    BY <1>0, <2>1, <2>2, <2>3, <2>4 DEF Refused
<1>2. CASE Begin \/ Refuse \/ Interrupt \/ CreateFlow \/ RestoreConfiguration \/ UNCHANGED vars
           \/ \E a, c \in DOMAIN apps : ConsentAlone(a, c)
  <2>1. Speaks' => Speaks
    BY <1>2 DEF Begin, Refuse, Interrupt, CreateFlow, RestoreConfiguration, ConsentAlone, vars,
                outputVars, Speaks
  <2>. QED
    BY <1>0, <1>2, <2>1
       DEF Begin, Refuse, Interrupt, CreateFlow, RestoreConfiguration, ConsentAlone, vars, runVars
<1>3. CASE \/ OpenConfiguration \/ WriteConfiguration
           \/ \E c \in Clients : GrantAdminConsent(c) \/ IncludeInFlow(c)
           \/ \E role \in Roles : EnsurePrincipal(role)
           \/ \E n \in Names : Publish(n)
  <2>1. /\ \E what \in {"open", "write", "grant", "include", "principal", "publish"}, of \in
             {"mcp.json"} \cup Clients \cup Roles \cup Names : At(what, of)
        /\ Proceed
    BY <1>3 DEF OpenConfiguration, WriteConfiguration, GrantAdminConsent, IncludeInFlow,
                EnsurePrincipal, Publish
  <2>2. pc > 3
    BY <1>0, <2>1, AtRow
  <2>. QED
    BY <1>0, <2>1, <2>2, ProceedAhead
<1>. QED
  BY <1>1, <1>2, <1>3 DEF Next, Step

LEMMA SoleStep == BootstrapInv /\ SoleInv /\ [Next]_vars => SoleInv'
<1>. SUFFICES ASSUME BootstrapInv, SoleInv, [Next]_vars PROVE SoleInv'
  OBVIOUS
<1>0. pc \in 0 .. 18 /\ \A role \in Roles : Row[role] \in 1 .. 3
  BY RolesAre, TypesOf DEF Row, BootstrapInv
<1>1. pc > 3 => \A role \in Roles : ~Ambiguous(role)
  BY <1>0 DEF SoleInv
<1>2. ASSUME NEW role \in Roles, pc' > Row[role] PROVE ~Ambiguous(role)
  BY <1>0, <1>1, <1>2, RunMoves DEF SoleInv
<1>3. Speaks' => \A role \in Roles : ~Ambiguous(role)
  BY <1>1, RunMoves DEF SoleInv
<1>. QED
  BY <1>2, <1>3, StaysSole DEF SoleInv

(* A run that goes on from a role has found it alone.                      *)
THEOREM RolesAreSole == Spec => []SoleInv
<1>1. Init => SoleInv
  <2>. SUFFICES ASSUME Init PROVE SoleInv
    OBVIOUS
  <2>1. ~Speaks
    BY NamesAre DEF Init, Speaks, Variables
  <2>2. pc = 0 /\ \A role \in Roles : ~(0 > Row[role])
    BY RolesAre DEF Init, Row
  <2>. QED
    BY <2>1, <2>2 DEF SoleInv
<1>. QED
  BY <1>1, SoleStep, BootstrapInvariant, PTL DEF Spec

(* Where two registrations match a role no run ends well or tells anybody  *)
(* which it has taken (find_application, bootstrap-identity.py:97).        *)
THEOREM AmbiguityIsSilent == Spec => []AmbiguityPublishesNothing
<1>1. SoleInv => AmbiguityPublishesNothing
  BY DEF SoleInv, Speaks, AmbiguityPublishesNothing
<1>. QED
  BY <1>1, RolesAreSole, PTL

----------------------------------------------------------------------------
(* What a run has reached, and what stays of it through every later one:   *)
(* the consents, and the variables, are those of the registrations that    *)
(* the roles have.                                                         *)
Chosen(role) == CHOOSE a \in Matching(role) : TRUE
ChosenApps == [role \in Roles |-> Chosen(role)]

Settled == \A role \in Roles : Matching(role) # {}
Consenting(c) == \E g \in grants : g.client = Chosen(c) /\ g.api = Chosen("api")
Published(n) == variables[n] = Variables("this", ChosenApps)[n]

GrantRow == [vscode |-> 7, ios |-> 8]
Line == [ISSUER |-> 13, JWKS_URL |-> 14, TENANT_ID |-> 15,
         API_AUDIENCE |-> 16, VSCODE_CLIENT_ID |-> 17, IOS_CLIENT_ID |-> 18]

ProgressInv ==
  /\ \A c \in Clients : pc > GrantRow[c] \/ finished => Consenting(c)
  /\ \A n \in Names : pc > Line[n] \/ finished => Published(n)
  /\ finished => Settled
  /\ mcp # 0 => Matching("vscode") # {} /\ mcp = Chosen("vscode")

LEMMA LateRows ==
  /\ Program[7] = <<"grant", "vscode">> /\ Program[8] = <<"grant", "ios">>
  /\ \A n \in Names : Line[n] \in 13 .. 18 /\ Program[Line[n]] = <<"publish", n>>
  /\ \A i \in 13 .. 18 : \E n \in Names : Line[n] = i
  /\ \A i \in (1 .. 18) \ {12} : Program[i][1] # "write"
<1>1. /\ Program[13] = <<"publish", "ISSUER">> /\ Program[14] = <<"publish", "JWKS_URL">>
      /\ Program[15] = <<"publish", "TENANT_ID">> /\ Program[16] = <<"publish", "API_AUDIENCE">>
      /\ Program[17] = <<"publish", "VSCODE_CLIENT_ID">>
      /\ Program[18] = <<"publish", "IOS_CLIENT_ID">>
  BY DEF Program
<1>2. \A i \in (1 .. 18) \ {12} : Program[i][1] # "write"
  BY DEF Program
<1>3. Program[7] = <<"grant", "vscode">> /\ Program[8] = <<"grant", "ios">>
  BY DEF Program
<1>4. /\ Line["ISSUER"] = 13 /\ Line["JWKS_URL"] = 14 /\ Line["TENANT_ID"] = 15
      /\ Line["API_AUDIENCE"] = 16 /\ Line["VSCODE_CLIENT_ID"] = 17 /\ Line["IOS_CLIENT_ID"] = 18
  BY DEF Line
<1>5. \A i \in 13 .. 18 : \E n \in Names : Line[n] = i
  BY <1>4, NamesAre
<1>6. \A n \in Names : Line[n] \in 13 .. 18 /\ Program[Line[n]] = <<"publish", n>>
  BY <1>1, <1>4, NamesAre
<1>. QED
  BY <1>2, <1>3, <1>5, <1>6

(* A run past the registrations holds those the roles have.                *)
LEMMA HoldsChosen ==
  ASSUME BootstrapInv, SoleInv, pc > 3
  PROVE  /\ Settled
         /\ \A role \in Roles : mine[role] = Chosen(role)
<1>. SUFFICES ASSUME NEW role \in Roles
              PROVE  Matching(role) # {} /\ mine[role] = Chosen(role)
  BY DEF Settled
<1>1. Row[role] \in 1 .. 3 /\ pc \in 0 .. 18
  BY RolesAre, TypesOf DEF Row, BootstrapInv
<1>2. ~Ambiguous(role)
  BY <1>1 DEF SoleInv
<1>3. mine[role] \in Matching(role)
  BY KnownAll DEF BootstrapInv, Known, Matching
<1>. QED
  BY <1>2, <1>3, OnlyOne, TypesOf DEF BootstrapInv, Chosen

LEMMA ChosenStays ==
  ASSUME BootstrapInv, [Next]_vars, NEW role \in Roles, Matching(role) # {}
  PROVE  Matching(role)' # {} /\ Chosen(role)' = Chosen(role)
<1>1. CASE Next
  BY <1>1, StepsKeep DEF KeptBy, Chosen
<1>2. CASE UNCHANGED vars
  BY <1>2 DEF vars, directoryVars, Matching, Chosen
<1>. QED
  BY <1>1, <1>2

(* A consent is only ever added to.                                        *)
LEMMA ConsentStays ==
  ASSUME BootstrapInv, [Next]_vars, NEW c \in Clients, Settled, Consenting(c)
  PROVE  Consenting(c)'
<1>1. Chosen(c)' = Chosen(c) /\ Chosen("api")' = Chosen("api")
  BY ChosenStays, RolesAre DEF Settled
<1>2. PICK g \in grants : g.client = Chosen(c) /\ g.api = Chosen("api")
  BY DEF Consenting
<1>3. \E h \in grants' : h.client = g.client /\ h.api = g.api
  <2>1. CASE \E d \in Clients : GrantAdminConsent(d)
    <3>1. \/ grants \subseteq grants'
          \/ \E current \in grants, d \in Clients :
               grants' = (grants \ {current}) \cup {[current EXCEPT !.scopes = @ \cup Granted(d)]}
      BY <2>1 DEF GrantAdminConsent, Between
    <3>2. ASSUME NEW current \in grants, NEW d \in Clients,
                 grants' = (grants \ {current}) \cup {[current EXCEPT !.scopes = @ \cup Granted(d)]}
          PROVE  \E h \in grants' : h.client = g.client /\ h.api = g.api
      <4>1. current \in Grants
        BY TypesOf DEF BootstrapInv
      <4>2. /\ [current EXCEPT !.scopes = @ \cup Granted(d)].client = current.client
            /\ [current EXCEPT !.scopes = @ \cup Granted(d)].api = current.api
        BY <4>1 DEF Grants
      <4>. QED
        BY <3>2, <4>2
    <3>. QED
      BY <3>1, <3>2
  <2>2. CASE ~\E d \in Clients : GrantAdminConsent(d)
    <3>1. grants \subseteq grants'
      BY <2>2 DEF Next, Step, Begin, EnsureApi, EnsureClient, IncludeInFlow, EnsurePrincipal,
                  OpenConfiguration, WriteConfiguration, Publish, Refuse, Interrupt, CreateFlow,
                  RestoreConfiguration, ConsentAlone, directoryVars, vars
    <3>. QED
      BY <3>1
  <2>. QED
    BY <2>1, <2>2
<1>. QED
  BY <1>1, <1>2, <1>3 DEF Consenting

LEMMA ConsentMade ==
  ASSUME BootstrapInv, SoleInv, NEW c \in Clients, GrantAdminConsent(c)
  PROVE  Consenting(c)'
<1>1. pc > 3
  BY AtRow, TypesOf DEF GrantAdminConsent, BootstrapInv
<1>2. mine[c] = Chosen(c)' /\ mine["api"] = Chosen("api")'
  <2>1. mine[c] = Chosen(c) /\ mine["api"] = Chosen("api")
    BY <1>1, HoldsChosen, RolesAre
  <2>. QED
    BY <2>1 DEF GrantAdminConsent, Chosen, Matching
<1>3. CASE grants' = grants \cup {[client |-> mine[c], api |-> mine["api"],
                                   tenantWide |-> TRUE, scopes |-> Granted(c)]}
  <2>. DEFINE new == [client |-> mine[c], api |-> mine["api"],
                      tenantWide |-> TRUE, scopes |-> Granted(c)]
  <2>1. new \in grants' /\ new.client = mine[c] /\ new.api = mine["api"]
    BY <1>3
  <2>. HIDE DEF new
  <2>. QED
    BY <1>2, <2>1 DEF Consenting
<1>4. CASE \E current \in Between(c) :
             grants' = (grants \ {current}) \cup {[current EXCEPT !.scopes = @ \cup Granted(c)]}
  <2>1. PICK current \in Between(c) :
          grants' = (grants \ {current}) \cup {[current EXCEPT !.scopes = @ \cup Granted(c)]}
    BY <1>4
  <2>2. current \in Grants /\ current.client = mine[c] /\ current.api = mine["api"]
    BY <2>1, TypesOf DEF Between, BootstrapInv
  <2>3. /\ [current EXCEPT !.scopes = @ \cup Granted(c)].client = mine[c]
        /\ [current EXCEPT !.scopes = @ \cup Granted(c)].api = mine["api"]
    BY <2>2 DEF Grants
  <2>. QED
    BY <1>2, <2>1, <2>3 DEF Consenting
<1>. QED
  BY <1>3, <1>4 DEF GrantAdminConsent

LEMMA PublicationStays ==
  ASSUME BootstrapInv, SoleInv, [Next]_vars, Settled, NEW n \in Names,
         Published(n) \/ Publish(n)
  PROVE  Published(n)'
<1>1. ChosenApps' = ChosenApps
  BY ChosenStays DEF Settled, ChosenApps
<1>2. \A m \in Names : Publish(m) => Outputs = Variables("this", ChosenApps)
  <2>. SUFFICES ASSUME NEW m \in Names, Publish(m) PROVE mine = ChosenApps
    BY DEF Outputs
  <2>1. pc > 3
    BY AtRow, TypesOf DEF Publish, BootstrapInv
  <2>. QED
    BY <2>1, HoldsChosen, TypesOf DEF BootstrapInv, ChosenApps
<1>3. variables \in [Names -> Values]
  BY TypesOf DEF BootstrapInv
<1>4. \/ UNCHANGED variables
      \/ \E m \in Names : Publish(m) /\ variables' = [variables EXCEPT ![m] = Outputs[m]]
  BY DEF Next, Step, Begin, EnsureApi, EnsureClient, EnsurePrincipal, GrantAdminConsent,
         IncludeInFlow, OpenConfiguration, WriteConfiguration, Publish, Refuse, Interrupt,
         CreateFlow, RestoreConfiguration, ConsentAlone, outputVars, vars
<1>5. Publish(n) => variables'[n] = Variables("this", ChosenApps)[n]
  BY <1>2, <1>3 DEF Publish
<1>6. Published(n) => variables'[n] = Variables("this", ChosenApps)[n]
  BY <1>2, <1>3, <1>4 DEF Published
<1>. QED
  BY <1>1, <1>5, <1>6 DEF Published, Variables

(* The rows of the consents and the variables are passed only by making    *)
(* them, and a run ends well only past the last.                           *)
LEMMA RowsPassed ==
  ASSUME BootstrapInv, [Next]_vars
  PROVE  /\ \A c \in Clients : pc = GrantRow[c] /\ pc' > pc => GrantAdminConsent(c)
         /\ \A n \in Names : pc = Line[n] /\ pc' > pc => Publish(n)
         /\ finished' => finished \/ (pc = 18 /\ Publish("IOS_CLIENT_ID"))
         /\ mcp' # 0 => mcp' = mcp \/ (pc > 3 /\ mcp' = mine["vscode"])
<1>. USE DEF BootstrapInv
<1>0. pc \in 0 .. 18 /\ mcp \in Nat
  BY TypesOf
<1>1. ASSUME NEW what, NEW of, At(what, of) PROVE pc \in 1 .. 18 /\ Program[pc] = <<what, of>>
  BY <1>0, <1>1 DEF At
<1>2. ASSUME NEW c \in Clients, pc = GrantRow[c] PROVE Program[pc] = <<"grant", c>> /\ pc \in {7, 8}
  BY <1>2, LateRows, RolesAre DEF GrantRow
<1>3. ASSUME NEW n \in Names, pc = Line[n] PROVE Program[pc] = <<"publish", n>> /\ pc \in 13 .. 18
  BY <1>3, LateRows
<1>4. ASSUME pc' > pc, pc > 3
      PROVE  \/ \E of : At("open", of) \/ At("write", of) \/ At("include", of) \/ At("principal", of)
             \/ \E c \in Clients : At("grant", c) /\ GrantAdminConsent(c)
             \/ \E n \in Names : At("publish", n) /\ Publish(n)
  <2>1. ~(EnsureApi \/ \E c \in Clients : EnsureClient(c))
    <3>1. ASSUME NEW of, At("application", of) PROVE FALSE
      BY <1>0, <1>4, <3>1, AtRow
    <3>. QED
      BY <3>1 DEF EnsureApi, EnsureClient
  <2>2. ~(Begin \/ Refuse \/ Interrupt \/ CreateFlow \/ RestoreConfiguration \/ UNCHANGED vars
          \/ \E a, c \in DOMAIN apps : ConsentAlone(a, c))
    BY <1>0, <1>4 DEF Begin, Refuse, Interrupt, CreateFlow, RestoreConfiguration, ConsentAlone,
                      vars, runVars
  <2>. QED
    BY <2>1, <2>2 DEF Next, Step, OpenConfiguration, WriteConfiguration, GrantAdminConsent,
                      IncludeInFlow, EnsurePrincipal, Publish
<1>5. ASSUME NEW c \in Clients, pc = GrantRow[c], pc' > pc PROVE GrantAdminConsent(c)
  BY <1>1, <1>2, <1>4, <1>5
<1>6. ASSUME NEW n \in Names, pc = Line[n], pc' > pc PROVE Publish(n)
  BY <1>1, <1>3, <1>4, <1>6
<1>7. finished' => finished \/ (pc = 18 /\ Publish("IOS_CLIENT_ID"))
  <2>1. \/ finished' = finished
        \/ \E n \in Names : Publish(n) /\ At("publish", n) /\ finished' = (finished \/ pc = Len(Program))
    BY DEF Next, Step, Begin, EnsureApi, EnsureClient, EnsurePrincipal, GrantAdminConsent,
           IncludeInFlow, OpenConfiguration, WriteConfiguration, Publish, Refuse, Interrupt,
           CreateFlow, RestoreConfiguration, ConsentAlone, vars
  <2>2. ASSUME NEW n \in Names, At("publish", n), pc = 18 PROVE n = "IOS_CLIENT_ID"
    <3>1. Program[18] = <<"publish", "IOS_CLIENT_ID">>
      BY DEF Program
    <3>. QED
      BY <1>1, <2>2, <3>1
  <2>. QED
    BY <2>1, <2>2, Rows
<1>8. mcp' # 0 => mcp' = mcp \/ (pc > 3 /\ mcp' = mine["vscode"])
  <2>1. WriteConfiguration => pc > 3 /\ mcp' = mine["vscode"]
    BY <1>0, AtRow DEF WriteConfiguration
  <2>2. CASE ~WriteConfiguration
    BY <2>2
       DEF Next, Step, Begin, EnsureApi, EnsureClient, EnsurePrincipal, GrantAdminConsent,
           IncludeInFlow, OpenConfiguration, Publish, Refuse, Interrupt,
           CreateFlow, RestoreConfiguration, ConsentAlone, outputVars, vars
  <2>. QED
    BY <2>1, <2>2
<1>. QED
  BY <1>5, <1>6, <1>7, <1>8

LEMMA ProgressStep == BootstrapInv /\ SoleInv /\ ProgressInv /\ [Next]_vars => ProgressInv'
<1>. SUFFICES ASSUME BootstrapInv, SoleInv, ProgressInv, [Next]_vars PROVE ProgressInv'
  OBVIOUS
<1>0. /\ pc \in 0 .. 18 /\ \A c \in Clients : GrantRow[c] \in {7, 8}
      /\ \A n \in Names : Line[n] \in 13 .. 18 /\ (Line[n] = 18 => n = "IOS_CLIENT_ID")
  BY RolesAre, TypesOf, NamesAre DEF GrantRow, Line, BootstrapInv
<1>1. pc > 3 \/ finished => Settled
  BY HoldsChosen DEF ProgressInv
<1>2. ASSUME NEW c \in Clients, pc' > GrantRow[c] \/ finished' PROVE Consenting(c)'
  <2>1. CASE GrantAdminConsent(c)
    BY <2>1, ConsentMade
  <2>2. CASE ~GrantAdminConsent(c)
    <3>1. pc > GrantRow[c] \/ finished
      BY <1>0, <1>2, <2>2, RunMoves, RowsPassed
    <3>2. pc > 3 \/ finished
      BY <1>0, <3>1
    <3>. QED
      BY <1>1, <3>1, <3>2, ConsentStays DEF ProgressInv
  <2>. QED
    BY <2>1, <2>2
<1>3. ASSUME NEW n \in Names, pc' > Line[n] \/ finished' PROVE Published(n)'
  <2>1. Publish(n) \/ pc > Line[n] \/ finished
    BY <1>0, <1>3, RunMoves, RowsPassed
  <2>2. Published(n) \/ Publish(n)
    BY <2>1 DEF ProgressInv
  <2>3. Publish(n) => pc > 3
    BY AtRow, TypesOf DEF Publish, BootstrapInv
  <2>4. pc > 3 \/ finished
    BY <1>0, <2>1, <2>3
  <2>. QED
    BY <1>1, <2>2, <2>4, PublicationStays
<1>4. finished' => Settled'
  <2>1. finished' => pc > 3 \/ finished
    BY RowsPassed
  <2>. QED
    BY <1>1, <2>1, ChosenStays DEF Settled
<1>5. ASSUME mcp' # 0 PROVE Matching("vscode")' # {} /\ mcp' = Chosen("vscode")'
  <2>1. Matching("vscode") # {} /\ mcp' = Chosen("vscode")
    BY <1>5, RowsPassed, HoldsChosen, RolesAre DEF ProgressInv, Settled
  <2>. QED
    BY <2>1, ChosenStays, RolesAre
<1>. QED
  BY <1>2, <1>3, <1>4, <1>5 DEF ProgressInv

(* What a run that has ended well leaves - consents and variables for the  *)
(* registrations that the roles have - every later one leaves too.         *)
THEOREM ProgressLasts == Spec => []ProgressInv
<1>1. Init => ProgressInv
  <2>. SUFFICES ASSUME Init PROVE ProgressInv
    OBVIOUS
  <2>1. pc = 0 /\ mcp = 0 /\ finished = FALSE
    BY DEF Init
  <2>2. (\A c \in Clients : ~(0 > GrantRow[c])) /\ \A n \in Names : ~(0 > Line[n])
    BY RolesAre, LateRows DEF GrantRow
  <2>. QED
    BY <2>1, <2>2 DEF ProgressInv
<1>. QED
  BY <1>1, ProgressStep, BootstrapInvariant, RolesAreSole, PTL DEF Spec
=============================================================================
