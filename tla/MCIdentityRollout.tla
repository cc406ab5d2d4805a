------------------------- MODULE MCIdentityRollout --------------------------
(* Tenants: an empty one; the registrations of before the rename, without  *)
(* or with the iPhone's; one half brought up to date; and two in which a   *)
(* registration was made anew beside the old one.                          *)
EXTENDS IdentityRollout

Api(renamed, scopes) ==
  [role |-> "api", renamed |-> renamed, requires |-> NoClaim,
   scopes |-> [s \in Scopes |-> IF s \in scopes THEN (IF s = "access" THEN 1 ELSE 2) ELSE 0]]
Client(c, renamed) ==
  [role |-> c, renamed |-> renamed, scopes |-> NoScopes,
   requires |-> [api |-> 1, scope |-> IF c = "vscode" THEN 1 ELSE 2]]
Consent(c, client) == [client |-> client, api |-> 1, tenantWide |-> TRUE, scopes |-> {ScopeOf(c)}]

Tenant(registrations, principalsOf, consents) ==
  [apps |-> registrations, principals |-> principalsOf, grants |-> consents, minted |-> 2]

MCTenants ==
  {Tenant(<<>>, {}, {}),
   Tenant(<<Api(FALSE, {"access"}), Client("vscode", FALSE)>>, {1, 2}, {Consent("vscode", 2)}),
   Tenant(<<Api(FALSE, Scopes), Client("vscode", FALSE), Client("ios", FALSE)>>, {1, 2, 3},
          {Consent("vscode", 2), Consent("ios", 3)}),
   Tenant(<<Api(TRUE, Scopes), Client("vscode", FALSE)>>, {1}, {}),
   Tenant(<<Api(TRUE, Scopes), Client("vscode", FALSE), Client("vscode", TRUE)>>, {1, 2},
          {Consent("vscode", 2)}),
   Tenant(<<Api(FALSE, {"access"}), Api(TRUE, {"access"})>>, {1}, {})}
=============================================================================
