----------------------------- MODULE JwksCache ------------------------------
(***************************************************************************)
(* The cache of the issuer's signing keys that every bearer token is       *)
(* checked against, and the readiness that depends on it.  `Lookups' are   *)
(* calls of get_key, which meet in the cache and queue for its lock; the   *)
(* start-up fetch (`Boot') is one more user of the same lock.  A step ends *)
(* where the code awaits: the lock, and the HTTP response.  What a         *)
(* response says is what the issuer published when it sent it, and time    *)
(* passes until it has arrived.                                            *)
(***************************************************************************)
EXTENDS Integers, FiniteSets

CONSTANTS Lookups, KeyIds, Boot, Free,
          InitialKeys,      \* what the issuer publishes at first
          Cooldown,         \* refresh_cooldown_seconds
          MinTtl, MaxTtl,   \* 60 and 21600 in _cache_ttl
          RequestedTtls,    \* what a response's Cache-Control, or the default, asks for
          MaxFlight,        \* how long a response may be under way, if it is used
          StartTime,        \* the monotonic clock when the process starts
          Horizon,          \* bound: the clock stops here
          Gated             \* whether traffic comes only through the readiness gate

ASSUME JwksAssumption ==
  /\ Boot \notin Lookups /\ Free \notin Lookups \cup {Boot}
  /\ InitialKeys \in (SUBSET KeyIds) \ {{}}
  /\ {Cooldown, MinTtl, MaxTtl, MaxFlight, StartTime, Horizon} \subseteq Nat
  /\ RequestedTtls \subseteq Nat
  /\ 0 < MinTtl /\ MinTtl <= MaxTtl
  /\ Gated \in BOOLEAN

Users == Lookups \cup {Boot}

VARIABLES
  now,          \* time.monotonic()
  published,    \* the key ids in the issuer's document
  retired,      \* history: when each key was last taken out of it
  keys, expiresAt, lastAttempt,
  lock,         \* the user that holds _lock, or Free
  document,     \* the key ids in the response that is under way, if any
  servedAt,     \* history: when the issuer sent that response
  pc,
  kid, forced,  \* the key a lookup wants; whether it was unknown
  began,        \* history: when the lookup read the clock
  answer        \* none, key, unknown (None) or error

issuerVars == <<published, retired>>
cacheVars  == <<keys, expiresAt, lastAttempt, lock>>
flightVars == <<document, servedAt>>
vars == <<now, issuerVars, cacheVars, flightVars, pc, kid, forced, began, answer>>

----------------------------------------------------------------------------
Fresh == now < expiresAt
Cooling == now - lastAttempt < Cooldown

CacheTtl(requested) ==
  IF requested > MaxTtl THEN MaxTtl ELSE IF requested < MinTtl THEN MinTtl ELSE requested

(* /readyz needs a loaded cache; an unready pod is not in the Service.     *)
Ready == keys # {}
Routed == pc[Boot] = "done" /\ (Gated => Ready)

Init ==
  /\ now = StartTime
  /\ published = InitialKeys
  /\ retired = [k \in KeyIds |-> StartTime]
  /\ keys = {}
  /\ expiresAt = 0
  /\ lastAttempt = 0
  /\ lock = Free
  /\ document = {}
  /\ servedAt = 0
  /\ pc = [x \in Users |-> IF x = Boot THEN "locking" ELSE "idle"]
  /\ kid = [x \in Lookups |-> CHOOSE k \in KeyIds : TRUE]  \* until it looks one up
  /\ forced = [x \in Users |-> x = Boot]
  /\ began = [x \in Lookups |-> StartTime]
  /\ answer = [x \in Lookups |-> "none"]

Goto(x, label) == pc' = [pc EXCEPT ![x] = label]

(* get_key returns what the cache holds by then; nobody asks the start-up. *)
Return(x, from) ==
  /\ Goto(x, "done")
  /\ answer' = IF x = Boot THEN answer
               ELSE [answer EXCEPT ![x] = IF kid[x] \in from THEN "key" ELSE "unknown"]

(* verify_token calls get_key, and may do so again for a later token.      *)
GetKey(x, k) ==
  /\ pc[x] \in {"idle", "done"} /\ Routed
  /\ kid' = [kid EXCEPT ![x] = k]
  /\ began' = [began EXCEPT ![x] = now]
  /\ forced' = [forced EXCEPT ![x] = k \notin keys]
  /\ \/ /\ k \in keys /\ Fresh
        /\ Goto(x, "done")
        /\ answer' = [answer EXCEPT ![x] = "key"]
     \/ /\ ~(k \in keys /\ Fresh)
        /\ Goto(x, "locking")
        /\ answer' = [answer EXCEPT ![x] = "none"]
  /\ UNCHANGED <<now, issuerVars, cacheVars, flightVars>>

(* Inside the lock nothing is as it was: look again before fetching.  The  *)
(* mutant forgets the cooldown.                                            *)
NeedlessIfFresh(x) == ~forced[x] /\ keys # {} /\ Fresh
Needless(x) ==
  \/ ~forced[x] /\ keys # {} /\ Fresh
  \/ forced[x] /\ Cooling

Acquire(x) ==
  /\ pc[x] = "locking" /\ lock = Free
  /\ \/ /\ Needless(x)
        /\ Return(x, keys)
        /\ UNCHANGED <<lock, lastAttempt>>
     \/ /\ ~Needless(x)
        /\ lock' = x
        /\ lastAttempt' = now
        /\ Goto(x, "fetching")
        /\ UNCHANGED answer
  /\ UNCHANGED <<now, issuerVars, keys, expiresAt, flightVars, kid, forced, began>>

(* The issuer answers the request with the keys of that moment. *)
Serve(x) ==
  /\ pc[x] = "fetching"
  /\ document' = published
  /\ servedAt' = now
  /\ Goto(x, "receiving")
  /\ UNCHANGED <<now, issuerVars, cacheVars, kid, forced, began, answer>>

Forget == document' = {} /\ servedAt' = 0

(* The response has arrived, and its time to live starts now.              *)
Fetch(x) ==
  /\ pc[x] = "receiving"
  /\ \E requested \in RequestedTtls : expiresAt' = now + CacheTtl(requested)
  /\ keys' = document
  /\ lock' = Free
  /\ Forget
  /\ Return(x, document)
  /\ UNCHANGED <<now, issuerVars, lastAttempt, kid, forced, began>>

(* No response, an HTTP error, a time-out, or a document without a usable  *)
(* key: _refresh raises, the old keys stay.  Mutants: serve them; keep the *)
(* lock.                                                                   *)
FetchFailsSoftly(x) ==
  /\ pc[x] \in {"fetching", "receiving"}
  /\ lock' = Free
  /\ Forget
  /\ Return(x, keys)
  /\ UNCHANGED <<now, issuerVars, keys, expiresAt, lastAttempt, kid, forced, began>>
FetchFailsLocked(x) ==
  /\ pc[x] \in {"fetching", "receiving"}
  /\ Forget
  /\ Goto(x, "done")
  /\ answer' = IF x = Boot THEN answer ELSE [answer EXCEPT ![x] = "error"]
  /\ UNCHANGED <<now, issuerVars, cacheVars, kid, forced, began>>
FetchFails(x) ==
  /\ pc[x] \in {"fetching", "receiving"}
  /\ lock' = Free
  /\ Forget
  /\ Goto(x, "done")
  /\ answer' = IF x = Boot THEN answer ELSE [answer EXCEPT ![x] = "error"]
  /\ UNCHANGED <<now, issuerVars, keys, expiresAt, lastAttempt, kid, forced, began>>

(* A key that PyJWK cannot build is neither an HTTPError nor a ValueError, *)
(* so start raises it too and the process does not come up.                *)
StartRaises ==
  /\ pc[Boot] = "receiving"
  /\ lock' = Free
  /\ Forget
  /\ Goto(Boot, "raised")
  /\ UNCHANGED <<now, issuerVars, keys, expiresAt, lastAttempt, kid, forced, began, answer>>

(* The client of a request goes away; `async with' releases the lock.      *)
Cancel(x) ==
  /\ x # Boot /\ pc[x] \in {"locking", "fetching", "receiving"}
  /\ lock' = IF lock = x THEN Free ELSE lock
  /\ IF lock = x THEN Forget ELSE UNCHANGED flightVars
  /\ Goto(x, "done")
  /\ answer' = [answer EXCEPT ![x] = "error"]
  /\ UNCHANGED <<now, issuerVars, keys, expiresAt, lastAttempt, kid, forced, began>>

----------------------------------------------------------------------------
(* The issuer rotates its keys, never down to none. *)
Publish(k) ==
  /\ k \notin published
  /\ published' = published \cup {k}
  /\ UNCHANGED <<now, retired, cacheVars, flightVars, pc, kid, forced, began, answer>>

Retire(k) ==
  /\ k \in published /\ published # {k}
  /\ published' = published \ {k}
  /\ retired' = [retired EXCEPT ![k] = now]
  /\ UNCHANGED <<now, cacheVars, flightVars, pc, kid, forced, began, answer>>

(* No response that is used has been under way for longer than MaxFlight.  *)
Tick ==
  /\ now < Horizon
  /\ (\E x \in Users : pc[x] = "receiving") => now < servedAt + MaxFlight
  /\ now' = now + 1
  /\ UNCHANGED <<issuerVars, cacheVars, flightVars, pc, kid, forced, began, answer>>

UserStep(x) == Acquire(x) \/ Serve(x) \/ Fetch(x) \/ FetchFails(x)

Next ==
  \/ \E x \in Users : UserStep(x) \/ Cancel(x)
  \/ \E x \in Lookups, k \in KeyIds : GetKey(x, k)
  \/ StartRaises
  \/ \E k \in KeyIds : Publish(k) \/ Retire(k)
  \/ Tick

Spec == Init /\ [][Next]_vars

(* The lock is handed out in order and the HTTP client has time-outs, so   *)
(* every wait ends; clients keep sending tokens, and time passes.          *)
FairSpec ==
  /\ Spec
  /\ WF_vars(Tick)
  /\ \A x \in Users : SF_vars(UserStep(x))
  /\ \A x \in Lookups : WF_vars(\E k \in KeyIds : GetKey(x, k))

----------------------------------------------------------------------------
TypeOK ==
  /\ now \in Nat
  /\ published \in (SUBSET KeyIds) \ {{}}
  /\ retired \in [KeyIds -> Nat]
  /\ keys \subseteq KeyIds
  /\ expiresAt \in Nat /\ lastAttempt \in Nat
  /\ lock \in Users \cup {Free}
  /\ document \subseteq KeyIds /\ servedAt \in Nat
  /\ pc \in [Users -> {"idle", "locking", "fetching", "receiving", "done", "raised"}]
  /\ \A x \in Users : pc[x] \in {"fetching", "receiving"} <=> lock = x
  /\ kid \in [Lookups -> KeyIds]
  /\ forced \in [Users -> BOOLEAN]
  /\ began \in [Lookups -> Nat]
  /\ answer \in [Lookups -> {"none", "key", "unknown", "error"}]

(* A key that the issuer has taken back verifies no token for longer than  *)
(* the longest time to live, and what a response sent before it was taken  *)
(* back may be under way: whatever refreshes fail, wait or overlap, a      *)
(* lookup begun later than that is not given the key.                      *)
RetiredKeyDies ==
  \A x \in Lookups :
    answer[x] = "key" /\ kid[x] \notin published =>
      began[x] < retired[kid[x]] + MaxTtl + MaxFlight

(* "The cooldown prevents an attacker from turning random key IDs into an  *)
(* outbound HTTP amplification loop": a request made for a key id that was *)
(* unknown follows the last request - whoever made it, whatever became of  *)
(* it, even in an outage - by a cooldown; and so does every request as     *)
(* long as the keys are fresh.                                             *)
FloodBounded ==
  [][\A x \in Users : pc[x] = "locking" /\ pc'[x] = "fetching" /\ (forced[x] \/ Fresh)
       => now >= lastAttempt + Cooldown]_vars

(* Every lookup ends, though they queue for a lock held across an HTTP     *)
(* call that may fail or be cancelled.                                     *)
LookupsEnd ==
  \A x \in Users : pc[x] \in {"locking", "fetching", "receiving"} ~> pc[x] \in {"done", "raised"}

----------------------------------------------------------------------------
(* What the repository says and the code does not do.                      *)

(* auth.py:56: after a failed start "a later token verification will retry *)
(* after the cooldown".                                                    *)
FailedStartIsRetried ==
  pc[Boot] = "done" /\ ~Ready ~> Ready \/ lock # Free
=============================================================================
