-------------------------- MODULE JwksCacheProofs ---------------------------
(* The key cache, for any number of lookups, keys and any durations.       *)
EXTENDS JwksCache, TLAPS

(* A response that is under way is no older than MaxFlight, and what the   *)
(* issuer has taken back of it, it has taken back since.                   *)
ResponseIsRecent ==
  \A x \in Users : pc[x] = "receiving" =>
    /\ document # {}
    /\ servedAt <= now /\ now <= servedAt + MaxFlight
    /\ \A k \in document : k \notin published => servedAt <= retired[k]

(* Keys leave the cache a longest life after they arrived, so those that   *)
(* the issuer has taken back since it sent them leave it in time.          *)
KeysExpire ==
  /\ expiresAt <= now + MaxTtl
  /\ expiresAt = 0 \/ keys # {}
  /\ \A k \in keys : k \notin published => expiresAt <= retired[k] + MaxTtl + MaxFlight

(* A lookup that found its key unknown and now finds it in the cache has   *)
(* waited for a fetch; so the key was taken back, if it was, after the     *)
(* response to that had been sent.                                         *)
WaitersKeysAreNew ==
  \A x \in Lookups :
    /\ began[x] <= now
    /\ pc[x] = "locking" /\ forced[x] /\ kid[x] \in keys \ published
         => began[x] <= retired[kid[x]] + MaxFlight

CacheInv == TypeOK /\ ResponseIsRecent /\ KeysExpire /\ WaitersKeysAreNew /\ RetiredKeyDies

LEMMA Bounds ==
  /\ Cooldown \in Nat /\ MinTtl \in Nat /\ MaxTtl \in Nat /\ StartTime \in Nat /\ 0 < MaxTtl
  /\ MaxFlight \in Nat
  /\ Boot \notin Lookups /\ Free \notin Users /\ Users = Lookups \cup {Boot}
  /\ \A requested \in RequestedTtls : CacheTtl(requested) \in Nat /\ CacheTtl(requested) <= MaxTtl
BY JwksAssumption DEF Users, CacheTtl

LEMMA CacheInit == Init => CacheInv
<1>. SUFFICES ASSUME Init PROVE CacheInv
  OBVIOUS
<1>. USE Bounds DEF Init
<1>1. InitialKeys \in (SUBSET KeyIds) \ {{}}
  BY JwksAssumption
<1>2. (CHOOSE k \in KeyIds : TRUE) \in KeyIds
  <2>1. KeyIds # {}
    BY <1>1
  <2>2. \E k \in KeyIds : TRUE
    BY <2>1, Zenon
  <2>. QED
    BY <2>2, Zenon
<1>3. \A x \in Users : pc[x] \in {"fetching", "receiving"} <=> lock = x
  OBVIOUS
<1>4. TypeOK
  BY <1>1, <1>2, <1>3 DEF TypeOK
<1>5. ResponseIsRecent /\ KeysExpire /\ WaitersKeysAreNew /\ RetiredKeyDies
  BY <1>4 DEF ResponseIsRecent, KeysExpire, WaitersKeysAreNew, RetiredKeyDies, TypeOK
<1>. QED
  BY <1>4, <1>5 DEF CacheInv

LEMMA GetKeyStep ==
  ASSUME CacheInv, NEW x \in Lookups, NEW k \in KeyIds, GetKey(x, k)
  PROVE  CacheInv'
<1>. USE Bounds DEF CacheInv, GetKey, Goto, issuerVars, cacheVars, flightVars
<1>1. x \in Users /\ lock # x
  BY DEF TypeOK
<1>a. \A y \in Users : pc'[y] \in {"fetching", "receiving"} <=> lock' = y
  BY <1>1 DEF TypeOK
<1>b. published' \in (SUBSET KeyIds) \ {{}}
  BY DEF TypeOK
<1>2. TypeOK'
  BY <1>1, <1>a, <1>b DEF TypeOK
<1>3. KeysExpire' /\ ResponseIsRecent'
  BY DEF KeysExpire, ResponseIsRecent, TypeOK
<1>4. ASSUME NEW y \in Lookups
      PROVE  /\ began'[y] <= now
             /\ pc'[y] = "locking" /\ forced'[y] /\ kid'[y] \in keys \ published
                  => began'[y] <= retired[kid'[y]] + MaxFlight
  <2>1. CASE y # x
    BY <2>1 DEF WaitersKeysAreNew, TypeOK, Users
  <2>2. CASE y = x
    <3>1. began'[x] = now /\ kid'[x] = k /\ now <= now
      BY DEF TypeOK
    <3>2. x \in DOMAIN forced
      BY <1>1 DEF TypeOK
    <3>3. forced'[x] = (k \notin keys)
      BY <3>2, Zenon
    <3>4. ~(forced'[x] /\ kid'[x] \in keys \ published)
      BY <3>1, <3>3, Zenon
    <3>. QED
      BY <2>2, <3>1, <3>4, Zenon
  <2>. QED
    BY <2>1, <2>2
<1>5. RetiredKeyDies'
  BY DEF RetiredKeyDies, KeysExpire, Fresh, TypeOK
<1>. QED
  BY <1>2, <1>3, <1>4, <1>5 DEF WaitersKeysAreNew

LEMMA AcquireStep ==
  ASSUME CacheInv, NEW x \in Users, Acquire(x)
  PROVE  CacheInv'
<1>. USE Bounds DEF CacheInv, Acquire, Goto, Return, issuerVars, flightVars
<1>1. TypeOK'
  BY DEF TypeOK
<1>2. KeysExpire' /\ WaitersKeysAreNew' /\ ResponseIsRecent'
  BY DEF KeysExpire, WaitersKeysAreNew, ResponseIsRecent, TypeOK
<1>3. ASSUME NEW y \in Lookups, answer'[y] = "key", kid[y] \notin published
      PROVE  began[y] < retired[kid[y]] + MaxTtl + MaxFlight
  <2>1. CASE answer'[y] = answer[y]
    BY <1>3, <2>1 DEF RetiredKeyDies
  <2>2. CASE answer'[y] # answer[y]
    <3>1. y = x /\ Needless(x) /\ kid[y] \in keys
      BY <1>3, <2>2 DEF TypeOK
    <3>2. CASE Fresh
      BY <1>3, <3>1, <3>2 DEF Fresh, KeysExpire, WaitersKeysAreNew, TypeOK
    <3>3. CASE forced[x]
      BY <1>3, <3>1, <3>3 DEF WaitersKeysAreNew, TypeOK
    <3>. QED
      BY <3>1, <3>2, <3>3 DEF Needless
  <2>. QED
    BY <2>1, <2>2
<1>. QED
  BY <1>1, <1>2, <1>3 DEF RetiredKeyDies

LEMMA ServeStep ==
  ASSUME CacheInv, NEW x \in Users, Serve(x)
  PROVE  CacheInv'
<1>. USE Bounds DEF CacheInv, Serve, Goto, issuerVars, cacheVars
<1>1. TypeOK'
  BY DEF TypeOK
<1>2. ResponseIsRecent'
  BY DEF ResponseIsRecent, TypeOK
<1>3. KeysExpire' /\ WaitersKeysAreNew' /\ RetiredKeyDies'
  BY DEF KeysExpire, WaitersKeysAreNew, RetiredKeyDies, TypeOK
<1>. QED
  BY <1>1, <1>2, <1>3

LEMMA FetchStep ==
  ASSUME CacheInv, NEW x \in Users, Fetch(x)
  PROVE  CacheInv'
<1>. USE Bounds DEF CacheInv, Fetch, Forget, Goto, Return, issuerVars
<1>1. PICK requested \in RequestedTtls : expiresAt' = now + CacheTtl(requested)
  OBVIOUS
<1>2. lock = x /\ \A y \in Users : pc'[y] # "receiving"
  BY DEF TypeOK
<1>3. TypeOK' /\ ResponseIsRecent'
  BY <1>1, <1>2 DEF TypeOK, ResponseIsRecent
<1>4. /\ document # {} /\ now <= servedAt + MaxFlight
      /\ \A k \in document : k \notin published => now <= retired[k] + MaxFlight
  BY DEF ResponseIsRecent, TypeOK
<1>5. KeysExpire'
  <2>1. /\ expiresAt' <= now + MaxTtl /\ keys' # {} /\ keys' = document
    BY <1>1, <1>4 DEF TypeOK
  <2>2. \A k \in document : k \notin published => expiresAt' <= retired[k] + MaxTtl + MaxFlight
    BY <1>1, <1>4 DEF TypeOK
  <2>. QED
    BY <2>1, <2>2 DEF KeysExpire
<1>6. WaitersKeysAreNew'
  BY <1>4 DEF WaitersKeysAreNew, TypeOK
<1>7. RetiredKeyDies'
  BY <1>4 DEF WaitersKeysAreNew, RetiredKeyDies, TypeOK
<1>. QED
  BY <1>3, <1>5, <1>6, <1>7

LEMMA GivingUp ==
  ASSUME CacheInv, NEW x \in Users,
         FetchFails(x) \/ Cancel(x) \/ (x = Boot /\ StartRaises)
  PROVE  CacheInv'
<1>. USE Bounds DEF CacheInv, FetchFails, Cancel, StartRaises, Forget, Goto, issuerVars, flightVars
<1>1. TypeOK'
  BY DEF TypeOK
<1>2. ResponseIsRecent'
  BY DEF ResponseIsRecent, TypeOK
<1>3. KeysExpire' /\ WaitersKeysAreNew' /\ RetiredKeyDies'
  BY DEF KeysExpire, WaitersKeysAreNew, RetiredKeyDies, TypeOK
<1>. QED
  BY <1>1, <1>2, <1>3

LEMMA IssuerStep ==
  ASSUME CacheInv, NEW k \in KeyIds, Publish(k) \/ Retire(k)
  PROVE  CacheInv'
<1>. USE Bounds DEF CacheInv, Publish, Retire, cacheVars, flightVars
<1>a. published' \subseteq KeyIds /\ published' # {}
  BY DEF TypeOK
<1>b. published' \in (SUBSET KeyIds) \ {{}}
  BY <1>a
<1>1. TypeOK'
  BY <1>b DEF TypeOK
<1>2. KeysExpire'
  BY DEF KeysExpire, TypeOK
<1>3. WaitersKeysAreNew' /\ RetiredKeyDies' /\ ResponseIsRecent'
  <2>1. \A x \in Users : pc[x] = "receiving" => servedAt <= now
    BY DEF ResponseIsRecent
  <2>. QED
    BY <2>1 DEF WaitersKeysAreNew, RetiredKeyDies, ResponseIsRecent, TypeOK
<1>. QED
  BY <1>1, <1>2, <1>3

LEMMA CacheNext == CacheInv /\ [Next]_vars => CacheInv'
<1>. SUFFICES ASSUME CacheInv, [Next]_vars PROVE CacheInv'
  OBVIOUS
<1>1. CASE \E x \in Users : UserStep(x) \/ Cancel(x)
  BY <1>1, AcquireStep, ServeStep, FetchStep, GivingUp DEF UserStep
<1>2. CASE \E x \in Lookups, k \in KeyIds : GetKey(x, k)
  BY <1>2, GetKeyStep
<1>3. CASE \E k \in KeyIds : Publish(k) \/ Retire(k)
  BY <1>3, IssuerStep
<1>4. CASE Tick
  <2>1. ResponseIsRecent'
    BY <1>4, Bounds DEF Tick, CacheInv, ResponseIsRecent, TypeOK, issuerVars, flightVars
  <2>. QED
    BY <1>4, <2>1, Bounds DEF Tick, CacheInv, TypeOK, KeysExpire, WaitersKeysAreNew,
                              RetiredKeyDies, issuerVars, cacheVars, flightVars
<1>5. CASE UNCHANGED vars
  BY <1>5 DEF vars, CacheInv, TypeOK, KeysExpire, WaitersKeysAreNew, RetiredKeyDies,
              ResponseIsRecent, issuerVars, cacheVars, flightVars
<1>6. CASE StartRaises
  BY <1>6, GivingUp DEF Users
<1>. QED
  BY <1>1, <1>2, <1>3, <1>4, <1>5, <1>6 DEF Next

(* The inductive invariant: keys leave the cache in time, and who waited   *)
(* for a key got it from a later fetch.                                    *)
THEOREM CacheInvariant == Spec => []CacheInv
BY CacheInit, CacheNext, PTL DEF Spec

(* Every variable keeps its type, and the lock is held just while its      *)
(* holder fetches (_refresh, auth.py:78).                                  *)
THEOREM CacheTypeCorrect == Spec => []TypeOK
<1>1. CacheInv => TypeOK
  BY DEF CacheInv
<1>. QED
  BY <1>1, CacheInvariant, PTL

(* No lookup that begins MaxTtl and MaxFlight after the issuer has retired *)
(* a key is given it (get_key, auth.py:65; _refresh, auth.py:87-119).      *)
THEOREM RetiredKeysDie == Spec => []RetiredKeyDies
<1>1. CacheInv => RetiredKeyDies
  BY DEF CacheInv
<1>. QED
  BY <1>1, CacheInvariant, PTL

(* While the keys are fresh, and always for an unknown key id, a request   *)
(* to the issuer follows the last one by a cooldown (_refresh, auth.py:80).*)
THEOREM FloodsAreBounded == Spec => FloodBounded
<1>1. ASSUME CacheInv, Next, NEW x \in Users,
             pc[x] = "locking", pc'[x] = "fetching", forced[x] \/ Fresh
      PROVE  now >= lastAttempt + Cooldown
  <2>1. Acquire(x) /\ ~Needless(x)
    BY <1>1, Bounds
       DEF Next, UserStep, Acquire, Serve, Fetch, FetchFails, Cancel, GetKey, StartRaises,
           Publish, Retire, Tick, Goto, Return, CacheInv, TypeOK, Users
  <2>2. Fresh => keys # {}
    BY <1>1 DEF CacheInv, KeysExpire, Fresh, TypeOK
  <2>3. forced[x] /\ ~Cooling
    BY <1>1, <2>1, <2>2 DEF Needless
  <2>. QED
    BY <1>1, <2>3, Bounds DEF Cooling, CacheInv, TypeOK
<1>2. CacheInv /\ [Next]_vars =>
        [\A x \in Users : pc[x] = "locking" /\ pc'[x] = "fetching" /\ (forced[x] \/ Fresh)
           => now >= lastAttempt + Cooldown]_vars
  BY <1>1
<1>. QED
  BY <1>2, CacheInvariant, PTL DEF Spec, FloodBounded
=============================================================================
