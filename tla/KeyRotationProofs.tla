------------------------- MODULE KeyRotationProofs --------------------------
(***************************************************************************)
(* The rotation procedure is safe for every set of pods and approvals and  *)
(* every choice of the times: no version is disabled while a disclosure    *)
(* that can still be used names it.  The argument is one of deadlines.     *)
(* What is old once the wait has begun was created before a drained pod    *)
(* was gone; it expires, and the last call of Key Vault for it ends,       *)
(* within the wait.                                                        *)
(***************************************************************************)
EXTENDS KeyRotation, TLAPS

----------------------------------------------------------------------------
(* The parts of the inductive invariant.                                   *)

Vault == latest \in enabled

Clocks ==
  /\ since <= now
  /\ \A r \in Requests : created[r] <= now
  /\ \A p \in Pods : pod[p] = "draining" => now <= stopBy[p] /\ stopBy[p] <= now + Grace

(* What is not there yet was not shown, sealed or waited for.              *)
Causes ==
  \A r \in Requests : version[r] = 0 =>
    offered[r] = None /\ sealed[r] = None /\ call[r] = "idle"

FreshKeys == \A p \in Pods : Up(p) /\ fresh[p] => key[p] = latest

(* During the wait, what is old is about to go.                            *)
OldPodsGo ==
  operator = "waiting" =>
    \A p \in Pods : Up(p) /\ key[p] # latest =>
      pod[p] = "draining" /\ stopBy[p] <= since + Grace

OldOffersGo ==
  operator = "waiting" =>
    \A r \in Requests :
      /\ offered[r] \notin {None, latest} => created[r] <= since + Grace
      /\ sealed[r] \notin {None, latest} => created[r] <= since + Grace

(* A disabled version is only named by what has expired.                   *)
OffersStand ==
  \A r \in Requests :
    /\ offered[r] \in enabled \cup {None} \/ Expired(r)
    /\ sealed[r] \in enabled \cup {None} \/ Expired(r)

CallsInTime ==
  \A r \in Requests : call[r] = "unwrapping" =>
    /\ sealed[r] \in enabled
    /\ began[r] < created[r] + Timeout
    /\ now <= began[r] + Latency

IInv ==
  /\ TypeOK /\ Vault /\ Clocks /\ Causes /\ FreshKeys /\ OldPodsGo /\ OldOffersGo
  /\ OffersStand /\ CallsInTime /\ OfferedKeysEnabled /\ DisclosureKeyStands

----------------------------------------------------------------------------
(* Each action keeps the invariant.  A step of each proof is a part that   *)
(* the action can disturb; the last one before QED is for all others.      *)

(* A pod starts with the newest version, which is enabled.                 *)
LEMMA StartKeeps ==
  ASSUME IInv, NEW p \in Pods, Start(p)
  PROVE  IInv'
<1>1. TypeOK'
  BY DEF IInv, TypeOK, Up, None, Versions, Start, KeyAtStart, vaultVars,
     approvalVars, phoneVars, callVars
<1>2. Clocks'
  BY DEF IInv, Clocks, Start, KeyAtStart, vaultVars, approvalVars
<1>3. FreshKeys'
  BY DEF IInv, TypeOK, FreshKeys, Up, Start, KeyAtStart, vaultVars
<1>4. OldPodsGo'
  BY DEF IInv, TypeOK, OldPodsGo, Up, Start, KeyAtStart, vaultVars
<1>5. OfferedKeysEnabled'
  BY DEF IInv, TypeOK, OfferedKeysEnabled, Vault, Up, Start, KeyAtStart, vaultVars
<1>6. /\ Vault'
      /\ Causes'
      /\ OldOffersGo'
      /\ OffersStand'
      /\ CallsInTime'
      /\ DisclosureKeyStands'
  BY DEF IInv, Vault, Causes, OldOffersGo, OffersStand, CallsInTime,
     DisclosureKeyStands, Expired, Start, KeyAtStart, vaultVars, approvalVars,
     phoneVars, callVars
<1> QED
  BY <1>1, <1>2, <1>3, <1>4, <1>5, <1>6 DEF IInv

(* A pod that is down offers nothing, and its calls are lost.              *)
LEMMA ExitKeeps ==
  ASSUME IInv, NEW p \in Pods, Exit(p)
  PROVE  IInv'
<1>1. TypeOK'
  BY DEF IInv, TypeOK, Up, Exit, KeyAfterClose, vaultVars, phoneVars
<1>2. Clocks'
  BY DEF IInv, TypeOK, Clocks, Exit, KeyAfterClose, vaultVars
<1>3. Causes'
  BY DEF IInv, Causes, Exit, KeyAfterClose, phoneVars
<1>4. FreshKeys'
  BY DEF IInv, TypeOK, FreshKeys, Up, Exit, KeyAfterClose, vaultVars
<1>5. OldPodsGo'
  BY DEF IInv, TypeOK, OldPodsGo, Up, Exit, KeyAfterClose, vaultVars
<1>6. OldOffersGo'
  BY DEF IInv, OldOffersGo, Exit, KeyAfterClose, vaultVars, phoneVars
<1>7. OffersStand'
  BY DEF IInv, OffersStand, Expired, Exit, KeyAfterClose, vaultVars, phoneVars
<1>8. CallsInTime'
  BY DEF IInv, CallsInTime, Exit, KeyAfterClose, vaultVars, phoneVars
<1>9. OfferedKeysEnabled'
  BY DEF IInv, TypeOK, OfferedKeysEnabled, Up, Exit, KeyAfterClose, vaultVars
<1>10. DisclosureKeyStands'
  BY DEF IInv, DisclosureKeyStands, Exit, KeyAfterClose
<1>11. Vault'
  BY DEF IInv, Vault, Exit, KeyAfterClose, vaultVars
<1> QED
  BY <1>1, <1>2, <1>3, <1>4, <1>5, <1>6, <1>7, <1>8, <1>9, <1>10, <1>11 DEF IInv

(* A new version makes every pod old and disables nothing.                 *)
LEMMA CreateVersionKeeps ==
  ASSUME IInv, CreateVersion
  PROVE  IInv'
<1>1. TypeOK'
  BY RotationAssumption DEF IInv, TypeOK, Up, Versions, CreateVersion, approvalVars,
     phoneVars, callVars
<1>2. Vault'
  BY DEF IInv, Vault, CreateVersion
<1>3. Clocks'
  BY DEF IInv, Clocks, CreateVersion, approvalVars
<1>4. FreshKeys'
  BY DEF IInv, FreshKeys, CreateVersion
<1>5. OldPodsGo'
  BY DEF IInv, OldPodsGo, CreateVersion
<1>6. OldOffersGo'
  BY DEF IInv, OldOffersGo, CreateVersion, approvalVars, phoneVars
<1>7. OffersStand'
  BY DEF IInv, OffersStand, Expired, CreateVersion, approvalVars, phoneVars
<1>8. CallsInTime'
  BY DEF IInv, CallsInTime, CreateVersion, approvalVars, phoneVars, callVars
<1>9. OfferedKeysEnabled'
  BY DEF IInv, OfferedKeysEnabled, Up, CreateVersion
<1>10. /\ Causes'
      /\ DisclosureKeyStands'
  BY DEF IInv, Causes, DisclosureKeyStands, CreateVersion, approvalVars, phoneVars,
     callVars
<1> QED
  BY <1>1, <1>2, <1>3, <1>4, <1>5, <1>6, <1>7, <1>8, <1>9, <1>10 DEF IInv

(* A drained pod has Grace from now.                                       *)
LEMMA DrainKeeps ==
  ASSUME IInv, NEW p \in Pods, Drain(p)
  PROVE  IInv'
<1>1. TypeOK'
  BY RotationAssumption DEF IInv, TypeOK, Up, Drain, vaultVars, approvalVars,
     phoneVars, callVars
<1>2. Clocks'
  BY RotationAssumption DEF IInv, TypeOK, Clocks, Drain, vaultVars, approvalVars
<1>3. FreshKeys'
  BY DEF IInv, FreshKeys, Up, Drain, vaultVars
<1>4. OldPodsGo'
  BY DEF IInv, OldPodsGo, Drain, vaultVars
<1>5. OfferedKeysEnabled'
  BY DEF IInv, OfferedKeysEnabled, Up, Drain, vaultVars
<1>6. /\ Vault'
      /\ Causes'
      /\ OldOffersGo'
      /\ OffersStand'
      /\ CallsInTime'
      /\ DisclosureKeyStands'
  BY DEF IInv, Vault, Causes, OldOffersGo, OffersStand, CallsInTime,
     DisclosureKeyStands, Expired, Drain, vaultVars, approvalVars, phoneVars,
     callVars
<1> QED
  BY <1>1, <1>2, <1>3, <1>4, <1>5, <1>6 DEF IInv

(* When the wait begins the old pods are being drained, and what is old    *)
(* was created by now.                                                     *)
LEMMA BeginWaitKeeps ==
  ASSUME IInv, BeginWait
  PROVE  IInv'
<1>1. TypeOK'
  BY DEF IInv, TypeOK, Up, BeginWait, Deployed, podVars, approvalVars, phoneVars,
     callVars
<1>2. Vault'
  BY DEF IInv, Vault, BeginWait, Deployed
<1>3. Clocks'
  BY DEF IInv, TypeOK, Clocks, BeginWait, Deployed, podVars, approvalVars
<1>4. FreshKeys'
  BY DEF IInv, FreshKeys, Up, BeginWait, Deployed, podVars
<1>5. OldPodsGo'
  BY DEF IInv, TypeOK, OldPodsGo, FreshKeys, Clocks, Up, BeginWait, Deployed,
     podVars, approvalVars
<1>6. OldOffersGo'
  BY RotationAssumption DEF IInv, TypeOK, OldOffersGo, Clocks, BeginWait, Deployed,
     podVars, approvalVars, phoneVars
<1>7. OffersStand'
  BY DEF IInv, OffersStand, Expired, BeginWait, Deployed, approvalVars, phoneVars
<1>8. CallsInTime'
  BY DEF IInv, CallsInTime, BeginWait, Deployed, approvalVars, phoneVars, callVars
<1>9. OfferedKeysEnabled'
  BY DEF IInv, OfferedKeysEnabled, Up, BeginWait, Deployed, podVars
<1>10. /\ Causes'
      /\ DisclosureKeyStands'
  BY DEF IInv, Causes, DisclosureKeyStands, BeginWait, Deployed, approvalVars,
     phoneVars, callVars
<1> QED
  BY <1>1, <1>2, <1>3, <1>4, <1>5, <1>6, <1>7, <1>8, <1>9, <1>10 DEF IInv

(* When the wait is over, a drained pod is gone, what it offered has       *)
(* expired, and the last call of Key Vault for it is answered.             *)
LEMMA DisableOldKeeps ==
  ASSUME IInv, DisableOld
  PROVE  IInv'
<1>1. TypeOK'
  BY DEF IInv, TypeOK, Vault, Up, DisableOld, podVars, approvalVars, phoneVars,
     callVars
<1>2. Vault'
  BY DEF IInv, Vault, DisableOld
<1>3. Clocks'
  BY DEF IInv, Clocks, DisableOld, podVars, approvalVars
<1>4. FreshKeys'
  BY DEF IInv, FreshKeys, Up, DisableOld, podVars
<1>5. OldPodsGo'
  BY DEF IInv, OldPodsGo, DisableOld, podVars
<1>6. OldOffersGo'
  BY DEF IInv, OldOffersGo, DisableOld, approvalVars, phoneVars
<1>7. OffersStand'
  BY RotationAssumption DEF IInv, TypeOK, OffersStand, OldOffersGo, Expired,
     DisableOld, approvalVars, phoneVars
<1>8. CallsInTime'
  BY RotationAssumption DEF IInv, TypeOK, CallsInTime, OldOffersGo, None, Versions,
     DisableOld, approvalVars, phoneVars, callVars
<1>9. OfferedKeysEnabled'
  BY RotationAssumption DEF IInv, TypeOK, OfferedKeysEnabled, OldPodsGo, Clocks, Up,
     DisableOld, podVars, approvalVars
<1>10. /\ Causes'
      /\ DisclosureKeyStands'
  BY DEF IInv, Causes, DisclosureKeyStands, DisableOld, approvalVars, phoneVars,
     callVars
<1> QED
  BY <1>1, <1>2, <1>3, <1>4, <1>5, <1>6, <1>7, <1>8, <1>9, <1>10 DEF IInv

(* A new approval has been offered to nobody.                              *)
LEMMA CreateKeeps ==
  ASSUME IInv, NEW p \in Pods, NEW r \in Requests, Create(p, r)
  PROVE  IInv'
<1>1. TypeOK'
  BY DEF IInv, TypeOK, Up, Create, vaultVars, podVars, phoneVars
<1>2. Clocks'
  BY DEF IInv, TypeOK, Clocks, Create, vaultVars, podVars
<1>3. Causes'
  BY DEF IInv, TypeOK, Causes, Create, phoneVars
<1>4. OldOffersGo'
  BY DEF IInv, OldOffersGo, Causes, Create, vaultVars, phoneVars
<1>5. OffersStand'
  BY DEF IInv, OffersStand, Causes, Expired, Create, vaultVars, phoneVars
<1>6. CallsInTime'
  BY DEF IInv, CallsInTime, Causes, Create, vaultVars, phoneVars
<1>7. DisclosureKeyStands'
  BY DEF IInv, DisclosureKeyStands, Create
<1>8. /\ Vault'
      /\ FreshKeys'
      /\ OldPodsGo'
      /\ OfferedKeysEnabled'
  BY DEF IInv, Vault, FreshKeys, OldPodsGo, OfferedKeysEnabled, Up, Create,
     vaultVars, podVars
<1> QED
  BY <1>1, <1>2, <1>3, <1>4, <1>5, <1>6, <1>7, <1>8 DEF IInv

(* decrypt goes on only with a disclosure that has not expired.            *)
LEMMA NoticeKeeps ==
  ASSUME IInv, NEW r \in Requests, Notice(r)
  PROVE  IInv'
<1>1. TypeOK'
  BY DEF IInv, TypeOK, Up, Notice, TooLate, vaultVars, podVars, approvalVars,
     phoneVars
<1>2. Causes'
  BY DEF IInv, Causes, Notice, TooLate, approvalVars, phoneVars
<1>3. CallsInTime'
  BY RotationAssumption DEF IInv, TypeOK, CallsInTime, OffersStand, Expired, Notice,
     TooLate, vaultVars, approvalVars, phoneVars
<1>4. DisclosureKeyStands'
  BY DEF IInv, DisclosureKeyStands, Notice, TooLate
<1>5. /\ Vault'
      /\ Clocks'
      /\ FreshKeys'
      /\ OldPodsGo'
      /\ OldOffersGo'
      /\ OffersStand'
      /\ OfferedKeysEnabled'
  BY DEF IInv, Vault, Clocks, FreshKeys, OldPodsGo, OldOffersGo, OffersStand,
     OfferedKeysEnabled, Up, Expired, Notice, TooLate, vaultVars, podVars,
     approvalVars, phoneVars
<1> QED
  BY <1>1, <1>2, <1>3, <1>4, <1>5 DEF IInv

(* A call that ends needs no key.                                          *)
LEMMA GiveUpKeeps ==
  ASSUME IInv, NEW r \in Requests, GiveUp(r)
  PROVE  IInv'
<1>1. TypeOK'
  BY DEF IInv, TypeOK, Up, GiveUp, vaultVars, podVars, phoneVars
<1>2. Clocks'
  BY DEF IInv, Clocks, GiveUp, vaultVars, podVars
<1>3. Causes'
  BY DEF IInv, TypeOK, Causes, GiveUp, phoneVars
<1>4. OldOffersGo'
  BY DEF IInv, OldOffersGo, GiveUp, vaultVars, phoneVars
<1>5. OffersStand'
  BY DEF IInv, OffersStand, Expired, GiveUp, vaultVars, phoneVars
<1>6. CallsInTime'
  BY DEF IInv, CallsInTime, GiveUp, vaultVars, phoneVars
<1>7. DisclosureKeyStands'
  BY DEF IInv, DisclosureKeyStands, GiveUp
<1>8. /\ Vault'
      /\ FreshKeys'
      /\ OldPodsGo'
      /\ OfferedKeysEnabled'
  BY DEF IInv, Vault, FreshKeys, OldPodsGo, OfferedKeysEnabled, Up, GiveUp,
     vaultVars, podVars
<1> QED
  BY <1>1, <1>2, <1>3, <1>4, <1>5, <1>6, <1>7, <1>8 DEF IInv

(* Key Vault is asked for a version that is enabled.                       *)
LEMMA UnwrapKeeps ==
  ASSUME IInv, NEW r \in Requests, Unwrap(r)
  PROVE  IInv'
<1>1. TypeOK'
  BY DEF IInv, TypeOK, Up, Unwrap, KeyAsked, vaultVars, podVars, approvalVars,
     phoneVars
<1>2. Causes'
  BY DEF IInv, Causes, Unwrap, KeyAsked, approvalVars, phoneVars
<1>3. CallsInTime'
  BY DEF IInv, CallsInTime, Unwrap, KeyAsked, vaultVars, approvalVars, phoneVars
<1>4. DisclosureKeyStands'
  BY DEF IInv, DisclosureKeyStands, CallsInTime, Unwrap, KeyAsked, vaultVars,
     approvalVars, phoneVars
<1>5. /\ Vault'
      /\ Clocks'
      /\ FreshKeys'
      /\ OldPodsGo'
      /\ OldOffersGo'
      /\ OffersStand'
      /\ OfferedKeysEnabled'
  BY DEF IInv, Vault, Clocks, FreshKeys, OldPodsGo, OldOffersGo, OffersStand,
     OfferedKeysEnabled, Up, Expired, Unwrap, KeyAsked, vaultVars, podVars,
     approvalVars, phoneVars
<1> QED
  BY <1>1, <1>2, <1>3, <1>4, <1>5 DEF IInv

(* During the wait only a pod that is being drained offers an old key.     *)
LEMMA OfferKeeps ==
  ASSUME IInv, NEW p \in Pods,
         NEW shown \in SUBSET {r \in Requests : 1 \in ReadBy(p, r)}, Offer(p, shown)
  PROVE  IInv'
<1>1. TypeOK'
  BY DEF IInv, TypeOK, Up, Offer, vaultVars, podVars, approvalVars, callVars
<1>2. Causes'
  BY DEF IInv, Causes, ReadBy, Offer, approvalVars, callVars
<1>3. OldOffersGo'
  BY RotationAssumption DEF IInv, TypeOK, OldOffersGo, OldPodsGo, Clocks, Offer,
     vaultVars, podVars, approvalVars
<1>4. OffersStand'
  BY DEF IInv, OffersStand, OfferedKeysEnabled, Expired, Offer, vaultVars, podVars,
     approvalVars
<1>5. CallsInTime'
  BY DEF IInv, CallsInTime, Offer, vaultVars, approvalVars, callVars
<1>6. /\ Vault'
      /\ Clocks'
      /\ FreshKeys'
      /\ OldPodsGo'
      /\ OfferedKeysEnabled'
      /\ DisclosureKeyStands'
  BY DEF IInv, Vault, Clocks, FreshKeys, OldPodsGo, OfferedKeysEnabled,
     DisclosureKeyStands, Up, Offer, vaultVars, podVars, approvalVars, callVars
<1> QED
  BY <1>1, <1>2, <1>3, <1>4, <1>5, <1>6 DEF IInv

(* The phone seals for the key it was offered, before the approval         *)
(* expires.                                                                *)
LEMMA DecideKeeps ==
  ASSUME IInv, NEW p \in Pods, NEW r \in Requests, Decide(p, r)
  PROVE  IInv'
<1>1. TypeOK'
  BY DEF IInv, TypeOK, Up, Decide, Live, vaultVars, podVars, callVars
<1>2. Clocks'
  BY DEF IInv, Clocks, Decide, Live, vaultVars, podVars
<1>3. Causes'
  BY DEF IInv, Causes, Decide, Live, callVars
<1>4. OldOffersGo'
  BY DEF IInv, OldOffersGo, Decide, Live, vaultVars
<1>5. OffersStand'
  BY DEF IInv, OffersStand, Expired, Decide, Live, vaultVars
<1>6. CallsInTime'
  BY DEF IInv, CallsInTime, OffersStand, Decide, Live, vaultVars, callVars
<1>7. /\ Vault'
      /\ FreshKeys'
      /\ OldPodsGo'
      /\ OfferedKeysEnabled'
      /\ DisclosureKeyStands'
  BY DEF IInv, Vault, FreshKeys, OldPodsGo, OfferedKeysEnabled, DisclosureKeyStands,
     Up, Decide, Live, vaultVars, podVars, callVars
<1> QED
  BY <1>1, <1>2, <1>3, <1>4, <1>5, <1>6, <1>7 DEF IInv

(* Time passes no deadline.                                                *)
LEMMA TickKeeps ==
  ASSUME IInv, Tick
  PROVE  IInv'
<1>1. TypeOK'
  BY DEF IInv, TypeOK, Up, Tick, vaultVars, podVars, approvalVars, phoneVars,
     callVars
<1>2. Clocks'
  BY RotationAssumption DEF IInv, TypeOK, Clocks, Tick, vaultVars, podVars,
     approvalVars
<1>3. OffersStand'
  BY RotationAssumption DEF IInv, TypeOK, OffersStand, Expired, Tick, vaultVars,
     approvalVars, phoneVars
<1>4. CallsInTime'
  BY RotationAssumption DEF IInv, TypeOK, CallsInTime, Tick, vaultVars,
     approvalVars, phoneVars, callVars
<1>5. /\ Vault'
      /\ Causes'
      /\ FreshKeys'
      /\ OldPodsGo'
      /\ OldOffersGo'
      /\ OfferedKeysEnabled'
      /\ DisclosureKeyStands'
  BY DEF IInv, Vault, Causes, FreshKeys, OldPodsGo, OldOffersGo, OfferedKeysEnabled,
     DisclosureKeyStands, Up, Tick, vaultVars, podVars, approvalVars, phoneVars,
     callVars
<1> QED
  BY <1>1, <1>2, <1>3, <1>4, <1>5 DEF IInv

----------------------------------------------------------------------------
(* The invariant holds at first and of every step.                         *)

LEMMA InitIInv == Init => IInv
<1> SUFFICES ASSUME Init PROVE IInv
  OBVIOUS
<1>1. TypeOK
  BY RotationAssumption DEF Init, TypeOK, Up, None, Versions
<1>2. /\ Vault /\ Clocks /\ Causes /\ FreshKeys /\ OldPodsGo /\ OldOffersGo
      /\ OffersStand /\ CallsInTime
  BY DEF Init, Vault, Clocks, Causes, FreshKeys, OldPodsGo, OldOffersGo, OffersStand,
         CallsInTime, None
<1>3. OfferedKeysEnabled /\ DisclosureKeyStands
  BY DEF Init, OfferedKeysEnabled, DisclosureKeyStands, Up
<1> QED
  BY <1>1, <1>2, <1>3 DEF IInv

LEMMA StepIInv == IInv /\ [Next]_vars => IInv'
<1> SUFFICES ASSUME IInv, [Next]_vars PROVE IInv'
  OBVIOUS
<1>1. CASE Tick
  BY <1>1, TickKeeps
<1>2. CASE CreateVersion
  BY <1>2, CreateVersionKeeps
<1>3. CASE BeginWait
  BY <1>3, BeginWaitKeeps
<1>4. CASE DisableOld
  BY <1>4, DisableOldKeeps
<1>5. ASSUME NEW p \in Pods, Start(p) PROVE IInv'
  BY <1>5, StartKeeps
<1>6. ASSUME NEW p \in Pods, Exit(p) PROVE IInv'
  BY <1>6, ExitKeeps
<1>7. ASSUME NEW p \in Pods, Drain(p) PROVE IInv'
  BY <1>7, DrainKeeps
<1>8. ASSUME NEW p \in Pods, FetchApproval(p) PROVE IInv'
  <2> PICK r \in Requests : 1 \in ReadBy(p, r) /\ Offer(p, {r})
    BY <1>8 DEF FetchApproval
  <2> QED
    BY OfferKeeps
<1>9. ASSUME NEW p \in Pods, ListInbox(p) PROVE IInv'
  <2> PICK shown \in SUBSET {r \in Requests : 1 \in ReadBy(p, r) /\ ~Expired(r)} :
        Offer(p, shown)
    BY <1>9 DEF ListInbox
  <2> QED
    BY OfferKeeps
<1>10. ASSUME NEW r \in Requests, Notice(r) PROVE IInv'
  BY <1>10, NoticeKeeps
<1>11. ASSUME NEW r \in Requests, GiveUp(r) PROVE IInv'
  BY <1>11, GiveUpKeeps
<1>12. ASSUME NEW r \in Requests, Unwrap(r) PROVE IInv'
  BY <1>12, UnwrapKeeps
<1>13. ASSUME NEW p \in Pods, NEW r \in Requests, Create(p, r) PROVE IInv'
  BY <1>13, CreateKeeps
<1>14. ASSUME NEW p \in Pods, NEW r \in Requests, Decide(p, r) PROVE IInv'
  BY <1>14, DecideKeeps
<1>15. CASE UNCHANGED vars
  BY <1>15 DEF IInv, TypeOK, Vault, Clocks, Causes, FreshKeys, OldPodsGo,
     OldOffersGo, OffersStand, CallsInTime, OfferedKeysEnabled, DisclosureKeyStands,
     Up, Expired, vars, vaultVars, podVars, approvalVars, phoneVars, callVars
<1> QED
  BY <1>1, <1>2, <1>3, <1>4, <1>5, <1>6, <1>7, <1>8, <1>9, <1>10, <1>11, <1>12, <1>13,
     <1>14, <1>15 DEF Next

(* The inductive invariant: at every moment each old key has a deadline,   *)
(* and the wait outlasts them all.                                         *)
THEOREM RotationInvariant == Spec => []IInv
<1> QED
  BY InitIInv, StepIInv, PTL DEF Spec

(* Every variable stays in its set, and a pod holds a key just while it is *)
(* up, for every set of pods and approvals.                                *)
THEOREM TypeCorrect == Spec => []TypeOK
<1>1. IInv => TypeOK
  BY DEF IInv
<1> QED
  BY <1>1, RotationInvariant, PTL

(* The runbook's procedure never takes the key from a disclosure that a    *)
(* call found in time (disclosure.py:196), provided the drain and the call *)
(* of Key Vault fit in the five minutes it adds.                           *)
THEOREM RotationIsSafe == Spec => []DisclosureKeyStands
<1>1. IInv => DisclosureKeyStands
  BY DEF IInv
<1> QED
  BY <1>1, RotationInvariant, PTL

(* No pod that can answer offers a disabled version: what it cached at     *)
(* start (disclosure.py:137) is enabled as long as it runs.                *)
THEOREM CachedKeysEnabled == Spec => []OfferedKeysEnabled
<1>1. IInv => OfferedKeysEnabled
  BY DEF IInv
<1> QED
  BY <1>1, RotationInvariant, PTL
============================================================================
