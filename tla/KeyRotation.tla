---------------------------- MODULE KeyRotation -----------------------------
(***************************************************************************)
(* The disclosure key from its advertisement to its use.  Every pod reads  *)
(* the newest version once, when it starts, and offers it to the phone     *)
(* with each approval it shows; the phone's disclosure names the version   *)
(* it was sealed for, and the pod whose call waits asks Key Vault for that *)
(* one.  Meanwhile the operator rotates the key as the runbook says, and   *)
(* pods are drained, killed and started.                                   *)
(*                                                                         *)
(* Who wins the decision is module ConsentFlow's subject.  Here an         *)
(* approval is absent (0), pending (1) or settled (2), and a read by a pod *)
(* other than the one that wrote it may return any version it ever had:    *)
(* more than Session consistency allows.                                   *)
(***************************************************************************)
EXTENDS Integers

CONSTANTS Pods,         \* processes; one that went down starts again as a new one
          FirstPods,    \* those up at first
          NoPod,
          Requests,
          Timeout,      \* approval_timeout_seconds
          CosmosTtl,    \* the five minutes the runbook adds to the deadline
          Grace,        \* terminationGracePeriodSeconds
          Latency,      \* bound on the Key Vault calls of one decrypt
          LastVersion,  \* bound: versions the operator creates
          LastCreation, \* bound: no approval is created after this time
          Horizon       \* bound: the clock stops here

(* The wait the operator adds to the deadline covers what may still run    *)
(* when it begins: a pod that is being stopped, and a call to Key Vault.   *)
ASSUME RotationAssumption ==
  /\ {Timeout, CosmosTtl, Grace, Latency, LastVersion, LastCreation, Horizon} \subseteq Nat
  /\ LastVersion > 0
  /\ Grace + Latency <= CosmosTtl
  /\ FirstPods \subseteq Pods /\ NoPod \notin Pods

None     == 0
Versions == 1 .. LastVersion

VARIABLES
  now,
  latest, enabled,  \* the newest key version; those not disabled
  operator, since,  \* idle, deploying or waiting; since when it waits
  pod, fresh,       \* down, serving or draining; whether started for the newest version
  key, stopBy,      \* _current; when a draining pod is killed
  version, created, \* of each approval in the store; created_at
  home,             \* the pod whose call created it, while that process lives
  offered,          \* the key the phone was last given for the approval
  sealed,           \* the key version (kid) the committed disclosure names
  call, began       \* what became of the call; when it asked Key Vault

vaultVars    == <<latest, enabled, operator, since>>
podVars      == <<pod, fresh, key, stopBy>>
approvalVars == <<version, created, home>>
phoneVars    == <<offered, sealed>>
callVars     == <<call, began>>
vars == <<now, vaultVars, podVars, approvalVars, phoneVars, callVars>>

----------------------------------------------------------------------------
Up(p)      == pod[p] # "down"
Expired(r) == now >= created[r] + Timeout
ReadBy(p, r) == (IF home[r] = p THEN 1 ELSE 0) .. version[r]

Init ==
  /\ now = 0
  /\ latest = 1 /\ enabled = {1}
  /\ operator = "idle" /\ since = 0
  /\ pod = [p \in Pods |-> IF p \in FirstPods THEN "serving" ELSE "down"]
  /\ fresh = [p \in Pods |-> FALSE]
  /\ key = [p \in Pods |-> IF p \in FirstPods THEN 1 ELSE None]
  /\ stopBy = [p \in Pods |-> 0]
  /\ version = [r \in Requests |-> 0]
  /\ created = [r \in Requests |-> 0]
  /\ home = [r \in Requests |-> NoPod]
  /\ offered = [r \in Requests |-> None]
  /\ sealed = [r \in Requests |-> None]
  /\ call = [r \in Requests |-> "idle"]
  /\ began = [r \in Requests |-> 0]

----------------------------------------------------------------------------
(* The pods                                                                *)

(* The lifespan of a process starts its parts in turn, the disclosure key  *)
(* last; if one of them fails the process ends, down as before.  The       *)
(* mutant starts with a version that a setting pins.                       *)
PinnedKey == 1
KeyAtStart == latest

Start(p) ==
  /\ pod[p] = "down"
  /\ pod' = [pod EXCEPT ![p] = "serving"]
  /\ key' = [key EXCEPT ![p] = KeyAtStart]
  /\ fresh' = [fresh EXCEPT ![p] = operator # "idle"]
  /\ UNCHANGED <<now, vaultVars, stopBy, approvalVars, phoneVars, callVars>>

(* The process ends, in order or not, and with it its key and its calls.   *)
(* The mutant forgets to forget the key.                                   *)
KeyKept(p) == key[p]
KeyAfterClose(p) == None

Exit(p) ==
  /\ Up(p)
  /\ pod' = [pod EXCEPT ![p] = "down"]
  /\ key' = [key EXCEPT ![p] = KeyAfterClose(p)]
  /\ fresh' = [fresh EXCEPT ![p] = FALSE]
  /\ stopBy' = [stopBy EXCEPT ![p] = 0]
  /\ call' = [r \in Requests |->
                IF home[r] = p /\ call[r] \in {"waiting", "unwrapping"} THEN "lost" ELSE call[r]]
  /\ home' = [r \in Requests |-> IF home[r] = p THEN NoPod ELSE home[r]]
  /\ UNCHANGED <<now, vaultVars, version, created, phoneVars, began>>

----------------------------------------------------------------------------
(* The operator, by the rotation procedure of the runbook                  *)

CreateVersion ==
  /\ operator = "idle" /\ latest < LastVersion
  /\ latest' = latest + 1
  /\ enabled' = enabled \cup {latest + 1}
  /\ operator' = "deploying"
  /\ fresh' = [p \in Pods |-> FALSE]
  /\ UNCHANGED <<now, since, pod, key, stopBy, approvalVars, phoneVars, callVars>>

(* A rollout drains an old pod once a new one serves; the old one goes on  *)
(* with what reaches it until it exits.                                    *)
Drain(p) ==
  /\ operator = "deploying" /\ pod[p] = "serving" /\ ~fresh[p]
  /\ \E q \in Pods : pod[q] = "serving" /\ fresh[q]
  /\ pod' = [pod EXCEPT ![p] = "draining"]
  /\ stopBy' = [stopBy EXCEPT ![p] = now + Grace]
  /\ UNCHANGED <<now, vaultVars, fresh, key, approvalVars, phoneVars, callVars>>

Deployed == \A p \in Pods : pod[p] = "serving" => fresh[p]

BeginWait ==
  /\ operator = "deploying" /\ Deployed
  /\ operator' = "waiting" /\ since' = now
  /\ UNCHANGED <<now, latest, enabled, podVars, approvalVars, phoneVars, callVars>>

DisableOld ==
  /\ operator = "waiting" /\ now > since + Timeout + CosmosTtl
  /\ enabled' = {latest}
  /\ operator' = "idle"
  /\ UNCHANGED <<now, latest, since, podVars, approvalVars, phoneVars, callVars>>

----------------------------------------------------------------------------
(* The call                                                                *)

Create(p, r) ==
  /\ Up(p) /\ version[r] = 0 /\ now <= LastCreation
  /\ version' = [version EXCEPT ![r] = 1]
  /\ created' = [created EXCEPT ![r] = now]
  /\ home' = [home EXCEPT ![r] = p]
  /\ call' = [call EXCEPT ![r] = "waiting"]
  /\ UNCHANGED <<now, vaultVars, podVars, phoneVars, began>>

(* decrypt refuses a disclosure past its expiry before it asks Key Vault   *)
(* for anything.                                                           *)
TooLate(r) == Expired(r)

(* A poll, or the last read, finds the decision.                           *)
Notice(r) ==
  /\ call[r] = "waiting" /\ sealed[r] # None
  /\ call' = [call EXCEPT ![r] = IF TooLate(r) THEN "late" ELSE "unwrapping"]
  /\ began' = [began EXCEPT ![r] = now]
  /\ UNCHANGED <<now, vaultVars, podVars, approvalVars, phoneVars>>

(* The call is cancelled, fails, or its time is up.  It closes what is     *)
(* pending if it can; a decision it has not noticed stays.                 *)
GiveUp(r) ==
  /\ call[r] = "waiting"
  /\ \E v \in version[r] .. 2 : version' = [version EXCEPT ![r] = v]
  /\ call' = [call EXCEPT ![r] = "ended"]
  /\ UNCHANGED <<now, vaultVars, podVars, created, home, phoneVars, began>>

(* Key Vault unwraps with the version it is asked for, while that is       *)
(* enabled, what was wrapped for that version.  The mutant asks for the    *)
(* version the pod advertises.                                             *)
KeyAdvertised(r) == key[home[r]]
KeyAsked(r) == sealed[r]

Unwrap(r) ==
  /\ call[r] = "unwrapping"
  /\ call' = [call EXCEPT ![r] = IF KeyAsked(r) = sealed[r] /\ sealed[r] \in enabled
                                 THEN "values" ELSE "keyless"]
  /\ UNCHANGED <<now, vaultVars, podVars, approvalVars, phoneVars, began>>

----------------------------------------------------------------------------
(* The phone                                                               *)

(* GET of one approval that a wake-up named, or of the inbox, which lists  *)
(* the live ones: each comes with the key of the pod that answers.  The    *)
(* phone answers the pending ones only.                                    *)
Offer(p, shown) ==
  /\ Up(p)
  /\ offered' = [r \in Requests |-> IF r \in shown THEN key[p] ELSE offered[r]]
  /\ UNCHANGED <<now, vaultVars, podVars, approvalVars, sealed, callVars>>

FetchApproval(p) == \E r \in Requests : 1 \in ReadBy(p, r) /\ Offer(p, {r})

ListInbox(p) ==
  \E shown \in SUBSET {r \in Requests : 1 \in ReadBy(p, r) /\ ~Expired(r)} : Offer(p, shown)

(* The phone seals its answer for the key it was given last and posts it   *)
(* to any pod; the first decision on a live approval is committed.         *)
Live(r) == version[r] = 1 /\ ~Expired(r)

Decide(p, r) ==
  /\ Up(p) /\ offered[r] # None /\ Live(r)
  /\ version' = [version EXCEPT ![r] = 2]
  /\ sealed' = [sealed EXCEPT ![r] = offered[r]]
  /\ UNCHANGED <<now, vaultVars, podVars, created, home, offered, callVars>>

----------------------------------------------------------------------------
(* Nobody is past a bound: a drained pod is killed, Key Vault answers.     *)
Tick ==
  /\ now < Horizon
  /\ \A p \in Pods : pod[p] = "draining" => now < stopBy[p]
  /\ \A r \in Requests : call[r] = "unwrapping" => now < began[r] + Latency
  /\ now' = now + 1
  /\ UNCHANGED <<vaultVars, podVars, approvalVars, phoneVars, callVars>>

Next ==
  \/ Tick \/ CreateVersion \/ BeginWait \/ DisableOld
  \/ \E p \in Pods : Start(p) \/ Exit(p) \/ Drain(p) \/ FetchApproval(p) \/ ListInbox(p)
  \/ \E r \in Requests : Notice(r) \/ GiveUp(r) \/ Unwrap(r)
  \/ \E p \in Pods, r \in Requests : Create(p, r) \/ Decide(p, r)

Spec == Init /\ [][Next]_vars

----------------------------------------------------------------------------
(* Types: the state of every run of the pods, the vault and the phone; a   *)
(* pod holds a key just while it is up.                                    *)
TypeOK ==
  /\ now \in Nat /\ since \in Nat
  /\ latest \in Versions /\ enabled \in SUBSET Versions
  /\ operator \in {"idle", "deploying", "waiting"}
  /\ pod \in [Pods -> {"down", "serving", "draining"}]
  /\ fresh \in [Pods -> BOOLEAN]
  /\ key \in [Pods -> {None} \cup Versions]
  /\ \A p \in Pods : Up(p) <=> key[p] # None
  /\ stopBy \in [Pods -> Nat]
  /\ version \in [Requests -> 0 .. 2]
  /\ created \in [Requests -> Nat]
  /\ home \in [Requests -> Pods \cup {NoPod}]
  /\ offered \in [Requests -> {None} \cup Versions]
  /\ sealed \in [Requests -> {None} \cup Versions]
  /\ call \in [Requests -> {"idle", "waiting", "unwrapping", "values", "keyless", "late",
                            "ended", "lost"}]
  /\ began \in [Requests -> Nat]

(* A decision that the caller's pod finds in time is decrypted: whichever  *)
(* pods the phone spoke to, and however their restarts and the rotation    *)
(* fall, the version that the disclosure names is still enabled when Key   *)
(* Vault is asked for it (disclosure.py:196).                              *)
DisclosureKeyStands == \A r \in Requests : call[r] # "keyless"

(* No pod that can answer offers a version that was disabled: the key a    *)
(* pod caches at start (disclosure.py:137) does not outlive its version.   *)
OfferedKeysEnabled == \A p \in Pods : Up(p) => key[p] \in enabled
============================================================================
