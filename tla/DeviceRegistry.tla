--------------------------- MODULE DeviceRegistry ---------------------------
(***************************************************************************)
(* Enrolment of phones over the shared Cosmos container.  A phone gets a   *)
(* challenge, signs its nonce and PUTs its key (`Puts', one HTTP attempt   *)
(* each); PUTs run on several pods.  register_device spends the challenge  *)
(* with a conditional replace and then upserts the device: two awaits, no  *)
(* transaction.  Meanwhile devices are deleted by the phone, and disabled  *)
(* (`Disables') by calls to which APNs has refused a token.                *)
(*                                                                         *)
(* As in ConsentFlow a document is the sequence of its versions, and a pod *)
(* reads any version not older than what it has seen.                      *)
(***************************************************************************)
EXTENDS Integers, Sequences, FiniteSets

CONSTANTS Puts, Disables, Pods, Devices, Accounts, Keys, Challenges,
          IssuedTo,     \* the account a challenge is created for
          PodOf,        \* the pod that serves a PUT, disables or creates a challenge
          Bodies,       \* enrolment requests a phone may send
          NoBody, NoDevice, NoCopy,
          Lifetime,     \* validity of a challenge, and TTL of its document
          Horizon,      \* bound: time saturates, and everything has expired
          Budget        \* bound: how many faults, crashes and deletions

ASSUME RegistryAssumption ==
  /\ Lifetime \in Nat \ {0} /\ Horizon \in Nat
  /\ IssuedTo \in [Challenges -> Accounts]
  /\ PodOf \in [Puts \cup Disables \cup Challenges -> Pods]
  /\ Budget \in [{"fault", "crash", "delete"} -> Nat]
  /\ NoBody \notin Bodies
  /\ NoDevice \notin [key : Keys, by : Puts, enabled : BOOLEAN]
  /\ Bodies \subseteq
       [account : Accounts, device : Devices, challenge : Challenges, key : Keys,
        sig : [account : Accounts, device : Devices, challenge : Challenges, key : Keys]]

(* A device document lives in the partition of an account. *)
Slots == Accounts \X Devices
Documents == [key : Keys, by : Puts, enabled : BOOLEAN]
ChallengeDocuments == [consumed : BOOLEAN, ts : Nat]

VARIABLES
  now, budget,
  challenge,  \* per challenge: the versions of its document
  device,     \* per slot: the versions of its document, NoDevice where deleted
  seen,       \* per pod: the oldest version of each document it may still read
  pc, body,
  held,       \* the version of the challenge a PUT has read
  reply,      \* the HTTP status, 0 until answered
  dpc, copy   \* what a disable_device is doing, and the document it has read

vars == <<now, budget, challenge, device, seen, pc, body, held, reply, dpc, copy>>

----------------------------------------------------------------------------
After(time, delay) == IF time + delay > Horizon THEN Horizon ELSE time + delay

Spend(kind) == budget[kind] > 0 /\ budget' = [budget EXCEPT ![kind] = @ - 1]

(* The first version of a challenge carries its expiry; Cosmos hides the   *)
(* document a lifetime after its last write.                               *)
ExpiredChallenge(c) == now >= After(challenge[c][1].ts, Lifetime)
Live(c, v) == now < After(challenge[c][v].ts, Lifetime)

(* The mutant leaves out that there may be nothing to find.                *)
ReadChallengeFound(q, c) == {v \in seen[q].challenge[c] .. Len(challenge[c]) : v # 0 /\ Live(c, v)}
ReadChallengeResults(q, c) ==
  {IF v # 0 /\ Live(c, v) THEN v ELSE 0 : v \in seen[q].challenge[c] .. Len(challenge[c])}

ReplaceableUnconditionally(c, v) == Live(c, v)  \* mutant
Replaceable(c, v) == v = Len(challenge[c]) /\ Live(c, v)

(* upsert_item: nothing is asked of the version it replaces. *)
Upsert(q, s, doc) ==
  /\ device' = [device EXCEPT ![s] = Append(@, doc)]
  /\ seen' = [seen EXCEPT ![q].device[s] = Len(device[s]) + 1]

Unseen == [challenge |-> [c \in Challenges |-> 0], device |-> [s \in Slots |-> 0]]

Init ==
  /\ now = 0
  /\ budget = Budget
  /\ challenge = [c \in Challenges |-> <<>>]
  /\ device = [s \in Slots |-> <<>>]
  /\ seen = [q \in Pods |-> Unseen]
  /\ pc = [p \in Puts |-> "idle"]
  /\ body = [p \in Puts |-> NoBody]
  /\ held = [p \in Puts |-> 0]
  /\ reply = [p \in Puts |-> 0]
  /\ dpc = [x \in Disables |-> "idle"]
  /\ copy = [x \in Disables |-> NoCopy]

(* mobile_api.create_challenge. *)
CreateChallenge(c) ==
  /\ challenge[c] = <<>>
  /\ challenge' = [challenge EXCEPT ![c] = <<[consumed |-> FALSE, ts |-> now]>>]
  /\ seen' = [seen EXCEPT ![PodOf[c]].challenge[c] = 1]
  /\ UNCHANGED <<now, budget, device, pc, body, held, reply, dpc, copy>>

----------------------------------------------------------------------------
(* PUT /v1/devices/{id}: mobile_api.put_device. *)

Answer(p, code) ==
  /\ pc' = [pc EXCEPT ![p] = "done"]
  /\ reply' = [reply EXCEPT ![p] = code]

(* A nonce cannot be signed before it has been issued. *)
Receive(p, b) ==
  /\ pc[p] = "idle"
  /\ challenge[b.sig.challenge] # <<>>
  /\ body' = [body EXCEPT ![p] = b]
  /\ \/ pc' = [pc EXCEPT ![p] = "checking"] /\ UNCHANGED reply
     \/ Answer(p, 400)
  /\ UNCHANGED <<now, budget, challenge, device, seen, held, dpc, copy>>

Slot(b) == <<b.account, b.device>>

(* A point read finds only what is in the partition of the principal.      *)
InPartition(b) == IssuedTo[b.challenge] = b.account

(* enrollment_message binds account, device, challenge and key; the mutant *)
(* leaves out the account, the device and the nonce.                       *)
SignatureOfKey(b) == b.sig.key = b.key
SignatureVerifies(b) ==
  b.sig = [account |-> b.account, device |-> b.device, challenge |-> b.challenge, key |-> b.key]

(* get_challenge, and everything up to the next await.  A stale issued_at, *)
(* a bad push token or environment are the 400 that is always possible.    *)
CheckChallenge(p) ==
  LET b == body[p]
      q == PodOf[p]
      c == b.challenge
      Usable(v) == v # 0 /\ ~challenge[c][v].consumed /\ ~ExpiredChallenge(c)
  IN  /\ pc[p] = "checking"
      /\ \/ /\ ~InPartition(b)
            /\ Answer(p, 409)
            /\ UNCHANGED <<seen, held>>
         \/ /\ InPartition(b)
            /\ \E v \in ReadChallengeResults(q, c) :
                 /\ seen' = IF v = 0 THEN seen ELSE [seen EXCEPT ![q].challenge[c] = v]
                 /\ held' = [held EXCEPT ![p] = v]
                 /\ \/ ~Usable(v) /\ Answer(p, 409)
                    \/ Usable(v) /\ Answer(p, 400)
                    \/ /\ Usable(v) /\ SignatureVerifies(b)
                       /\ pc' = [pc EXCEPT ![p] = "spending"]
                       /\ UNCHANGED reply
      /\ UNCHANGED <<now, budget, challenge, device, body, dpc, copy>>

(* register_device, first await: replace the challenge if nobody has.  The *)
(* mutant writes the device first.                                         *)
ConsumeAfterWriting(p) ==
  LET b == body[p]
      c == b.challenge
  IN  /\ pc[p] = "spending"
      /\ Upsert(PodOf[p], Slot(b), [key |-> b.key, by |-> p, enabled |-> TRUE])
      /\ \/ /\ Replaceable(c, held[p])
            /\ challenge' = [challenge EXCEPT ![c] = Append(@, [consumed |-> TRUE, ts |-> now])]
            /\ Answer(p, 201)
         \/ /\ ~Replaceable(c, held[p])
            /\ Answer(p, 409)
            /\ UNCHANGED challenge
      /\ UNCHANGED <<now, budget, body, held, dpc, copy>>

Consume(p) ==
  LET c == body[p].challenge
      Landed == /\ challenge' = [challenge EXCEPT ![c] = Append(@, [consumed |-> TRUE, ts |-> now])]
                /\ seen' = [seen EXCEPT ![PodOf[p]].challenge[c] = Len(challenge[c]) + 1]
  IN  /\ pc[p] = "spending"
      /\ \/ /\ Replaceable(c, held[p])
            /\ Landed
            /\ \/ pc' = [pc EXCEPT ![p] = "writing"] /\ UNCHANGED <<reply, budget>>
               \/ Answer(p, 503) /\ Spend("fault")
         \/ /\ ~Replaceable(c, held[p])
            /\ Answer(p, IF Live(c, Len(challenge[c])) THEN 409 ELSE 503)
            /\ UNCHANGED <<challenge, seen, budget>>
      /\ UNCHANGED <<now, device, body, held, dpc, copy>>

(* register_device, second await: whatever document the slot holds.        *)
WriteDevice(p) ==
  LET b == body[p]
  IN  /\ pc[p] = "writing"
      /\ Upsert(PodOf[p], Slot(b), [key |-> b.key, by |-> p, enabled |-> TRUE])
      /\ \/ Answer(p, 201) /\ UNCHANGED budget
         \/ Answer(p, 503) /\ Spend("fault")
      /\ UNCHANGED <<now, challenge, body, held, dpc, copy>>

(* The store refuses before anything is written.                           *)
PutFails(p) ==
  /\ pc[p] \in {"checking", "spending", "writing"}
  /\ Spend("fault")
  /\ Answer(p, 503)
  /\ UNCHANGED <<now, challenge, device, seen, body, held, dpc, copy>>

----------------------------------------------------------------------------
(* disable_device and delete_device.                                       *)

Latest(s) == IF device[s] = <<>> THEN NoDevice ELSE device[s][Len(device[s])]

(* The read of a call to which APNs has refused the device.  Nothing is    *)
(* done if there is no document; the mutant does not ask.                  *)
DisableReadUnchecked(x, s) ==
  /\ dpc[x] = "idle"
  /\ device[s] # <<>>
  /\ copy' = [copy EXCEPT ![x] = [slot |-> s, doc |-> Latest(s)]]
  /\ dpc' = [dpc EXCEPT ![x] = "writing"]
  /\ UNCHANGED <<now, budget, challenge, device, seen, pc, body, held, reply>>

DisableRead(x, s) ==
  LET q == PodOf[x]
  IN  /\ dpc[x] = "idle"
      /\ \E v \in seen[q].device[s] .. Len(device[s]) :
           /\ v # 0 /\ device[s][v] # NoDevice
           /\ seen' = [seen EXCEPT ![q].device[s] = v]
           /\ copy' = [copy EXCEPT ![x] = [slot |-> s, doc |-> device[s][v]]]
      /\ dpc' = [dpc EXCEPT ![x] = "writing"]
      /\ UNCHANGED <<now, budget, challenge, device, pc, body, held, reply>>

(* The copy goes back without an etag, the flag off.                       *)
DisableWrite(x) ==
  /\ dpc[x] = "writing"
  /\ Upsert(PodOf[x], copy[x].slot, [copy[x].doc EXCEPT !.enabled = FALSE])
  /\ dpc' = [dpc EXCEPT ![x] = "done"]
  /\ UNCHANGED <<now, budget, challenge, pc, body, held, reply, copy>>

DisableFails(x) ==
  /\ dpc[x] = "writing"
  /\ Spend("fault")
  /\ dpc' = [dpc EXCEPT ![x] = "done"]
  /\ UNCHANGED <<now, challenge, device, seen, pc, body, held, reply, copy>>

DeleteDevice(q, s) ==
  /\ Latest(s) # NoDevice
  /\ Spend("delete")
  /\ Upsert(q, s, NoDevice)
  /\ UNCHANGED <<now, challenge, pc, body, held, reply, dpc, copy>>

----------------------------------------------------------------------------
Tick ==
  /\ now < Horizon
  /\ now' = now + 1
  /\ UNCHANGED <<budget, challenge, device, seen, pc, body, held, reply, dpc, copy>>

Crash(q) ==
  /\ Spend("crash")
  /\ pc' = [p \in Puts |-> IF PodOf[p] = q /\ pc[p] \notin {"idle", "done"}
                             THEN "crashed" ELSE pc[p]]
  /\ dpc' = [x \in Disables |-> IF PodOf[x] = q /\ dpc[x] = "writing" THEN "done" ELSE dpc[x]]
  /\ seen' = [seen EXCEPT ![q] = Unseen]
  /\ UNCHANGED <<now, challenge, device, body, held, reply, copy>>

PutStep(p) == CheckChallenge(p) \/ Consume(p) \/ WriteDevice(p)

Next ==
  \/ \E q \in Pods :
       \/ Crash(q)
       \/ \E s \in Slots : DeleteDevice(q, s)
  \/ \E c \in Challenges : CreateChallenge(c)
  \/ \E p \in Puts : PutStep(p) \/ PutFails(p) \/ \E b \in Bodies : Receive(p, b)
  \/ \E x \in Disables : DisableWrite(x) \/ DisableFails(x) \/ \E s \in Slots : DisableRead(x, s)
  \/ Tick

Spec == Init /\ [][Next]_vars

(* The event loop runs every handler that can run; every await ends.       *)
FairSpec == Spec /\ \A p \in Puts : WF_vars(PutStep(p))

----------------------------------------------------------------------------
PutLabels == {"idle", "checking", "spending", "writing", "done", "crashed"}

TypeOK ==
  /\ now \in Nat
  /\ budget \in [DOMAIN Budget -> Nat]
  /\ challenge \in [Challenges -> Seq(ChallengeDocuments)]
  /\ device \in [Slots -> Seq(Documents \cup {NoDevice})]
  /\ seen \in [Pods -> [challenge : [Challenges -> Nat], device : [Slots -> Nat]]]
  /\ pc \in [Puts -> PutLabels]
  /\ body \in [Puts -> Bodies \cup {NoBody}]
  /\ \A p \in Puts : pc[p] # "idle" => body[p] \in Bodies
  /\ held \in [Puts -> Nat]
  /\ reply \in [Puts -> {0, 201, 400, 409, 503}]
  /\ \A p \in Puts : pc[p] = "done" <=> reply[p] # 0
  /\ dpc \in [Disables -> {"idle", "writing", "done"}]
  /\ copy \in [Disables -> [slot : Slots, doc : Documents] \cup {NoCopy}]

Enabled(s, v) == v \in 1..Len(device[s]) /\ device[s][v] # NoDevice /\ device[s][v].enabled
By(s, v) == body[device[s][v].by]

(* "Create a five-minute, one-use nonce" (docs/mobile-approval-api.md:21): *)
(* a challenge brings a device to life once, in one slot, whichever pods   *)
(* its replays reach - and once that device is replaced, deleted or        *)
(* disabled, no copy of it that disable_device writes back is active.      *)
ChallengeEnrolsOnce ==
  \A s, t \in Slots : \A v \in 1..Len(device[s]), w \in 1..Len(device[t]) :
    /\ Enabled(s, v) /\ Enabled(t, w)
    /\ By(s, v).challenge = By(t, w).challenge
    => s = t /\ v = w

(* No key enters an account's partition, in whatever version of whatever   *)
(* document, that was not shown there: by a signature of that key over     *)
(* this account, this device and a nonce issued to this account.           *)
EveryKeyProven ==
  \A s \in Slots : \A v \in 1..Len(device[s]) :
    device[s][v] # NoDevice =>
      \E p \in Puts, c \in Challenges :
        /\ IssuedTo[c] = s[1] /\ Len(challenge[c]) > 1
        /\ body[p] # NoBody
        /\ body[p].sig = [account |-> s[1], device |-> s[2], challenge |-> c,
                          key |-> device[s][v].key]

(* A phone that is told 400 or 409 has changed nothing; only a 503 leaves  *)
(* it in doubt.                                                            *)
RefusalWritesNothing ==
  \A p \in Puts, s \in Slots : reply[p] \in {400, 409} =>
    \A v \in 1..Len(device[s]) : device[s][v] # NoDevice => device[s][v].by # p

(* Every PUT is answered unless its pod dies.                              *)
PutsEnd == \A p \in Puts : pc[p] # "idle" ~> pc[p] \in {"done", "crashed"}

----------------------------------------------------------------------------
(* What the repository says and the code does not do.                      *)

(* store.py:458: "Disable push routing after a terminal APNs rejection": a *)
(* disable_device that ends has done no more than that; it has not undone  *)
(* an enrolment or brought back a document that the phone had deleted.     *)
DisablingOnlyDisables ==
  [][\A x \in Disables, s \in Slots :
       dpc[x] = "writing" /\ dpc'[x] = "done" /\ Latest(s)' # Latest(s)
         => Latest(s) # NoDevice /\ Latest(s)' = [Latest(s) EXCEPT !.enabled = FALSE]]_vars
=============================================================================
