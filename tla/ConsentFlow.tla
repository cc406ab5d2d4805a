---------------------------- MODULE ConsentFlow ----------------------------
(***************************************************************************)
(* The consent protocol over the shared Cosmos container: MCP calls        *)
(* (`Requests', one approval document each) and decision POSTs of phones   *)
(* (`Posts', one HTTP attempt each; a retry is another attempt with the    *)
(* same body) run on several pods and meet only in the store.  A step ends *)
(* where the code awaits, so another handler may run between any two.      *)
(*                                                                         *)
(* The store keeps every version of an approval document: the index of a   *)
(* version is its etag, 0 is "no document" or "no etag".  Reads are at     *)
(* Session consistency: a pod reads any version not older than what it has *)
(* seen itself.                                                            *)
(***************************************************************************)
EXTENDS ConsentResult

CONSTANTS Requests, Posts, Pods, Devices, Accounts, SigningKeys,
          Asked,        \* the parsed keys of each request
          Owner,        \* the account a request is made for
          Holder,       \* the account a device id is enrolled under
          PodOf,        \* the pod that serves a request or a POST
          FirstKey,     \* the key each device starts with
          Bodies,       \* decision requests a phone may send
          NoBody, NoDevice, NoCopy,
          Timeout,      \* approval_timeout_seconds
          TTL,          \* time to live of an approval document
          Horizon,      \* bound: time saturates, and everything has expired
          Budget        \* bound: how many faults, crashes, cancels and links

ASSUME FlowAssumption ==
  /\ Timeout \in Nat /\ TTL \in Nat /\ Horizon \in Nat
  /\ Asked \in [Requests -> Seq(Handles)]
  /\ Owner \in [Requests -> Accounts]
  /\ Holder \in [Devices -> Accounts]
  /\ PodOf \in [Requests \cup Posts -> Pods]
  /\ FirstKey \in [Devices -> SigningKeys]
  /\ Budget \in [{"fault", "crash", "cancel", "link"} -> Nat]
  /\ NoBody \notin Bodies
  /\ \A b \in Bodies :
       /\ b.account \in Accounts /\ b.device \in Devices
       /\ b.to \in Requests /\ b.sig.request \in Requests
       /\ b.decision \in {"approved", "denied"}

VARIABLES
  now,        \* the clock
  budget,     \* what the environment may still do
  log,        \* per approval: the versions of its document
  seen,       \* per pod and approval: the oldest version it may still read
  device,     \* per device id: its document, or NoDevice
  \* MCP calls
  pc, created, deadline,
  mine,       \* the version _request holds in `approval' (0: no etag yet)
  target,     \* the version a close is conditional on
  todo,       \* devices to notify, then devices to disable
  reached,    \* whether APNs accepted at least one notification
  copy,       \* the device document disable_device has read
  outcome, released,
  \* decision POSTs
  ppc, body,
  held,       \* the version decide has read
  reply       \* the HTTP status, 0 until answered

storeVars == <<log, seen>>
callVars  == <<pc, created, deadline, mine, target, todo, reached, copy, outcome, released>>
postVars  == <<ppc, body, held, reply>>
vars      == <<now, budget, storeVars, device, callVars, postVars>>

----------------------------------------------------------------------------
Decided == {"approved", "denied"}
Closed  == {"cancelled", "expired"}
Status  == {"pending"} \cup Decided \cup Closed

Documents == [status : Status, body : Bodies \cup {NoBody}, ts : Nat]
UndecidedWithoutBody(status) == [status |-> status, ts |-> now]  \* mutant
Undecided(status) == [status |-> status, body |-> NoBody, ts |-> now]

After(time, delay) == IF time + delay > Horizon THEN Horizon ELSE time + delay
Expires(r) == After(created[r], Timeout)
Expired(r) == now >= Expires(r)

Spend(kind) == budget[kind] > 0 /\ budget' = [budget EXCEPT ![kind] = @ - 1]

(* Cosmos hides a document from reads and writes once its TTL has run out. *)
Live(r, v) == now < After(log[r][v].ts, TTL)

ReadResults(q, r) ==
  {IF v # 0 /\ Live(r, v) THEN v ELSE 0 : v \in seen[q][r] .. Len(log[r])}

Saw(q, r, v) == seen' = IF v = 0 THEN seen ELSE [seen EXCEPT ![q][r] = v]

(* replace_item with IfNotModified, on the version a copy was read at.  The *)
(* mutant replaces whatever is there.                                      *)
ReplaceableUnconditionally(r, v) == v # 0 /\ Live(r, v)
Replaceable(r, v) == v # 0 /\ v = Len(log[r]) /\ Live(r, v)

Write(q, r, doc) ==
  /\ log' = [log EXCEPT ![r] = Append(@, doc)]
  /\ seen' = [seen EXCEPT ![q][r] = Len(log[r]) + 1]

Init ==
  /\ now = 0
  /\ budget = Budget
  /\ log = [r \in Requests |-> <<>>]
  /\ seen = [q \in Pods |-> [r \in Requests |-> 0]]
  /\ device = [d \in Devices |-> [key |-> FirstKey[d], enabled |-> TRUE]]
  /\ pc = [r \in Requests |-> "idle"]
  /\ created = [r \in Requests |-> 0]
  /\ deadline = [r \in Requests |-> 0]
  /\ mine = [r \in Requests |-> 0]
  /\ target = [r \in Requests |-> 0]
  /\ todo = [r \in Requests |-> {}]
  /\ reached = [r \in Requests |-> FALSE]
  /\ copy = [r \in Requests |-> NoCopy]
  /\ outcome = [r \in Requests |-> "none"]
  /\ released = [r \in Requests |-> <<>>]
  /\ ppc = [p \in Posts |-> "idle"]
  /\ body = [p \in Posts |-> NoBody]
  /\ held = [p \in Posts |-> 0]
  /\ reply = [p \in Posts |-> 0]

----------------------------------------------------------------------------
(* MCP calls: ApprovalService.request_properties. *)

Goto(r, label) == pc' = [pc EXCEPT ![r] = label]

Finish(r, result) ==
  /\ Goto(r, "done")
  /\ outcome' = [outcome EXCEPT ![r] = result]

(* _best_effort_close awaits the store only for a pending copy with an     *)
(* etag.  The mutant forgets to close.                                     *)
BeginNoClose(r, v, result) == Finish(r, result) /\ target' = [target EXCEPT ![r] = v]
BeginClose(r, v, result) ==
  /\ Goto(r, IF v # 0 /\ log[r][v].status = "pending" THEN "closing" ELSE "done")
  /\ target' = [target EXCEPT ![r] = v]
  /\ outcome' = [outcome EXCEPT ![r] = result]

ListDevices(r) ==
  /\ pc[r] = "idle"
  /\ LET active == {d \in Devices : /\ Holder[d] = Owner[r]
                                    /\ device[d] # NoDevice
                                    /\ device[d].enabled}
     IN  \/ /\ active = {}
            /\ Finish(r, "phone_not_linked")
            /\ UNCHANGED <<created, todo>>
         \/ /\ active # {}
            /\ Goto(r, "creating")
            /\ todo' = [todo EXCEPT ![r] = active]
            /\ created' = [created EXCEPT ![r] = now]
            /\ UNCHANGED outcome
  /\ UNCHANGED <<now, budget, storeVars, device, deadline, mine, target, reached, copy,
                 released, postVars>>

CreateApproval(r) ==
  /\ pc[r] = "creating"
  /\ Write(PodOf[r], r, Undecided("pending"))
  /\ Goto(r, "reading_back")
  /\ UNCHANGED <<now, budget, device, created, deadline, mine, target, todo, reached, copy,
                 outcome, released, postVars>>

ReadBack(r) ==
  /\ pc[r] = "reading_back"
  /\ \E v \in ReadResults(PodOf[r], r) :
       /\ Saw(PodOf[r], r, v)
       /\ \/ /\ v = 0
             /\ Finish(r, "approval_unavailable")
             /\ UNCHANGED mine
          \/ /\ v # 0
             /\ Goto(r, "notifying")
             /\ mine' = [mine EXCEPT ![r] = v]
             /\ UNCHANGED outcome
  /\ UNCHANGED <<now, budget, log, device, created, deadline, target, todo, reached, copy,
                 released, postVars>>

(* The devices still to be disabled are `rest'; then wait, or give up. *)
AfterDisabling(r, rest, ok) ==
  /\ todo' = [todo EXCEPT ![r] = rest]
  /\ \/ /\ rest # {}
        /\ Goto(r, "disabling")
        /\ UNCHANGED <<deadline, target, outcome>>
     \/ /\ rest = {} /\ ok
        /\ Goto(r, "waiting")
        /\ deadline' = [deadline EXCEPT ![r] = After(now, Timeout)]
        /\ UNCHANGED <<target, outcome>>
     \/ /\ rest = {} /\ ~ok
        /\ BeginClose(r, mine[r], "notifications_unavailable")
        /\ UNCHANGED deadline

(* What _send_one makes of the answer of APNs for a device. *)
PushResults == {"accepted", "invalid", "transient"}

(* send_approval, with any mix of per-device results. *)
Notify(r) ==
  /\ pc[r] = "notifying"
  /\ \E result \in [todo[r] -> PushResults] :
       LET Got(answer) == {d \in todo[r] : result[d] = answer}
       IN  \/ /\ Got("accepted") = {} /\ Got("transient") # {}
              /\ BeginClose(r, mine[r], "notifications_unavailable")
              /\ UNCHANGED <<deadline, todo, reached>>
           \/ /\ Got("accepted") # {} \/ Got("transient") = {}
              /\ reached' = [reached EXCEPT ![r] = Got("accepted") # {}]
              /\ AfterDisabling(r, Got("invalid"), Got("accepted") # {})
  /\ UNCHANGED <<now, budget, storeVars, device, created, mine, copy, released, postVars>>

(* disable_device reads the document, ... *)
DisableRead(r) ==
  /\ pc[r] = "disabling"
  /\ \E d \in todo[r] :
       \/ /\ device[d] = NoDevice
          /\ AfterDisabling(r, todo[r] \ {d}, reached[r])
          /\ UNCHANGED copy
       \/ /\ device[d] # NoDevice
          /\ copy' = [copy EXCEPT ![r] = [id |-> d, doc |-> device[d]]]
          /\ Goto(r, "disable_write")
          /\ UNCHANGED <<todo, deadline, target, outcome>>
  /\ UNCHANGED <<now, budget, storeVars, device, created, mine, reached, released, postVars>>

(* ... then upserts the copy it read, whatever the document is by then. *)
DisableWrite(r) ==
  /\ pc[r] = "disable_write"
  /\ device' = [device EXCEPT ![copy[r].id] = [copy[r].doc EXCEPT !.enabled = FALSE]]
  /\ copy' = [copy EXCEPT ![r] = NoCopy]
  /\ AfterDisabling(r, todo[r] \ {copy[r].id}, reached[r])
  /\ UNCHANGED <<now, budget, storeVars, created, mine, reached, released, postVars>>

(* A decided approval is returned; only a disclosure needs decrypting.     *)
(* The mutant answers without it.                                          *)
ConcludeUndecrypted(r, v) ==
  /\ mine' = [mine EXCEPT ![r] = v]
  /\ Finish(r, ResultStatus(log[r][v].status, log[r][v].body.result))
Conclude(r, v) ==
  LET doc == log[r][v]
  IN  /\ mine' = [mine EXCEPT ![r] = v]
      /\ \/ /\ doc.status = "denied" \/ doc.body.result.approved = <<>>
            /\ Finish(r, ResultStatus(doc.status, doc.body.result))
         \/ /\ doc.status = "approved" /\ doc.body.result.approved # <<>>
            /\ Goto(r, "decrypting")
            /\ UNCHANGED outcome

(* The polls stop at the deadline. *)
TimeIsUp(r) == now >= deadline[r]

Poll(r) ==
  /\ pc[r] = "waiting" /\ ~TimeIsUp(r)
  /\ \E v \in ReadResults(PodOf[r], r) :
       /\ Saw(PodOf[r], r, v)
       /\ \/ /\ v = 0
             /\ Finish(r, "approval_unavailable")
             /\ UNCHANGED mine
          \/ /\ v # 0 /\ log[r][v].status = "pending"
             /\ UNCHANGED <<pc, outcome, mine>>
          \/ /\ v # 0 /\ log[r][v].status \in Decided
             /\ Conclude(r, v)
          \/ /\ v # 0 /\ log[r][v].status \in Closed
             /\ Finish(r, "approval_timed_out")
             /\ UNCHANGED mine
  /\ UNCHANGED <<now, budget, log, device, created, deadline, target, todo, reached, copy,
                 released, postVars>>

FinalRead(r) ==
  /\ pc[r] = "waiting" /\ TimeIsUp(r)
  /\ \E v \in ReadResults(PodOf[r], r) :
       /\ Saw(PodOf[r], r, v)
       /\ \/ /\ v # 0 /\ log[r][v].status \in Decided
             /\ Conclude(r, v)
             /\ UNCHANGED target
          \/ /\ v # 0 => log[r][v].status \notin Decided
             /\ BeginClose(r, v, "approval_timed_out")
             /\ UNCHANGED mine
  /\ UNCHANGED <<now, budget, log, device, created, deadline, todo, reached, copy,
                 released, postVars>>

(* Whatever becomes of the conditional write, _best_effort_close returns.  *)
(* The mutant waits for a write that may never succeed.                    *)
CloseStubbornly(r) ==
  /\ pc[r] = "closing" /\ Replaceable(r, target[r])
  /\ Goto(r, "done")
  /\ Write(PodOf[r], r,
           Undecided(IF outcome[r] = "approval_timed_out" THEN "expired" ELSE "cancelled"))
  /\ UNCHANGED <<budget, now, device, created, deadline, mine, target, todo, reached, copy,
                 outcome, released, postVars>>

Close(r) ==
  /\ pc[r] = "closing"
  /\ Goto(r, "done")
  /\ \/ /\ Replaceable(r, target[r])
        /\ Write(PodOf[r], r,
                 Undecided(IF outcome[r] = "approval_timed_out" THEN "expired" ELSE "cancelled"))
        /\ UNCHANGED budget
     \/ /\ ~Replaceable(r, target[r])
        /\ UNCHANGED <<storeVars, budget>>
     \/ /\ Spend("fault")
        /\ UNCHANGED storeVars
  /\ UNCHANGED <<now, device, created, deadline, mine, target, todo, reached, copy,
                 outcome, released, postVars>>

Decrypt(r) ==
  LET b == log[r][mine[r]].body
      approval == [id |-> r, decisionId |-> b.decisionId, created |-> created[r],
                   expires |-> Expires(r), result |-> b.result]
  IN  /\ pc[r] = "decrypting"
      /\ \/ /\ Decryptable(approval, now)
            /\ Finish(r, ResultStatus("approved", b.result))
            /\ released' = [released EXCEPT ![r] = b.result.jwe.plain.fields]
         \/ /\ ~Decryptable(approval, now)
            /\ Finish(r, "disclosure_invalid")
            /\ UNCHANGED released
      /\ UNCHANGED <<now, budget, storeVars, device, created, deadline, mine, target, todo,
                     reached, copy, postVars>>

(* Any other exception of the store, the notifier or Key Vault: the call   *)
(* ends at once, and the approval is not closed.  A failure after the      *)
(* write has landed is the write followed by this step.                    *)
CallFails(r) ==
  /\ pc[r] \in {"idle", "creating", "reading_back", "notifying", "disabling", "disable_write",
                "waiting", "decrypting"}
  /\ Spend("fault")
  /\ Finish(r, IF pc[r] = "decrypting" THEN "disclosure_invalid" ELSE "approval_unavailable")
  /\ UNCHANGED <<now, storeVars, device, created, deadline, mine, target, todo, reached, copy,
                 released, postVars>>

(* CancelledError at an await.  Inside _request - also in a close there -  *)
(* the approval held there is closed.  Another one while that close is     *)
(* awaited finds nobody: _best_effort_close catches Exception only.  The   *)
(* disclosure is decrypted outside _request.                               *)
ClosingAsCancelled(r) == pc[r] = "closing" /\ outcome[r] = "cancelled"

Cancel(r) ==
  /\ Spend("cancel")
  /\ \/ /\ pc[r] \in {"creating", "reading_back", "notifying", "disabling", "disable_write",
                      "waiting", "closing"}
        /\ ~ClosingAsCancelled(r)
        /\ BeginClose(r, mine[r], "cancelled")
     \/ /\ ClosingAsCancelled(r)
        /\ Finish(r, "abandoned")
        /\ UNCHANGED target
     \/ /\ pc[r] = "decrypting"
        /\ Finish(r, "cancelled")
        /\ UNCHANGED target
  /\ UNCHANGED <<now, storeVars, device, created, deadline, mine, todo, reached, copy,
                 released, postVars>>

----------------------------------------------------------------------------
(* Decision POSTs: mobile_api.decide_approval and ApprovalService.decide. *)

Answer(p, code) ==
  /\ ppc' = [ppc EXCEPT ![p] = "done"]
  /\ reply' = [reply EXCEPT ![p] = code]

(* A signature covers the nonce of its approval, so it cannot be made      *)
(* before that approval is stored.  A body that is malformed or whose      *)
(* issued_at is not fresh is refused at once.                              *)
Receive(p, b) ==
  /\ ppc[p] = "idle"
  /\ log[b.sig.request] # <<>>
  /\ body' = [body EXCEPT ![p] = b]
  /\ \/ /\ ppc' = [ppc EXCEPT ![p] = "load_approval"]
        /\ UNCHANGED reply
     \/ Answer(p, 400)
  /\ UNCHANGED <<now, budget, storeVars, device, callVars, held>>

(* A point read finds only what is in the partition of the principal; the  *)
(* mutant looks everywhere.                                                *)
InAnyPartition(b) == TRUE
InPartition(b) == Owner[b.to] = b.account

LoadApproval(p) ==
  LET r == body[p].to
  IN  /\ ppc[p] = "load_approval"
      /\ \/ /\ ~InPartition(body[p])
            /\ UNCHANGED <<seen, held>>
         \/ /\ InPartition(body[p])
            /\ \E v \in ReadResults(PodOf[p], r) :
                 Saw(PodOf[p], r, v) /\ held' = [held EXCEPT ![p] = v]
      /\ ppc' = [ppc EXCEPT ![p] = "load_device"]
      /\ UNCHANGED <<now, budget, log, device, callVars, body, reply>>

SameDecision(doc, b) ==
  /\ doc.status = b.decision
  /\ doc.body.decisionId = b.decisionId
  /\ doc.body.device = b.device
  /\ doc.body.hash = b.hash

(* The signed message binds account, device, approval, decision and hash. *)
SignatureVerifies(key, b) ==
  b.sig = [key |-> key, account |-> b.account, device |-> b.device, request |-> b.to,
           decision |-> b.decision, hash |-> b.hash]

(* The mutant does not check the signature. *)
AcceptableUnsigned(key, b) ==
  /\ ValidateResult("request", Asked[b.to], b.decision, b.result)
  /\ b.hash = ResultManifestHash(b.result)

Acceptable(key, b) ==
  /\ ValidateResult("request", Asked[b.to], b.decision, b.result)
  /\ b.hash = ResultManifestHash(b.result)
  /\ SignatureVerifies(key, b)

(* The device is read; everything up to the store's write is synchronous. *)
LoadDevice(p) ==
  LET b == body[p]
      found == held[p] # 0 /\ Holder[b.device] = b.account
                 /\ device[b.device] # NoDevice /\ device[b.device].enabled
      doc == log[b.to][held[p]]
      Continue(label) == ppc' = [ppc EXCEPT ![p] = label] /\ UNCHANGED reply
  IN  /\ ppc[p] = "load_device"
      /\ \/ ~found /\ Answer(p, 409)
         \/ /\ found /\ doc.status # "pending"
            /\ Answer(p, IF SameDecision(doc, b) THEN 200 ELSE 409)
         \/ /\ found /\ doc.status = "pending"
            /\ \/ Expired(b.to) /\ Continue("closing")
               \/ ~Expired(b.to) /\ ~Acceptable(device[b.device].key, b) /\ Answer(p, 400)
               \/ ~Expired(b.to) /\ Acceptable(device[b.device].key, b) /\ Continue("committing")
      /\ UNCHANGED <<now, budget, storeVars, device, callVars, body, held>>

(* decide_approval: the first writer wins, 412 is 409 and 404 is 503; the  *)
(* acknowledgement of a write that landed may still be lost.               *)
Commit(p) ==
  LET b == body[p]
      r == b.to
  IN  /\ ppc[p] = "committing"
      /\ \/ /\ Replaceable(r, held[p])
            /\ Write(PodOf[p], r, [status |-> b.decision, body |-> b, ts |-> now])
            /\ \/ Answer(p, 200) /\ UNCHANGED budget
               \/ Answer(p, 503) /\ Spend("fault")
         \/ /\ ~Replaceable(r, held[p])
            /\ Answer(p, IF Live(r, Len(log[r])) THEN 409 ELSE 503)
            /\ UNCHANGED <<storeVars, budget>>
      /\ UNCHANGED <<now, device, callVars, body, held>>

(* decide closes an approval it finds expired, and still answers 409.  The *)
(* mutant waits for a write that will never succeed.                       *)
CloseExpiredStubbornly(p) ==
  /\ ppc[p] = "closing" /\ Replaceable(body[p].to, held[p])
  /\ Answer(p, 409)
  /\ Write(PodOf[p], body[p].to, Undecided("expired"))
  /\ UNCHANGED <<budget, now, device, callVars, body, held>>

CloseExpired(p) ==
  LET r == body[p].to
  IN  /\ ppc[p] = "closing"
      /\ Answer(p, 409)
      /\ \/ /\ Replaceable(r, held[p])
            /\ Write(PodOf[p], r, Undecided("expired"))
            /\ UNCHANGED budget
         \/ ~Replaceable(r, held[p]) /\ UNCHANGED <<storeVars, budget>>
         \/ Spend("fault") /\ UNCHANGED storeVars
      /\ UNCHANGED <<now, device, callVars, body, held>>

PostFails(p) ==
  /\ ppc[p] \in {"load_approval", "load_device", "committing"}
  /\ Spend("fault")
  /\ Answer(p, 503)
  /\ UNCHANGED <<now, storeVars, device, callVars, body, held>>

----------------------------------------------------------------------------
(* The environment. *)

Tick ==
  /\ now < Horizon
  /\ now' = now + 1
  /\ UNCHANGED <<budget, storeVars, device, callVars, postVars>>

(* put_device and delete_device, as the decision flow sees them. *)
Link(d, key) ==
  /\ Spend("link")
  /\ device' = [device EXCEPT ![d] = [key |-> key, enabled |-> TRUE]]
  /\ UNCHANGED <<now, storeVars, callVars, postVars>>

Unlink(d) ==
  /\ Spend("link")
  /\ device[d] # NoDevice
  /\ device' = [device EXCEPT ![d] = NoDevice]
  /\ UNCHANGED <<now, storeVars, callVars, postVars>>

(* A pod dies with everything it was doing; its successor has no session. *)
Crash(q) ==
  /\ Spend("crash")
  /\ pc' = [r \in Requests |-> IF PodOf[r] = q /\ pc[r] \notin {"idle", "done"}
                                 THEN "crashed" ELSE pc[r]]
  /\ ppc' = [p \in Posts |-> IF PodOf[p] = q /\ ppc[p] \notin {"idle", "done"}
                               THEN "crashed" ELSE ppc[p]]
  /\ seen' = [seen EXCEPT ![q] = [r \in Requests |-> 0]]
  /\ UNCHANGED <<now, log, device, created, deadline, mine, target, todo, reached, copy,
                 outcome, released, body, held, reply>>

CallStep(r) ==
  \/ ListDevices(r) \/ CreateApproval(r) \/ ReadBack(r) \/ Notify(r)
  \/ DisableRead(r) \/ DisableWrite(r) \/ Poll(r) \/ FinalRead(r)
  \/ Close(r) \/ Decrypt(r)

PostStep(p) == LoadApproval(p) \/ LoadDevice(p) \/ Commit(p) \/ CloseExpired(p)

Next ==
  \/ \E r \in Requests : CallStep(r) \/ CallFails(r) \/ Cancel(r)
  \/ \E p \in Posts : PostStep(p) \/ PostFails(p) \/ \E b \in Bodies : Receive(p, b)
  \/ \E d \in Devices : Unlink(d) \/ \E key \in SigningKeys : Link(d, key)
  \/ \E q \in Pods : Crash(q)
  \/ Tick

Spec == Init /\ [][Next]_vars

(* The event loop runs every task that can run, every awaited call returns *)
(* or raises, and time passes.                                             *)
FairSpec ==
  /\ Spec
  /\ WF_vars(Tick)
  /\ \A r \in Requests : WF_vars(CallStep(r))
  /\ \A p \in Posts : WF_vars(PostStep(p))

----------------------------------------------------------------------------
(* Types. *)
CallLabels == {"idle", "creating", "reading_back", "notifying", "disabling", "disable_write",
               "waiting", "closing", "decrypting", "done", "crashed"}
PostLabels == {"idle", "load_approval", "load_device", "committing", "closing", "done", "crashed"}
Outcomes   == {"none", "approved", "partially_approved", "denied", "unavailable",
               "phone_not_linked", "notifications_unavailable", "approval_timed_out",
               "approval_unavailable", "disclosure_invalid", "cancelled", "abandoned"}
Copies     == [id : Devices, doc : [key : SigningKeys, enabled : BOOLEAN]]
DeviceDocs == [key : SigningKeys, enabled : BOOLEAN]

TypeOK ==
  /\ now \in Nat
  /\ budget \in [DOMAIN Budget -> Nat]
  /\ log \in [Requests -> Seq(Documents)]
  /\ seen \in [Pods -> [Requests -> Nat]]
  /\ device \in [Devices -> DeviceDocs \cup {NoDevice}]
  /\ pc \in [Requests -> CallLabels]
  /\ created \in [Requests -> Nat]
  /\ deadline \in [Requests -> Nat]
  /\ mine \in [Requests -> Nat]
  /\ target \in [Requests -> Nat]
  /\ todo \in [Requests -> SUBSET Devices]
  /\ reached \in [Requests -> BOOLEAN]
  /\ copy \in [Requests -> Copies \cup {NoCopy}]
  /\ \A r \in Requests : pc[r] = "disable_write" => copy[r] \in Copies
  /\ outcome \in [Requests -> Outcomes]
  /\ DOMAIN released = Requests
  /\ ppc \in [Posts -> PostLabels]
  /\ body \in [Posts -> Bodies \cup {NoBody}]
  /\ \A p \in Posts : ppc[p] # "idle" => body[p] \in Bodies
  /\ held \in [Posts -> Nat]
  /\ reply \in [Posts -> {0, 200, 400, 409, 503}]

(* The first writer wins: whatever calls, posts, time-outs and             *)
(* cancellations race for an approval, its document goes from pending to   *)
(* one settled version and is never written again.                         *)
SettledOnce ==
  \A r \in Requests :
    /\ Len(log[r]) <= 2
    /\ \A v \in 1..Len(log[r]) : (log[r][v].status = "pending") <=> (v = 1)

Verdict(r) == log[r][Len(log[r])]

(* A phone that was answered 200 sent the decision that stands: whether    *)
(* its POST was the first writer or an exact retry, no other decision and  *)
(* no time-out is ever recorded for that approval.                         *)
AckedDecisionStands ==
  \A p \in Posts : reply[p] = 200 =>
    LET r == body[p].to
    IN  log[r] # <<>> /\ SameDecision(Verdict(r), body[p])

(* Values leave the service only for an approval on record, sent under the *)
(* account that the call is for, whose device is that account's, whose     *)
(* result is a valid partition of what was asked, and which was signed for *)
(* this very approval and result - never from a copy that lost the race.   *)
ReleaseAuthorised ==
  \A r \in Requests : released[r] # <<>> =>
    /\ log[r] # <<>> /\ Verdict(r).status = "approved"
    /\ LET b == Verdict(r).body
       IN  /\ b.account = Owner[r] /\ Holder[b.device] = Owner[r]
           /\ b.to = r /\ b.sig.request = r /\ b.sig.device = b.device
           /\ b.sig.hash = ResultManifestHash(b.result)
           /\ ValidateResult("request", Asked[r], "approved", b.result)
           /\ KeysOf(released[r]) = b.result.approved

(* A caller who is given an answer - not an error - is given the decision  *)
(* on record, even if the poll that found it read an old version.          *)
AnswerIsOnRecord ==
  \A r \in Requests :
    pc[r] = "done" /\ outcome[r] \in {"approved", "partially_approved", "denied", "unavailable"} =>
      /\ log[r] # <<>> /\ Verdict(r).status \in Decided
      /\ outcome[r] = ResultStatus(Verdict(r).status, Verdict(r).body.result)
      /\ outcome[r] \in {"approved", "partially_approved"} <=> released[r] # <<>>

(* An approval must not outlive its call.  Without a store fault, a call   *)
(* that timed out, could not notify, or was cancelled after it had read    *)
(* its approval back leaves that approval settled or past its TTL: it      *)
(* may stay open where that close was abandoned, and for this it takes a   *)
(* second cancellation (CancelledCallIsClosed).                            *)
CallerGoneMeansSettled ==
  \A r \in Requests :
    /\ /\ budget["fault"] = Budget["fault"]
       /\ pc[r] = "done" /\ mine[r] # 0
       /\ outcome[r] \in {"approval_timed_out", "notifications_unavailable", "cancelled"}
       => Verdict(r).status # "pending" \/ ~Live(r, Len(log[r]))
    /\ outcome[r] = "abandoned" => budget["cancel"] + 2 <= Budget["cancel"]

(* Every call is answered and every POST is answered, however slow the     *)
(* phone and however the polls, the clock and the faults interleave.       *)
CallsEnd == \A r \in Requests : pc[r] # "idle" ~> pc[r] \in {"done", "crashed"}
PostsEnd == \A p \in Posts : ppc[p] # "idle" ~> ppc[p] \in {"done", "crashed"}

----------------------------------------------------------------------------
(* The inductive invariants that the proofs use.  A handler about to write *)
(* holds version 1, the pending one; so only the first of them finds it    *)
(* still to be the last.                                                   *)
SeenInLog == \A q \in Pods, r \in Requests : seen[q][r] <= Len(log[r])

CallHoldsFirst(r) ==
  /\ pc[r] \in {"idle", "creating"} => log[r] = <<>>
  /\ mine[r] <= Len(log[r])
  /\ pc[r] = "closing" => target[r] = 1

PostHoldsFirst(p) ==
  /\ ppc[p] \in {"idle", "load_approval"} => held[p] = 0
  /\ ppc[p] # "idle" => held[p] <= Len(log[body[p].to])
  /\ ppc[p] \in {"committing", "closing"} => held[p] = 1
  /\ reply[p] # 0 => ppc[p] = "done"
  /\ reply[p] = 200 => /\ Len(log[body[p].to]) = 2
                       /\ SameDecision(log[body[p].to][2], body[p])

FirstWriterInv ==
  /\ SettledOnce /\ SeenInLog
  /\ \A r \in Requests : CallHoldsFirst(r)
  /\ \A p \in Posts : PostHoldsFirst(p)

(* What a decision has to have passed before it is written. *)
Certified(r, b) ==
  /\ b \in Bodies /\ b.to = r
  /\ b.account = Owner[r] /\ Holder[b.device] = Owner[r]
  /\ \E key \in SigningKeys : Acceptable(key, b)

ApprovedOnRecord(r) == Len(log[r]) = 2 /\ log[r][2].status = "approved"

PostCertified(p) ==
  /\ ppc[p] = "load_device" /\ held[p] # 0 => body[p].account = Owner[body[p].to]
  /\ ppc[p] = "committing" => Certified(body[p].to, body[p])

RecordCertified(r) ==
  Len(log[r]) = 2 /\ log[r][2].status \in Decided =>
    Certified(r, log[r][2].body) /\ log[r][2].status = log[r][2].body.decision

CallAuthorised(r) ==
  /\ pc[r] = "decrypting" => ApprovedOnRecord(r) /\ mine[r] = 2
  /\ released[r] # <<>> =>
       ApprovedOnRecord(r) /\ KeysOf(released[r]) = log[r][2].body.result.approved

ReleaseInv ==
  /\ \A p \in Posts : PostCertified(p)
  /\ \A r \in Requests : RecordCertified(r) /\ CallAuthorised(r)

----------------------------------------------------------------------------
(* What the repository says and the code does not do. *)

(* tools.py:59: "No phone decision was received before the ... request     *)
(* expired" is said only if no phone was told that its decision counts.    *)
TimedOutMeansNoDecision ==
  \A r \in Requests : outcome[r] = "approval_timed_out" /\ pc[r] = "done" =>
    \A p \in Posts : ~(reply[p] = 200 /\ body[p].to = r)

(* test_timeout_and_cancellation_close_pending_approvals: a cancelled call *)
(* leaves no pending approval behind.  It does if it is cancelled before   *)
(* it has its approval's etag, or once more while it closes it.            *)
CancelledCallIsClosed ==
  \A r \in Requests : outcome[r] \in {"cancelled", "abandoned"} /\ pc[r] = "done" /\ log[r] # <<>> =>
    Verdict(r).status # "pending" \/ ~Live(r, Len(log[r]))
============================================================================
