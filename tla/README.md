# A formal model of the Concentrey backend

`soffortbackend` is an MCP server that lets a coding assistant ask for a few
values of a user's personal vault. The vault is on the user's phone; the backend
stores an *approval*, notifies the phone, waits for a signed decision, decrypts
the disclosed values and hands them to the caller. Several pods serve both the
MCP calls and the phone's HTTP requests, and share nothing but one Cosmos
container. This directory models that system in TLA+, checks the models with TLC
and proves their safety properties with TLAPS.

Paths below are relative to `src/` (the repository); Python files without a
directory are in `src/soffortbackend/`.

## Inventory

| Component | State | Operations | Hard behaviour | What makes it correct |
|---|---|---|---|---|
| Consent service (`approval.py`) | none of its own; local variables of a call between awaits | `request_properties`, `decide`, `_wait_for_decision`, `_best_effort_close` | races of decision, time-out and cancellation; a phone's retry; faults between any two awaits | one decision per approval, acknowledged decisions stand, released values were approved for this very request |
| Domain models (`models.py`) | `Approval`, `Device`, `EnrollmentChallenge`, statuses | `expired`, `partition_key` | boundaries of expiry | - |
| Cosmos store (`store.py:328-577`) | documents with etags and TTL, per account partition | create, conditional replace, upsert, query, delete | Session reads of other pods' writes, lost acknowledgements, upserts without an etag, two-step enrolment | first writer wins; a challenge is used once |
| In-memory store (`store.py:134-325`) | dictionaries under one lock | same protocol | must behave as the Cosmos store does | it implements the same contract |
| Disclosure (`disclosure.py`) | key version, crypto client | `start`, `decrypt`, `result_manifest_hash` | expiry between approval and decryption; rotation | plaintext bound to approval, decision, keys and expiry |
| Tool results (`tools.py`) | - | `request_result`, error texts | dictionary look-ups after consent was given | never fails after an approval; partitions the request |
| Catalog (`catalog.py`) | - | `parse_property_keys`, metadata checks | duplicates, bounds | canonical unique handles |
| Device proofs (`device_security.py`) | - | messages, ECDSA verification | what a signature is bound to | no signature is accepted for another tuple |
| Mobile API (`mobile_api.py`) | - | challenge, `put_device`, `delete_device`, index, inbox, decision | check-then-act across awaits | HTTP status tells what happened |
| Notifications (`notifications.py`) | provider token and its age, lock | `send_approval`, `_get_provider_token` | mixed outcomes per device; token age window | at least one accepted, or the call ends |
| Token verification (`auth.py`) | JWKS keys, expiry, last attempt, lock | `start`, `get_key`, `verify_token` | refresh races, cooldown, failed start | an unknown key never accepted, an outage recovered from |
| Application (`app.py`, `main.py`) | four started flags | lifespan, `/livez`, `/readyz`, tools | failure of one of several steps | what was started is closed |
| Settings (`settings.py`) | the environment's values, read once per process | `validate_security_boundaries` | values that were set by halves | nobody is let in on a mixture |
| Bootstrap (`scripts/bootstrap-identity.py`) | none; registrations, consents and the user flow in Entra, `.vscode/mcp.json`, GitHub's variables | a row of some thirty requests | any may be the last; run again and again; what it finds may be old, doubled or half done | the same registrations and permissions for ever; least privilege; a rerun completes |
| Probe (`scripts/test-identity-pkce.py`) | - | sign in, `verify_access_token` | checks against discovery, the server against its settings | what passes the probe with the published client and audience passes the server |
| Logging, infra, deploy, workflows, other scripts | - | formatting; declarative templates; one-shot checks | - | - |

Interaction: an MCP call and a decision POST never talk to each other. They meet
in the approval document, through conditional writes on its etag
(`store.py:557-577`), and in the device documents. The call polls the document;
the notifier pushes to APNs; the disclosure decryptor is called after the wait.
Readiness (`app.py:197-200`) joins the four started components.

The full list of hazards, each at its line and with the properties that would
catch it, is in `PROJECT.json`.

## Modules

| Module | Models | Depends on |
|---|---|---|
| `ConsentResult` | pure functions on an answer: key parsing, the five validators of `approval.py:244-325`, the manifest hash, what a JWE and its plaintext are bound to, the rendered result | - |
| `ConsentPipeline` | one answer from the tool's arguments through validation and decryption to the tool result | `ConsentResult` |
| `ConsentFlow` | calls and POSTs on several pods over the shared, versioned document | `ConsentResult` |
| `Consent` | the promise: an approval is opened once, settled at most once, and only what it was settled as is told | - |
| `ConsentRefinement` | `ConsentFlow` implements `Consent` | both |
| `ConsentFlowProofs` | theorems about `ConsentFlow` | `ConsentFlow`, `TLAPS` |
| `ConsentAnswerProofs` | theorems about what a call of `ConsentFlow` answers and leaves behind, and that it implements `Consent` | `ConsentFlowProofs`, `ConsentRefinement` |
| `DeviceRegistry` | challenges, enrolment in two awaits, disabling, deletion | - |
| `DeviceRegistryProofs` | theorems about `DeviceRegistry` | `DeviceRegistry`, `TLAPS` |
| `JwksCache` | the key cache behind token verification, its lock and cooldown, the readiness gate | - |
| `JwksCacheProofs` | theorems about `JwksCache` | `JwksCache`, `TLAPS` |
| `KeyRotation` | the disclosure key: read by a pod at its start, offered to the phone with an approval, named by the disclosure, asked for by the caller's pod; the rollout and the operator's rotation | - |
| `KeyRotationProofs` | theorems about `KeyRotation` | `KeyRotation`, `TLAPS` |
| `PropertyDiscovery` | the property index that phones put, its listing by the MCP caller, and the request for keys from that list | `ConsentPipeline` |
| `PropertyDiscoveryProofs` | theorems about both, and about the filter and the lists of `ConsentResult` | `PropertyDiscovery`, `TLAPS` |
| `PodLifecycle` | one process: start and close of its four components in order, failures of each, and the APNs provider token while it serves | - |
| `Bootstrap` | the bootstrap script request by request, ended anywhere and run again | - |
| `BootstrapProofs` | theorems about `Bootstrap` | `Bootstrap`, `TLAPS` |
| `IdentityRollout` | the script's variables as settings of the pods, the tokens a tenant issues, and whom `verify_token` and the probe accept | `Bootstrap`, `PodLifecycle` |
| `IdentityRolloutProofs` | theorems about `PodLifecycle` and about the composition | `IdentityRollout`, `BootstrapProofs` |
| `MC...` | constants for TLC | the module named |

### How `ConsentFlow` corresponds to the code

A step ends where the code awaits; everything between two awaits is one action.

* `log[r]` is the history of the document of approval `r`; its index is the
  etag. `Replaceable` is `replace_item(..., match_condition=IfNotModified)`.
  A document is invisible once its TTL has run out (`Live`).
* `seen[pod][r]` is the session of a pod's Cosmos client: a read returns any
  version not older than what this pod has read or written. The account is
  configured for Session consistency (`infra/main.bicep:369`) and each pod has
  one client. A real session token covers a partition rather than a document, so
  the model allows strictly more stale reads than Cosmos.
* The local variables of a call are `created`, `deadline`, `mine` (the copy in
  `_request`), `target` (the copy `_best_effort_close` has), `todo`, `reached`,
  `copy` (the device that `disable_device` read), `outcome` and `released`; those
  of a POST are `body`, `held` and `reply`.
* `ListDevices`, `CreateApproval`, `ReadBack`, `Notify`, `DisableRead`,
  `DisableWrite`, `Poll`, `FinalRead`, `Close` and `Decrypt` are the awaits of
  `request_properties`, in order; `CallFails` and `Cancel` its two `except`
  clauses. A cancellation closes the approval; one that arrives while this close is
  awaited abandons it, as `_best_effort_close` catches `Exception` only
  (`approval.py:153-156`, `345-349`), and the outcome is then "abandoned". `Receive`, `LoadApproval`,
  `LoadDevice`, `Commit`, `CloseExpired` and
  `PostFails` are those of `decide_approval`.
* `Tick`, `Link`, `Unlink` and `Crash` are the environment.

Abstractions: values, purposes, nonces and ciphertexts are records of model
values; a signature is the tuple it was made over and verifies exactly that;
a JWE is the header, what its plaintext says, and whether it is intact. A stale
`issued_at`, like a malformed body, is a 400 that may always happen (`Receive`).
`decide` reads the clock twice in one synchronous stretch (`approval.py:193`,
`store.py:537`); the model reads it once. The deadline check and the read that
follows it are one step (`Poll`). Device documents are read at their current
version. Clock skew between pods is not modelled. Time saturates at `Horizon`,
where every approval has expired and every TTL has run out.

### How `DeviceRegistry` corresponds to the code

The store is that of `ConsentFlow`, for two other kinds of document. `Receive`,
`CheckChallenge`, `Consume` and `WriteDevice` are the awaits of `put_device`
(`mobile_api.py:97-153`) with the two of `register_device` inside;
`DisableRead` and `DisableWrite` those of `disable_device`, here also with reads
at Session consistency. A device document remembers the PUT that enrolled it
(`by`); the code does not store that, and no guard reads it. `ConsentFlow` uses
the simpler actions `Link` and `Unlink` in place of this module: for a decision
only the current key of a device and whether it is active matter.

### How `JwksCache` corresponds to the code

`GetKey` is `get_key` up to the lock, and `Acquire` the look inside it up to the
HTTP request. `Serve` is the issuer answering with the keys of that moment; the
response is then under way (`document`, and `servedAt` for the properties), keys may
be retired meanwhile, and with its arrival (`Fetch`) its time to live starts.
`MaxFlight` is an assumption on the environment, which `Tick` keeps: the client's
`Timeout(5.0)` bounds each read, not a whole response, so the code itself gives no
such bound. `FetchFails` is an HTTP error, a time-out or a document without a usable
key. The start-up (`Boot`) is one more user of `_refresh(force=True)`, and swallows
`HTTPError` and `ValueError`; a key that `PyJWK` cannot build is neither, and the
start raises it (`StartRaises`). `Routed` is what Kubernetes does
with `/readyz`: with `Gated` an unready pod gets no request; without, requests
come all the same (from inside the cluster), which allows more behaviours and
is what the safety run uses. `retired` and `began` are history. The lock is
handed out in any order in the safety run; asyncio's is first in, first out.
The clock is bounded by `Horizon` and simply stops there: nothing waits for it.

### How `KeyRotation` corresponds to the code

`key[p]` is `_current` of a pod, set once by `start` (`KeyAtStart`) and cleared by
`close` (`KeyAfterClose`); `Start` and `Exit` are the two ends of the lifespan
(`app.py:96-117`), as far as this key is concerned, and `Exit` is also a crash.
`FetchApproval` and `ListInbox` are the two GETs, whose response carries the key
of the pod that answers (`_approval_response`). `Decide` commits what the phone
sealed, `Notice` is the read that finds it with the check of the deadline in
`decrypt`, and `Unwrap` what Key Vault then answers for the `kid` of the header.
`CreateVersion`, `BeginWait` and `DisableOld` are the procedure of
`docs/operator-runbook.md:55`, in its order; `Drain` is the rolling update, after
which an old pod may work on for `terminationGracePeriodSeconds`.

Abstractions: the decision protocol is reduced to absent, pending and settled
(module `ConsentFlow` has it in full); a read may be arbitrarily stale except of
the pod's own writes; the phone is honest and answers with the last key it was
given, at any time; the inbox's limit of 20 is left out, so that it may show any
live approvals. `Latency` bounds the Key Vault calls of one decrypt, and `Grace`
the drain: the assumption `Grace + Latency <= CosmosTtl` is what the five minutes
of the runbook are there for.

### How `PropertyDiscovery` corresponds to the code

`PutPropertyIndex` is the whole route (`mobile_api.py:163-178`): members, metadata
checks and the unconditional upsert. Its checks (`ManifestAccepted`) are not those of
an approval (`ValidateMetadata`): the catalog takes any value type of a pattern and a
label as it is (`catalog.py:27-48`), the service a fixed set of types and labels in
normal form (`approval.py:289-325`), so what is `listable` need not be `sound` and may
be listed though no approval of it will be accepted. `index` keeps every version of the document,
and a read returns any of them or none: PUTs are not ordered by the code, a read
at Session consistency may be stale, and which of two PUTs is the later one in the
phone is unknown to the server. `ListAvailableProperties` is the tool of
`app.py:146`; `RequestListed` is a caller that follows the tool's description and
continues with `ConsentPipeline`. The account that put a version is history.

### How `PodLifecycle` corresponds to the code

`StartPart`, `StartFails`, `ClosePart` and `Exit` are `lifespan` (`app.py:96-117`):
`started` stands for its four flags, which are set in order. `raised` is an
exception out of a `close`, after which the rest of the clause is skipped; the
code accepts that, and the property excepts it. Each of the four may fail to start;
the token verifier does so only for a key that `PyJWK` cannot build, as it swallows
`HTTPError` and `ValueError` (`auth.py:51-58`). `Send` is `_get_provider_token`, which holds its lock
throughout, and hands the token to `_send_one`; `Arrive` is Apple receiving it at
most `SendTime` later. Time is `time.time()`, taken to be right: after a wall clock
that jumps back a token may be reused for longer than the property says.

### How `Bootstrap` corresponds to the code

`Program` is `main()` with one row for each request that changes something; the
GETs before it belong to the row. `pc`, `mine` and `ids` are the local variables of
a run; everything else outlives it. `Refuse` is the script raising by itself,
`Interrupt` anything else that ends it; Python's `write_text` empties the file
before it writes, hence `torn`. `CreateFlow`, `ConsentAlone` and
`RestoreConfiguration` are what people do, the first and the last because the
script asked for it. Both optional arguments are given (user flow and repository);
without them a run is a shorter row. A registration's number is its client id; of
its scopes only their ids matter. One operator runs the script at a time, and the
directory shows what was written: two at once could both create, which leads to
the doubled registrations that two of the tenants start from.

### How `IdentityRollout` corresponds to the code

`BuildApp` copies the variables as they stand: the infrastructure workflow hands
them to the pods, at any moment and also between two `gh variable set`.
`Valid` is `validate_security_boundaries`. `Issued` is what Entra issues: to a
registered client, for the API, with the scopes consented to, with the user's object
id or without, and the same in a tenant that was used before. A consent is the
tenant's or one user's; `Issued(FALSE)` are the tokens of everybody else. `Verified`
is `verify_token` without its times, its RSA and `sub`, which server and probe both
require. `McpAccepts` and `MobileAccepts` are the two gates behind it.

`ProbePasses` is `verify_access_token` of the probe. It compares with the probe's own
arguments (tenant, domain, client, audience), whose defaults are those of one
deployment (`test-identity-pkce.py:27-33`), and does not ask for an object id (line
193). `ProbePredictsServer` is therefore a statement about runs of the probe with the
client and audience that were published, in whichever tenant, and about tokens with an
object id; with other arguments the probe says nothing of this server. The two scope
URIs are constants of both programs and are left out.

## Runs

| Run | Question | Bounds |
|---|---|---|
| `MCPropertyDiscovery` | does every answer that passes validation come out as a consistent tool result, and is what a caller lists its own and accepted? | two handles, every answer shape over them, good and spoilt disclosures whose header and content expire at different times; two accounts, two PUTs of any manifest over the handles, with metadata that an approval would refuse, or that the catalog refuses |
| `MCConsentRefinement` | with faults, does the protocol implement the promise, is the caller given the one decision on record, when is an approval left open? | one call, two POSTs on two pods, an approval and a denial; one store fault, two cancellations, one crash |
| `MCConsentIsolation` | are two accounts kept apart, are values released only for a decision that was signed for them, and do all calls and POSTs end? | two calls, one POST with any of seven bodies, some with another approval, account, device or ciphertext, one with the signature of another result; three devices, two of one account; one re-enrolment or deletion of a device |
| `MCDeviceRegistry` | is a challenge used once, is every key proven, does a refusal change nothing, does every PUT end? | two PUTs on two pods, two accounts, two challenges, four bodies (two enrolments, another account's nonce, a replay under another challenge); one disable, one deletion, one store fault, one crash |
| `MCJwksCache` | do retired keys die, is the issuer spared, does every look-up end? | two tasks that look up again and again, two keys that rotate without end, start-up may fail, requests may be cancelled; a cooldown, a cache's life and a response's flight are 1 each, the clock runs from 1 to 3 |
| `MCKeyRotation` | does a rotation ever take the key from a disclosure in use, or leave a pod offering a disabled one? | two pods and a spare, one rotation, one approval created at any time up to 4; it lasts 2, the operator waits for more than 2 + 2, drain and Key Vault take up to 1 each |
| `MCIdentityRollout` | can a bootstrap that ends anywhere always be completed, does it keep registrations and privileges, whom do pods let in that start in between, do they close what they opened and spare Apple's limits? | six tenants (empty; from before the rename with or without the iPhone's client; half brought up to date; two with a doubled registration), variables unset or of a former tenant, two runs that end early, users who consent for themselves; tokens in quarters of an hour: reused for 3, refused after 4, a push takes up to 1 |

Why these bounds are enough: two writers race for a document only in pairs (a
third finds it settled, and the proofs cover any number); a decision can lose to
another POST, to a time-out or to a cancellation, and all are possible. The clock
goes beyond deadline and TTL, so that each of before, at and after is reached for both.
One fault of each kind is placed at every step by TLC. A second interruption of
the bootstrap meets what the first left at every pair of requests; a third finds
nothing that a second could not leave, as every request either makes its thing or
finds it made. The reuse of fifty minutes is rounded down to three quarters and
Apple's twenty minutes up to two, and the push takes a whole quarter; the
proofs hold for all values. Two PUTs are an older and a newer manifest, or one's
own and another's.

Five runs are expected to find a violation. Each states what the repository says,
and shows a behaviour of the code that differs:

* `MCConsentFlow_timeout`: a decision that lands between the final read and the
  close is acknowledged, and the caller is told that none came.
* `MCConsentFlow_cancel`: a cancellation before the read-back has no etag to
  close with, and a second cancellation abandons the close of the first; either way
  the approval stays pending.
* `MCDeviceRegistry_disable`: `disable_device` upserts a copy it read earlier. It
  undoes an enrolment that the phone was told has succeeded, or brings back a
  document that the phone has deleted. The document it leaves is inactive:
  `ChallengeEnrolsOnce` shows that no stale copy becomes an active device again.
* `MCJwksCache_start`: a pod whose first fetch fails is never routed a token, so
  the promised later retry does not come; only a restart helps, and the liveness
  probe does not ask for one.
* `MCIdentityRollout_consent`: the script looks a client's consents up whatever their
  type and only adds the scope to the first it finds (`bootstrap-identity.py:243-259`).
  Where a user had consented for himself before, the run ends well without the
  tenant-wide consent of its docstring (line 242), and nobody else gets a token.

One more wording differs from the code and has no run of its own: an approval that
denies every field is rendered as `unavailable` with the denied keys listed, which
`StatusTellsWhatHappened` states, while `tools.py:107` and
`docs/e2e-test-runbook.md:126` speak of a denial.

The operators marked *mutant* are broken versions of the definition that follows
them. No behaviour of the specifications uses them; each shows that a property
notices the corresponding bug.

### Fairness

`FairSpec` of `ConsentFlow` assumes that time passes (`WF(Tick)`) and that each
call and each POST that can run is eventually run: the asyncio event loop is
fair to ready tasks, and every awaited client has a time-out, so an await
returns or raises. Nothing is assumed of the phone: no POST need ever come.
`DeviceRegistry` assumes the same of every PUT. `JwksCache` assumes that who waits
for the lock gets it (strong fairness, justified by asyncio's first-in-first-out
lock and the HTTP client's 5 s time-out), that clients go on sending tokens
where they are routed, and that time passes. The counterexample of
`MCJwksCache_start` satisfies all of these. `Bootstrap` assumes of the operator what
"idempotently" is there for: that the script is run again until it ends well, that
the user flow it asks for is created, and that an emptied `mcp.json` is taken back
from git if runs keep finding it so (strong fairness, as a run may be in progress
in between). Interruptions are bounded by `Interruptions`; were every run
interrupted, none would end well. `PodLifecycle` has no fairness and no liveness:
an awaited close may hang for as long as the kubelet lets it.

## Proofs

`ConsentFlowProofs` proves, for all values of the constants that satisfy
`FlowAssumption` and `ResultAssumption`:

* `TypeCorrect`: `Spec => []TypeOK`.
* `EveryApprovalSettledOnce` and `EveryAckedDecisionStands`, from the inductive
  invariant `FirstWriterInv`. `SettledOnce` alone is not inductive: it needs
  that a handler about to write holds version 1 (`CallHoldsFirst`,
  `PostHoldsFirst`), which in turn needs that no session is ahead of the log
  (`SeenInLog`). Then only the first of them finds its version to be the last.
* `EveryReleaseAuthorised`, from `ReleaseInv`: what is about to be committed has
  passed every check (`Certified`), so what is on record has (`RecordCertified`),
  and what is decrypted is on record (`CallAuthorised`).

The proofs of the steps follow the actions: one lemma per handler and one step
per conjunct that it can disturb; the other conjuncts follow from frame lemmas.

`ConsentAnswerProofs` goes on from there to what the caller is told
(`AnswersAreOnRecord`). `AnswerInv` adds that a call tells an approval exactly when
it releases values, and decrypts only where something was approved; a step then
says nothing, concludes without values, or releases (`StepTells`). And it proves
that without a store fault a caller that has timed out, could not notify or was
cancelled once leaves nothing to decide, and that a close is abandoned only by a second
cancellation of the call (`GoneCallersLeaveNothing`). `GoneInv` adds that the session of a running call has
seen the approval that the call holds (`SessionHolds`), so that a last read which
finds nothing means that the document has lived its time; and the conditional
write of the close is refused only where that is so or another has settled it.

`FlowImplementsConsent` is the refinement for all constants: the
initial states of `ConsentFlow` are initial states of `Consent`, and every step is
one of its actions or a stutter (`StepPromises`). A verdict is what the last version
says (`VerdictRead`), a version is never overwritten (`VerdictKept`), and a caller is
told only what the verdict is (`ToldIsVerdict`, which needs `AnswerInv`): so each
write of a handler is an opening or a decision, each answer a hearing, and each 200
an acknowledgement of the decision on record.

`KeyRotationProofs` proves for every set of pods and approvals, and all times that
satisfy `RotationAssumption`, that the rotation is safe (`RotationIsSafe`,
`CachedKeysEnabled`, `TypeCorrect`). The properties are not inductive: that the
operator may disable a version depends on nothing in the system but the clock.
`IInv` therefore gives every old thing a deadline. During the wait an old pod is
being drained and gone by `since + Grace` (`OldPodsGo`); hence an approval that was
offered or sealed an old key was created by then (`OldOffersGo`), and a running
Key Vault call ends within `Latency` of a time before its expiry (`CallsInTime`).
When the wait is over all of these have passed, so `DisableOld` leaves only
expired approvals with a disabled version (`OffersStand`), and an expired
disclosure is refused before Key Vault is asked.

`DeviceRegistryProofs` proves for any number of PUTs, pods, accounts, devices and
nonces, whatever crashes, faults and deletions come between, that a nonce brings
one device to life (`ChallengesEnrolOnce`), that every key was shown by its phone
(`KeysAreProven`) and that a refused PUT wrote nothing (`RefusalsWriteNothing`).
None of these is inductive. `RegistryInv` adds what a PUT between its awaits has
shown (`PutsProven`), that the conditional replace lets only one PUT past a
challenge (`OneSpender`, from `ChallengesSpentOnce`: a challenge has two
versions, and the second is spent), and that what `disable_device` is about to
write back was once a document (`CopiesRead`), so that its copy proves itself
by the same PUT and is not active.

`JwksCacheProofs` proves for any number of lookups and keys and for all durations
that a retired key dies `MaxTtl + MaxFlight` after its retirement
(`RetiredKeysDie`), and that requests for unknown keys, and all while the keys are
fresh, follow the last by a cooldown (`FloodsAreBounded`); the rest, for known keys
after their expiry, is not held back by the code. `CacheInv` adds that a key of a
response under way was retired after it was sent, at most `MaxFlight` ago
(`ResponseIsRecent`), when the cached keys that the issuer has taken back expire
(`KeysExpire`), and that a lookup which finds, after its wait, a key that was unknown
to it was begun before that response had arrived (`WaitersKeysAreNew`): some fetch
came between.

`IdentityRolloutProofs` proves of a pod for all durations with `Reuse + SendTime <= MaxAge` and
`MinReuse <= Reuse` that no token is too old when Apple gets it
(`TokensAreYoung`), that a serving process does not renew early
(`RenewalsAreSpaced`; per process: a restarted one signs anew, as the code
does), and that what was started is closed (`ProcessesEndClosed`). The invariant adds
when a token was taken (`TakenYoung`) and that one exists only while the notifier
is open (`TokenWhileOpen`).

`BootstrapProofs` proves for any set of tenants that are in order at first
(`BootstrapAssumption`: clients require what exists, consents are to the client's
own scope) and any number of interruptions that this stays so
(`RequirementsHold`, `ConsentsAreLeast`), and that registrations and permission ids
are kept (`RegistrationsStay`). `BootstrapInv` adds what a run in progress knows
(`RunKnows`): from the row on that finds a role, `mine` is a registration of it, and
`ids` are the API's. `AmbiguityIsSilent` and `ProgressLasts` follow the rows of the
program: `SoleInv` says that a run past the row of a role has found it sole, and that
something is published only when all are; `ProgressInv` that what a run has consented
to and published up to its row is so. Both have to hold of every run at once: an
interrupted run leaves its half behind for the next, and must not take back what an
earlier one has finished.

`IdentityRolloutProofs` also shows that the composition is, projected, each of its parts
(`RolloutHasParts`), so that the theorems above hold of it, and proves
`NobodyElseTrusted`: a client id in any settings is of that role in one of the two
tenants, whatever mixture the settings are (`ClientsNamed`), and issuer, keys,
tenant and audience of a token that is verified are of one.

With `ProgressInv` it goes on to `FinishedRunsWork` - after a run that ends well the
published clients get a token that the server of these variables takes: every user's,
unless somebody had consented to that client for himself, where the script leaves it at
his consent and the theorem at his token (`MCIdentityRollout_consent` shows that it
promises more) - and to `ProbesPredict`: a token with an object id which passes the
probe with the published client and audience, whatever tenant and domain it was told,
passes the server (a token names one tenant, `TokensOfOneTenant`).

`PropertyDiscoveryProofs` proves every property of `PropertyDiscovery` and of
`ConsentPipeline`, for any handles and bounds,
requests of any length, any answers and any manifests. The assumption on answers
(`WellFormed`) is what `decide_approval` has made sure of before the service sees
them. The proof has three parts.

* The filter. `InOrder` gives each kept key the position that is the number of keys
  kept up to it. The count rises just at the kept keys (`KeptGrows`), so it maps them
  one to one into as many positions and reaches every one (`EveryNumberIsKept`). Hence
  the result holds what is in both, in the order of the request (`InOrderSelects`), and
  is the request if all of it is kept (`InOrderOfAll`).
* The partition. Three lists whose concatenation repeats nothing are apart, and the
  first holds everything only if the others are empty (`PartsAreApart`). With the
  filter, every approved key has metadata (`ApprovedIsDescribed`), and the approved
  list is the request exactly if nothing was denied or unavailable (`AllIsApproved`).
* The invariants. `PipelineInv` says that from the decision on the answer is one that
  was accepted for these keys, and that values are the plaintext of its disclosure, which
  was decryptable at some time of the approval (`Released`), or none. That it
  was valid when its header was looked at is a property of the step
  (`ValuesBoundToDecision`), since no state remembers when that was. `DiscoveryInv`
  adds that each version of an index was put by the account of its partition and was
  accepted (`IndexInv`): so a listed key is a handle, and a choice of them parses
  (`ChoiceParses`). That a list is one's own needs that an account is no more than its
  tenant and object id (`PartitionIsAccounts`).

Only model-checked: liveness (`CallsEnd`, `PostsEnd`, `PutsEnd`, `LookupsEnd`,
`RerunCompletes`), which needs fairness and `ENABLED`, and the five expected
violations, which are behaviours. Every other property of a run is a theorem.

## Not modelled

* The in-memory store: a test double that no deployment uses. Its methods run
  one at a time under a lock, so nothing that the models are about happens there.
* The profile (`models.py:57`, `store.py`): no route and no tool reads it;
  `cleanup-profiles.py` deletes what older versions stored.
* The inbox's limit of 20 (`store.py:513`): the limit hides approvals but decides
  nothing about them; `KeyRotation` lets the inbox show any.
* Logging, and wording and layout of errors and results.
* RSA, AES-GCM, ECDSA, base64, JSON and Unicode: abstracted to `intact`,
  signatures as tuples and sound or unsound labels.
* The browser sign-in of the probe, whose state is one callback; the remaining
  scripts, which check rendered files or generate load; templates and
  workflows, which are declarative and appear as the environment of the models.
* Clock skew between pods and jumps of a clock; `issued_at` and the times in a
  token are refusals that may always happen.
