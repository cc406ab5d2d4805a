------------------------ MODULE ConsentAnswerProofs -------------------------
(* What a call answers is what is on record, what it leaves is over, and   *)
(* so the protocol keeps the promise of Consent.                           *)
EXTENDS ConsentFlowProofs, ConsentRefinement

Releasing == {"approved", "partially_approved"}
Telling == Releasing \cup {"denied", "unavailable"}

OnRecord(r, told) ==
  /\ Len(log[r]) = 2 /\ log[r][2].status \in Decided
  /\ told = ResultStatus(log[r][2].status, log[r][2].body.result)

(* A call tells a decision once it has ended, as it is on record; it tells *)
(* an approval exactly when it releases values; and it decrypts only where *)
(* something was approved.                                                 *)
AnswerStands(r) ==
  /\ outcome[r] \in Telling => pc[r] = "done" /\ OnRecord(r, outcome[r])
  /\ outcome[r] \in Releasing <=> released[r] # <<>>
  /\ pc[r] = "decrypting" => log[r][2].body.result.approved # <<>>

AnswerInv == \A r \in Requests : AnswerStands(r)

LEMMA NoKeysOfNone == KeysOf(<<>>) = <<>>
BY DEF KeysOf

LEMMA StatusWords ==
  ASSUME NEW status, NEW result
  PROVE  /\ status = "denied" \/ result.approved = <<>> =>
              ResultStatus(status, result) \notin Releasing
         /\ status # "denied" /\ result.approved # <<>> =>
              ResultStatus(status, result) \in Releasing
BY DEF ResultStatus, Releasing

(* How a step may change what a call tells.                                *)
Quiet(s) ==
  /\ released'[s] = released[s]
  /\ \/ outcome'[s] = outcome[s] /\ (pc[s] = "done" => pc'[s] = "done")
     \/ outcome'[s] \notin Telling /\ pc[s] # "done"
  /\ pc'[s] = "decrypting" => pc[s] = "decrypting"
Concluding(s) ==
  /\ released'[s] = released[s] /\ pc[s] = "waiting"
  /\ \/ /\ pc'[s] = "done"
        /\ OnRecord(s, outcome'[s]) /\ outcome'[s] \notin Releasing
     \/ /\ outcome'[s] = outcome[s] /\ Len(log[s]) = 2
        /\ log[s][2].body.result.approved # <<>>
Releases(s) ==
  /\ pc'[s] = "done" /\ released'[s] # <<>>
  /\ OnRecord(s, outcome'[s]) /\ outcome'[s] \in Releasing

Tells(s) == Quiet(s) \/ Concluding(s) \/ Releases(s)

LEMMA OtherOutcomesKept ==
  ASSUME TypeOK, NEW r \in Requests, NEW s \in Requests, s # r,
         CallStep(r) \/ CallFails(r) \/ Cancel(r)
  PROVE  outcome'[s] = outcome[s]
<1>1. ASSUME NEW x, Finish(r, x) PROVE outcome'[s] = outcome[s]
  BY <1>1 DEF Finish, TypeOK
<1>2. ASSUME NEW v, NEW x, BeginClose(r, v, x) PROVE outcome'[s] = outcome[s]
  BY <1>2 DEF BeginClose, TypeOK
<1>3. ASSUME NEW rest, NEW ok, AfterDisabling(r, rest, ok) PROVE outcome'[s] = outcome[s]
  BY <1>2, <1>3 DEF AfterDisabling
<1>4. ASSUME NEW v, Conclude(r, v) PROVE outcome'[s] = outcome[s]
  BY <1>1, <1>4 DEF Conclude
<1>5. QED
  <2>1. CASE \/ ListDevices(r) \/ CreateApproval(r) \/ ReadBack(r)
             \/ Close(r) \/ Decrypt(r) \/ CallFails(r)
    <3>1. (\E x : Finish(r, x)) \/ outcome' = outcome
      BY <2>1 DEF ListDevices, CreateApproval, ReadBack, Close, Decrypt, CallFails
    <3>. QED
      BY <1>1, <3>1
  <2>2. CASE Notify(r) \/ DisableRead(r) \/ DisableWrite(r)
    BY <1>2, <1>3, <2>2 DEF Notify, DisableRead, DisableWrite
  <2>3. CASE Poll(r) \/ FinalRead(r)
    BY <1>1, <1>2, <1>4, <2>3 DEF Poll, FinalRead
  <2>4. CASE Cancel(r)
    BY <1>1, <1>2, <2>4 DEF Cancel
  <2>. QED
    BY <2>1, <2>2, <2>3, <2>4 DEF CallStep

LEMMA OtherAnswersKept ==
  ASSUME TypeOK, NEW r \in Requests, NEW s \in Requests, s # r,
         CallStep(r) \/ CallFails(r) \/ Cancel(r)
  PROVE  Quiet(s)
<1>1. pc'[s] = pc[s]
  BY OtherCallsKept
<1>2. outcome'[s] = outcome[s]
  BY OtherOutcomesKept
<1>3. released'[s] = released[s]
  <2>1. CASE Decrypt(r)
    <3>1. UNCHANGED released \/ \E x : released' = [released EXCEPT ![r] = x]
      BY <2>1 DEF Decrypt
    <3>. QED
      BY <3>1 DEF TypeOK
  <2>2. CASE ~Decrypt(r)
    BY <2>2 DEF CallStep, ListDevices, CreateApproval, ReadBack, Notify, DisableRead,
                DisableWrite, Poll, FinalRead, Close, CallFails, Cancel
  <2>. QED
    BY <2>1, <2>2
<1>. QED
  BY <1>1, <1>2, <1>3 DEF Quiet

LEMMA CallTellsItself ==
  ASSUME TypeOK, FirstWriterInv, ReleaseInv, AnswerInv, NEW r \in Requests,
         CallStep(r) \/ CallFails(r) \/ Cancel(r)
  PROVE  Tells(r)
<1>1. ASSUME NEW x, Finish(r, x) PROVE pc'[r] = "done" /\ outcome'[r] = x
  BY <1>1 DEF Finish, Goto, TypeOK
<1>2. ASSUME NEW label, Goto(r, label) PROVE pc'[r] = label
  BY <1>2 DEF Goto, TypeOK
<1>3. ASSUME NEW v, NEW x, BeginClose(r, v, x)
      PROVE  pc'[r] \in {"closing", "done"} /\ outcome'[r] = x
  BY <1>3 DEF BeginClose, Goto, TypeOK
<1>4. ASSUME NEW rest, NEW ok, AfterDisabling(r, rest, ok)
      PROVE  /\ pc'[r] \in {"closing", "done", "disabling", "waiting"}
             /\ outcome'[r] \in {outcome[r], "notifications_unavailable"}
  BY <1>2, <1>3, <1>4 DEF AfterDisabling
<1>5. ASSUME NEW v \in ReadResults(PodOf[r], r), v # 0, log[r][v].status \in Decided,
             Conclude(r, v), UNCHANGED released, pc[r] = "waiting"
      PROVE  Tells(r)
  <2>1. v = 2 /\ Len(log[r]) = 2
    <3>1. PodOf[r] \in Pods
      BY FlowAssumption
    <3>2. v \in Nat /\ v <= Len(log[r]) /\ Len(log[r]) \in Nat /\ Len(log[r]) <= 2
      BY <3>1, ReadResultsNat DEF FirstWriterInv, SettledOnce
    <3>3. v # 1
      BY <1>5, <3>2 DEF FirstWriterInv, SettledOnce, Decided
    <3>. QED
      BY <1>5, <3>2, <3>3, OnlyTwo
  <2>2. CASE /\ log[r][v].status = "denied" \/ log[r][v].body.result.approved = <<>>
             /\ Finish(r, ResultStatus(log[r][v].status, log[r][v].body.result))
    <3>1. pc'[r] = "done" /\ outcome'[r] = ResultStatus(log[r][2].status, log[r][2].body.result)
      BY <1>1, <2>1, <2>2
    <3>2. outcome'[r] \notin Releasing
      BY <2>1, <2>2, <3>1, StatusWords
    <3>. QED
      BY <1>5, <2>1, <3>1, <3>2 DEF Tells, Concluding, OnRecord
  <2>3. CASE log[r][v].body.result.approved # <<>> /\ UNCHANGED outcome
    BY <1>5, <2>1, <2>3 DEF Tells, Concluding
  <2>. QED
    BY <1>5, <2>2, <2>3 DEF Conclude
<1>6. ASSUME pc[r] # "done", pc'[r] # "decrypting", UNCHANGED released,
             outcome'[r] = outcome[r] \/ outcome'[r] \notin Telling
      PROVE  Tells(r)
  BY <1>6 DEF Tells, Quiet
<1>7. CASE ListDevices(r) \/ CreateApproval(r) \/ ReadBack(r) \/ Close(r)
  BY <1>1, <1>2, <1>6, <1>7
     DEF ListDevices, CreateApproval, ReadBack, Close, Telling, Releasing
<1>8. CASE Notify(r)
  BY <1>3, <1>4, <1>6, <1>8 DEF Notify, Telling, Releasing
<1>9. CASE DisableRead(r)
  BY <1>2, <1>4, <1>6, <1>9 DEF DisableRead, Telling, Releasing
<1>10. CASE DisableWrite(r)
  BY <1>4, <1>6, <1>10 DEF DisableWrite, Telling, Releasing
<1>11. CASE Poll(r)
  <2> PICK v \in ReadResults(PodOf[r], r) : Poll(r)!2!(v)
    BY <1>11 DEF Poll
  <2>1. pc[r] = "waiting" /\ UNCHANGED released
    BY <1>11 DEF Poll
  <2>2. CASE UNCHANGED <<pc, outcome, mine>>
    BY <1>6, <2>1, <2>2
  <2>3. CASE Conclude(r, v) /\ v # 0 /\ log[r][v].status \in Decided
    BY <1>5, <2>1, <2>3
  <2>4. ASSUME NEW x \in {"approval_unavailable", "approval_timed_out"}, Finish(r, x) PROVE Tells(r)
    BY <1>1, <1>6, <2>1, <2>4 DEF Telling, Releasing
  <2> QED
    BY <2>2, <2>3, <2>4
<1>12. CASE FinalRead(r)
  <2> PICK v \in ReadResults(PodOf[r], r) : FinalRead(r)!2!(v)
    BY <1>12 DEF FinalRead
  <2>1. pc[r] = "waiting" /\ UNCHANGED released
    BY <1>12 DEF FinalRead
  <2>2. CASE BeginClose(r, v, "approval_timed_out")
    BY <1>3, <1>6, <2>1, <2>2 DEF Telling, Releasing
  <2> QED
    BY <1>5, <2>1, <2>2
<1>13. CASE Decrypt(r)
  <2> DEFINE b == log[r][mine[r]].body
             approval == [id |-> r, decisionId |-> b.decisionId, created |-> created[r],
                          expires |-> Expires(r), result |-> b.result]
  <2>1. CASE Finish(r, "disclosure_invalid") /\ UNCHANGED released
    BY <1>1, <1>6, <1>13, <2>1 DEF Decrypt, Telling, Releasing
  <2>2. CASE /\ Decryptable(approval, now)
             /\ Finish(r, ResultStatus("approved", b.result))
             /\ released' = [released EXCEPT ![r] = b.result.jwe.plain.fields]
    <3>1. KeysOf(b.result.jwe.plain.fields) = b.result.approved
      BY <2>2 DEF Decryptable, PlaintextAccepted
    <3>2. mine[r] = 2 /\ ApprovedOnRecord(r) /\ log[r][2].body.result.approved # <<>>
      BY <1>13 DEF Decrypt, ReleaseInv, CallAuthorised, AnswerInv, AnswerStands
    <3>3. b.result.jwe.plain.fields # <<>>
      BY <3>1, <3>2, NoKeysOfNone
    <3>4. released'[r] # <<>>
      BY <2>2, <3>3 DEF TypeOK
    <3>5. pc'[r] = "done" /\ outcome'[r] = ResultStatus("approved", log[r][2].body.result)
      BY <1>1, <2>2, <3>2
    <3>6. outcome'[r] \in Releasing
      BY <3>2, <3>5, StatusWords
    <3> QED
      BY <3>2, <3>4, <3>5, <3>6 DEF Tells, Releases, OnRecord, ApprovedOnRecord, Decided
  <2> QED
    BY <1>13, <2>1, <2>2 DEF Decrypt
<1>14. CASE CallFails(r)
  BY <1>1, <1>6, <1>14 DEF CallFails, Telling, Releasing
<1>15. CASE Cancel(r)
  <2>1. pc[r] # "done" /\ UNCHANGED released
    BY <1>15 DEF Cancel, ClosingAsCancelled
  <2>2. CASE BeginClose(r, mine[r], "cancelled")
    BY <1>3, <1>6, <2>1, <2>2 DEF Telling, Releasing
  <2>3. ASSUME NEW x \in {"abandoned", "cancelled"}, Finish(r, x) PROVE Tells(r)
    BY <1>1, <1>6, <2>1, <2>3 DEF Telling, Releasing
  <2>. QED
    BY <1>15, <2>2, <2>3 DEF Cancel
<1> QED
  BY <1>7, <1>8, <1>9, <1>10, <1>11, <1>12, <1>13, <1>14, <1>15 DEF CallStep

LEMMA StepTells ==
  ASSUME TypeOK, FirstWriterInv, ReleaseInv, AnswerInv, [Next]_vars, NEW s \in Requests
  PROVE  Tells(s)
<1>1. ASSUME NEW r \in Requests, CallStep(r) \/ CallFails(r) \/ Cancel(r) PROVE Tells(s)
  BY <1>1, CallTellsItself, OtherAnswersKept DEF Tells
<1>2. ASSUME UNCHANGED callVars PROVE Tells(s)
  BY <1>2 DEF callVars, Tells, Quiet
<1>3. ASSUME NEW p \in Posts, PostStep(p) \/ PostFails(p) \/ \E b \in Bodies : Receive(p, b)
      PROVE  UNCHANGED callVars
  BY <1>3 DEF PostStep, LoadApproval, LoadDevice, Commit, CloseExpired, PostFails, Receive
<1>4. ASSUME \/ Tick \/ UNCHANGED vars
             \/ \E d \in Devices : Unlink(d) \/ \E key \in SigningKeys : Link(d, key)
      PROVE  UNCHANGED callVars
  BY <1>4 DEF Tick, Unlink, Link, vars
<1>5. ASSUME NEW q \in Pods, Crash(q) PROVE Tells(s)
  <2>1. /\ UNCHANGED <<outcome, released>>
        /\ pc'[s] = pc[s] \/ (pc[s] # "done" /\ pc'[s] = "crashed")
    BY <1>5 DEF Crash, TypeOK
  <2>. QED
    BY <2>1 DEF Tells, Quiet
<1>. QED
  BY <1>1, <1>2, <1>3, <1>4, <1>5 DEF Next

LEMMA AnswerStep ==
  ASSUME TypeOK, FirstWriterInv, ReleaseInv, AnswerInv, Grown, [Next]_vars, NEW s \in Requests
  PROVE  AnswerStands(s)'
<1>0. AnswerStands(s) /\ (pc[s] = "decrypting" => Len(log[s]) = 2)
  BY DEF AnswerInv, ReleaseInv, CallAuthorised, ApprovedOnRecord
<1>1. Len(log[s]) = 2 => Len(log'[s]) = 2 /\ log'[s][2] = log[s][2]
  BY RecordStays
<1>2. CASE Quiet(s)
  <2>1. outcome'[s] \in Telling =>
          /\ pc'[s] = "done" /\ Len(log'[s]) = 2 /\ log'[s][2].status \in Decided
          /\ outcome'[s] = ResultStatus(log'[s][2].status, log'[s][2].body.result)
    BY <1>0, <1>1, <1>2 DEF Quiet, AnswerStands, OnRecord
  <2>2. outcome'[s] \in Releasing <=> released'[s] # <<>>
    BY <1>0, <1>2 DEF Quiet, AnswerStands, Telling
  <2>3. pc'[s] = "decrypting" => log'[s][2].body.result.approved # <<>>
    BY <1>0, <1>1, <1>2 DEF Quiet, AnswerStands
  <2>. QED
    BY <2>1, <2>2, <2>3 DEF AnswerStands, OnRecord
<1>3. CASE Concluding(s)
  <2>0. outcome[s] \notin Telling /\ released[s] = <<>>
    BY <1>0, <1>3 DEF Concluding, AnswerStands, Telling
  <2>1. CASE /\ pc'[s] = "done"
             /\ OnRecord(s, outcome'[s]) /\ outcome'[s] \notin Releasing
    BY <1>1, <1>3, <2>0, <2>1 DEF Concluding, AnswerStands, OnRecord
  <2>2. CASE /\ outcome'[s] = outcome[s] /\ Len(log[s]) = 2
             /\ log[s][2].body.result.approved # <<>>
    BY <1>1, <1>3, <2>0, <2>2 DEF Concluding, AnswerStands, OnRecord, Telling
  <2>. QED
    BY <1>3, <2>1, <2>2 DEF Concluding
<1>4. CASE Releases(s)
  BY <1>1, <1>4 DEF Releases, AnswerStands, OnRecord
<1>. QED
  BY <1>2, <1>3, <1>4, StepTells DEF Tells

(* The inductive invariant: what a call tells is on record, and it tells   *)
(* an approval just when it releases values.                               *)
THEOREM AnswersInvariant == Spec => []AnswerInv
<1>1. Init => AnswerInv
  BY DEF Init, AnswerInv, AnswerStands, Telling, Releasing
<1>2. TypeOK /\ FirstWriterInv /\ ReleaseInv /\ AnswerInv /\ [Next]_vars => AnswerInv'
  BY StepGrows, AnswerStep DEF AnswerInv
<1>. QED
  BY <1>1, <1>2, TypeCorrect, FirstWriterCorrect, ReleaseInvCorrect, PTL DEF Spec

(* A caller that is told a decision is told the one on record, with values *)
(* exactly if some were approved (request_properties, approval.py:83).     *)
THEOREM AnswersAreOnRecord == Spec => []AnswerIsOnRecord
<1>1. TypeOK /\ AnswerInv => AnswerIsOnRecord
  <2>. SUFFICES ASSUME TypeOK, AnswerInv, NEW r \in Requests,
                       outcome[r] \in {"approved", "partially_approved", "denied", "unavailable"}
                PROVE  /\ log[r] # <<>> /\ Verdict(r).status \in Decided
                       /\ outcome[r] = ResultStatus(Verdict(r).status, Verdict(r).body.result)
                       /\ outcome[r] \in {"approved", "partially_approved"} <=> released[r] # <<>>
    BY DEF AnswerIsOnRecord
  <2>1. AnswerStands(r) /\ OnRecord(r, outcome[r])
    BY DEF AnswerInv, AnswerStands, Telling, Releasing
  <2>2. log[r] # <<>>
    BY <2>1, LogLength DEF OnRecord
  <2>. QED
    BY <2>1, <2>2 DEF AnswerStands, OnRecord, Verdict, Releasing
<1>. QED
  BY <1>1, AnswersInvariant, TypeCorrect, PTL

----------------------------------------------------------------------------
(* An approval does not outlive its call.  Without a fault of the store    *)
(* the last write of a call is refused only if another has settled the     *)
(* approval, or if it has lived its time; and it is left out only if the   *)
(* call has read that this is so - a call that has read its approval once  *)
(* does not read it as absent before its time.                             *)
Gone == {"approval_timed_out", "notifications_unavailable", "cancelled"}
Unfaulted == budget["fault"] = Budget["fault"]

Over(r) == Len(log[r]) = 2 \/ (Len(log[r]) = 1 /\ ~Live(r, 1))

SessionHolds(r) == mine[r] # 0 /\ pc[r] \notin {"done", "crashed"} => seen[PodOf[r]][r] >= 1
LeavesOver(r) == Unfaulted /\ pc[r] = "done" /\ mine[r] # 0 /\ outcome[r] \in Gone => Over(r)

(* A close is abandoned only by the second of two cancellations.           *)
Cancellations(r) ==
  /\ outcome[r] = "cancelled" => budget["cancel"] + 1 <= Budget["cancel"]
  /\ outcome[r] = "abandoned" => budget["cancel"] + 2 <= Budget["cancel"]

GoneInv ==
  /\ budget["fault"] <= Budget["fault"] /\ budget["cancel"] <= Budget["cancel"]
  /\ \A r \in Requests : SessionHolds(r) /\ LeavesOver(r) /\ Cancellations(r)

LEMMA AnyBudgetShrinks ==
  ASSUME TypeOK, [Next]_vars, NEW what \in DOMAIN Budget
  PROVE  /\ budget[what] \in Nat /\ budget'[what] \in Nat
         /\ budget'[what] <= budget[what]
<1>1. TypeOK'
  BY TypeStep
<1>2. budget[what] \in Nat /\ budget'[what] \in Nat
  BY <1>1 DEF TypeOK
<1>3. ASSUME NEW kind, Spend(kind) PROVE budget'[what] <= budget[what]
  <2>1. CASE kind = what
    <3>1. budget'[what] = budget[what] - 1
      BY <1>3, <2>1 DEF Spend, TypeOK
    <3>. QED
      BY <1>2, <3>1
  <2>2. CASE kind # what
    <3>1. budget'[what] = budget[what]
      BY <1>3, <2>2 DEF Spend, TypeOK
    <3>. QED
      BY <1>2, <3>1
  <2>. QED
    BY <2>1, <2>2
<1>4. (\E kind : Spend(kind)) \/ UNCHANGED budget
  <2>1. ASSUME NEW r \in Requests, CallStep(r) \/ CallFails(r) \/ Cancel(r)
        PROVE  (\E kind : Spend(kind)) \/ UNCHANGED budget
    BY <2>1 DEF CallStep, ListDevices, CreateApproval, ReadBack, Notify, DisableRead,
                DisableWrite, Poll, FinalRead, Close, Decrypt, CallFails, Cancel
  <2>2. ASSUME NEW p \in Posts, PostStep(p) \/ PostFails(p) \/ \E b \in Bodies : Receive(p, b)
        PROVE  (\E kind : Spend(kind)) \/ UNCHANGED budget
    BY <2>2 DEF PostStep, LoadApproval, LoadDevice, Commit, CloseExpired, PostFails, Receive
  <2>3. CASE \/ Tick \/ UNCHANGED vars \/ \E q \in Pods : Crash(q)
             \/ \E d \in Devices : Unlink(d) \/ \E key \in SigningKeys : Link(d, key)
    BY <2>3 DEF Tick, Unlink, Link, Crash, vars
  <2>. QED
    BY <2>1, <2>2, <2>3 DEF Next
<1>. QED
  BY <1>2, <1>3, <1>4

LEMMA BudgetShrinks ==
  ASSUME TypeOK, [Next]_vars
  PROVE  /\ budget["fault"] \in Nat /\ budget'["fault"] \in Nat
         /\ budget'["fault"] <= budget["fault"]
BY AnyBudgetShrinks, Kinds

LEMMA ClockGrows ==
  ASSUME TypeOK, [Next]_vars PROVE now \in Nat /\ now' \in Nat /\ now <= now'
<1>1. now' = now \/ now' = now + 1
  BY DEF Next, CallStep, ListDevices, CreateApproval, ReadBack, Notify, DisableRead,
         DisableWrite, Poll, FinalRead, Close, Decrypt, CallFails, Cancel, PostStep,
         LoadApproval, LoadDevice, Commit, CloseExpired, PostFails, Receive, Tick, Unlink,
         Link, Crash, vars
<1>. QED
  BY <1>1 DEF TypeOK

LEMMA OneOrTwo ==
  ASSUME NEW m \in Nat, NEW n \in Nat, m # 0, m <= n, n <= 2 PROVE n = 1 \/ n = 2
OBVIOUS

LEMMA OverStays ==
  ASSUME TypeOK, FirstWriterInv, Grown, [Next]_vars, NEW r \in Requests, Over(r)
  PROVE  Over(r)'
<1>1. CASE Len(log[r]) = 2
  BY <1>1, RecordStays DEF Over
<1>2. CASE Len(log[r]) = 1 /\ ~Live(r, 1)
  <2>1. Len(log'[r]) = 1 \/ Len(log'[r]) = 2
    <3>1. /\ Len(log[r]) \in Nat /\ Len(log[r]) # 0 /\ Len(log[r]) <= Len(log'[r])
          /\ Len(log'[r]) \in Nat /\ Len(log'[r]) <= 2
      BY <1>2 DEF Grown, SettledOnce
    <3>. QED
      BY <3>1, OneOrTwo
  <2>2. 1 \in 1..Len(log[r])
    BY <1>2
  <2>3. log'[r][1] = log[r][1] /\ log[r][1] \in Documents
    BY <2>2, LogLength DEF Grown
  <2>4. After(log[r][1].ts, TTL) \in Nat
    <3>1. log[r][1].ts \in Nat /\ TTL \in Nat
      BY <2>3, FlowAssumption DEF Documents
    <3>. QED
      BY <3>1, AfterNat
  <2>5. now' >= After(log'[r][1].ts, TTL)
    BY <1>2, <2>3, <2>4, ClockGrows DEF Live
  <2>6. ~(now' < After(log'[r][1].ts, TTL))
    BY <2>3, <2>4, <2>5, ClockGrows
  <2>. QED
    BY <2>1, <2>6 DEF Over, Live, After
<1>. QED
  BY <1>1, <1>2 DEF Over

(* What a session has seen it forgets only when its pod dies.              *)
LEMMA SeenGrows ==
  ASSUME TypeOK, FirstWriterInv, [Next]_vars, NEW o \in Pods, NEW s \in Requests,
         ~\E q \in Pods : Crash(q)
  PROVE  seen[o][s] \in Nat /\ seen'[o][s] \in Nat /\ seen[o][s] <= seen'[o][s]
<1>0. \A q \in Pods, r \in Requests :
        seen[q][r] \in Nat /\ seen[q][r] <= Len(log[r]) /\ Len(log[r]) \in Nat
  BY LogLength DEF FirstWriterInv, SeenInLog, TypeOK
<1> DEFINE Grows == seen'[o][s] \in Nat /\ seen[o][s] <= seen'[o][s]
<1>1. UNCHANGED seen => Grows
  BY <1>0
<1>2. ASSUME NEW q \in Pods, NEW r \in Requests, NEW v \in ReadResults(q, r), Saw(q, r, v)
      PROVE  Grows
  <2>1. v # 0 => v \in Nat /\ seen[q][r] <= v
    BY <1>0 DEF ReadResults
  <2>2. seen'[o][s] = seen[o][s] \/ (o = q /\ s = r /\ v # 0 /\ seen'[o][s] = v)
    BY <1>2 DEF Saw, TypeOK
  <2>. QED
    BY <1>0, <2>1, <2>2
<1>3. ASSUME NEW q \in Pods, NEW r \in Requests, NEW doc, Write(q, r, doc) PROVE Grows
  <2>1. seen'[o][s] = seen[o][s] \/ (s = r /\ seen'[o][s] = Len(log[s]) + 1)
    BY <1>3 DEF Write, TypeOK
  <2>. QED
    BY <1>0, <2>1
<1>4. ASSUME NEW r \in Requests, CallStep(r) \/ CallFails(r) \/ Cancel(r) PROVE Grows
  <2>0. PodOf[r] \in Pods
    BY FlowAssumption
  <2>1. CASE \/ ListDevices(r) \/ Notify(r) \/ DisableRead(r) \/ DisableWrite(r)
             \/ Decrypt(r) \/ CallFails(r) \/ Cancel(r)
    <3>1. UNCHANGED seen
      BY <2>1 DEF ListDevices, Notify, DisableRead, DisableWrite, Decrypt, CallFails, Cancel,
                  storeVars
    <3>. QED
      BY <1>1, <3>1
  <2>2. CASE ReadBack(r) \/ Poll(r) \/ FinalRead(r)
    <3>1. \E v \in ReadResults(PodOf[r], r) : Saw(PodOf[r], r, v)
      BY <2>2 DEF ReadBack, Poll, FinalRead
    <3>. QED
      BY <1>2, <2>0, <3>1
  <2>3. CASE CreateApproval(r) \/ Close(r)
    <3>1. (\E doc : Write(PodOf[r], r, doc)) \/ UNCHANGED seen
      BY <2>3 DEF CreateApproval, Close, storeVars
    <3>. QED
      BY <1>1, <1>3, <2>0, <3>1
  <2>. QED
    BY <1>4, <2>1, <2>2, <2>3 DEF CallStep
<1>5. ASSUME NEW p \in Posts, PostStep(p) \/ PostFails(p) \/ \E b \in Bodies : Receive(p, b)
      PROVE  Grows
  <2>1. CASE LoadDevice(p) \/ PostFails(p) \/ \E b \in Bodies : Receive(p, b)
    <3>1. UNCHANGED seen
      BY <2>1 DEF LoadDevice, PostFails, Receive, storeVars
    <3>. QED
      BY <1>1, <3>1
  <2>2. CASE LoadApproval(p) \/ Commit(p) \/ CloseExpired(p)
    <3>0. PodOf[p] \in Pods /\ body[p].to \in Requests
      <4>1. ppc[p] # "idle"
        BY <2>2 DEF LoadApproval, Commit, CloseExpired
      <4>2. body[p] \in Bodies
        BY <4>1 DEF TypeOK
      <4>. QED
        BY <4>2, FlowAssumption
    <3>1. \/ UNCHANGED seen
          \/ \E v \in ReadResults(PodOf[p], body[p].to) : Saw(PodOf[p], body[p].to, v)
          \/ \E doc : Write(PodOf[p], body[p].to, doc)
      BY <2>2 DEF LoadApproval, Commit, CloseExpired, storeVars
    <3>. QED
      BY <1>1, <1>2, <1>3, <3>0, <3>1
  <2>. QED
    BY <1>5, <2>1, <2>2 DEF PostStep
<1>6. CASE \/ Tick \/ UNCHANGED vars
           \/ \E d \in Devices : Unlink(d) \/ \E key \in SigningKeys : Link(d, key)
  <2>1. UNCHANGED seen
    BY <1>6 DEF Tick, Unlink, Link, storeVars, vars
  <2>. QED
    BY <1>1, <2>1
<1>. QED
  BY <1>0, <1>4, <1>5, <1>6 DEF Next

(* A call holds a version that its session has read, or none.              *)
LEMMA CallReads ==
  ASSUME TypeOK, FirstWriterInv, NEW r \in Requests, CallStep(r) \/ CallFails(r) \/ Cancel(r)
  PROVE  /\ mine'[r] = mine[r] \/ mine'[r] = 0 \/ seen'[PodOf[r]][r] >= 1
         /\ pc[r] \notin {"done", "crashed"}
<1>0. PodOf[r] \in Pods
  BY FlowAssumption
<1>1. ASSUME NEW v \in ReadResults(PodOf[r], r), Saw(PodOf[r], r, v), v # 0
      PROVE  seen'[PodOf[r]][r] >= 1
  <2>1. v \in Nat /\ seen'[PodOf[r]][r] = v
    BY <1>0, <1>1, ReadResultsNat DEF Saw, TypeOK
  <2>. QED
    BY <1>1, <2>1
<1>2. ASSUME NEW v \in ReadResults(PodOf[r], r), Saw(PodOf[r], r, v), mine'[r] = v
      PROVE  mine'[r] = 0 \/ seen'[PodOf[r]][r] >= 1
  BY <1>1, <1>2
<1>3. CASE ReadBack(r) \/ Poll(r) \/ FinalRead(r)
  <2> PICK v \in ReadResults(PodOf[r], r) :
        /\ Saw(PodOf[r], r, v)
        /\ UNCHANGED mine \/ mine' = [mine EXCEPT ![r] = v]
    BY <1>3 DEF ReadBack, Poll, FinalRead, Conclude
  <2>1. mine'[r] = mine[r] \/ mine'[r] = v
    BY DEF TypeOK
  <2>2. pc[r] \in {"reading_back", "waiting"}
    BY <1>3 DEF ReadBack, Poll, FinalRead
  <2>. QED
    BY <1>2, <2>1, <2>2
<1>4. CASE Cancel(r)
  BY <1>4 DEF Cancel, ClosingAsCancelled
<1>5. CASE ~(ReadBack(r) \/ Poll(r) \/ FinalRead(r) \/ Cancel(r))
  BY <1>5 DEF CallStep, ListDevices, CreateApproval, Notify, DisableRead, DisableWrite,
              Close, Decrypt, CallFails
<1>. QED
  BY <1>3, <1>4, <1>5

LEMMA SessionStep ==
  ASSUME TypeOK, FirstWriterInv, GoneInv, [Next]_vars, NEW s \in Requests
  PROVE  SessionHolds(s)'
<1>0. SessionHolds(s) /\ PodOf[s] \in Pods
  BY FlowAssumption DEF GoneInv
<1>1. ASSUME NEW q \in Pods, Crash(q) PROVE SessionHolds(s)'
  <2>1. mine'[s] = mine[s]
    BY <1>1 DEF Crash
  <2>2. CASE PodOf[s] = q
    <3>1. pc'[s] \in {"idle", "done", "crashed"} /\ (pc'[s] = "idle" => pc[s] = "idle")
      BY <1>1, <2>2 DEF Crash, TypeOK
    <3>2. pc[s] = "idle" => mine[s] = 0
      BY LogLength DEF FirstWriterInv, CallHoldsFirst, TypeOK
    <3>. QED
      BY <2>1, <3>1, <3>2 DEF SessionHolds
  <2>3. CASE PodOf[s] # q
    <3>1. pc'[s] = pc[s] /\ seen'[PodOf[s]][s] = seen[PodOf[s]][s]
      BY <1>0, <1>1, <2>3 DEF Crash, TypeOK
    <3>. QED
      BY <1>0, <2>1, <3>1 DEF SessionHolds
  <2>. QED
    BY <2>2, <2>3
<1>2. CASE ~\E q \in Pods : Crash(q)
  <2>1. seen[PodOf[s]][s] \in Nat /\ seen'[PodOf[s]][s] \in Nat
        /\ seen[PodOf[s]][s] <= seen'[PodOf[s]][s]
    BY <1>0, <1>2, SeenGrows
  <2>2. \/ pc'[s] = pc[s] /\ mine'[s] = mine[s]
        \/ /\ mine'[s] = mine[s] \/ mine'[s] = 0 \/ seen'[PodOf[s]][s] >= 1
           /\ pc[s] \notin {"done", "crashed"}
    <3>1. ASSUME NEW r \in Requests, CallStep(r) \/ CallFails(r) \/ Cancel(r), r # s
          PROVE  pc'[s] = pc[s] /\ mine'[s] = mine[s]
      BY <3>1, OtherCallsKept
    <3>2. ASSUME NEW p \in Posts, PostStep(p) \/ PostFails(p) \/ \E b \in Bodies : Receive(p, b)
          PROVE  UNCHANGED callVars
      BY <3>2 DEF PostStep, LoadApproval, LoadDevice, Commit, CloseExpired, PostFails, Receive
    <3>3. ASSUME \/ Tick \/ UNCHANGED vars
                 \/ \E d \in Devices : Unlink(d) \/ \E key \in SigningKeys : Link(d, key)
          PROVE  UNCHANGED callVars
      BY <3>3 DEF Tick, Unlink, Link, vars
    <3>4. UNCHANGED callVars => pc'[s] = pc[s] /\ mine'[s] = mine[s]
      BY DEF callVars
    <3>. QED
      BY <1>2, <3>1, <3>2, <3>3, <3>4, CallReads DEF Next
  <2>. QED
    BY <1>0, <2>1, <2>2 DEF SessionHolds
<1>. QED
  BY <1>1, <1>2

(* A call that ends gone, with no fault so far, leaves its approval over.  *)
LEMMA CallLeavesOver ==
  ASSUME TypeOK, FirstWriterInv, ReleaseInv, GoneInv, Grown, [Next]_vars, NEW r \in Requests,
         CallStep(r) \/ CallFails(r) \/ Cancel(r),
         Unfaulted', pc'[r] = "done", mine'[r] # 0, outcome'[r] \in Gone
  PROVE  Over(r)'
<1>0. PodOf[r] \in Pods /\ mine[r] \in Nat
  BY FlowAssumption DEF TypeOK
<1>1. SUFFICES Over(r) \/ Len(log'[r]) = 2
  BY OverStays DEF Over
<1>2. ~Spend("fault")
  <2>1. Spend("fault") => budget'["fault"] = budget["fault"] - 1
    BY Kinds DEF Spend, TypeOK
  <2>. QED
    BY <2>1, BudgetShrinks, Kinds, FlowAssumption DEF GoneInv, Unfaulted
<1>3. Len(log[r]) \in Nat /\ Len(log[r]) <= 2 /\ mine[r] <= Len(log[r])
  BY LogLength DEF FirstWriterInv, SettledOnce, CallHoldsFirst
<1>4. ASSUME NEW v \in Nat, v # 0, v <= Len(log[r]), log[r][v].status # "pending" PROVE Over(r)
  <2>1. v # 1
    BY <1>3, <1>4 DEF FirstWriterInv, SettledOnce
  <2>. QED
    BY <1>3, <1>4, <2>1, OnlyTwo DEF Over
<1>5. ASSUME NEW x, Finish(r, x) PROVE x \in Gone
  BY <1>5 DEF Finish, TypeOK
<1>6. ASSUME NEW v, NEW x, BeginClose(r, v, x) PROVE v = 0 \/ log[r][v].status # "pending"
  BY <1>6 DEF BeginClose, Goto, TypeOK
<1>7. ASSUME NEW x, BeginClose(r, mine[r], x), UNCHANGED mine PROVE Over(r)
  <2>1. mine[r] # 0
    BY <1>7
  <2>2. log[r][mine[r]].status # "pending"
    BY <1>6, <1>7, <2>1
  <2>. QED
    BY <1>0, <1>3, <1>4, <2>1, <2>2
<1>8. ASSUME NEW rest, NEW ok, AfterDisabling(r, rest, ok), UNCHANGED mine PROVE Over(r)
  BY <1>7, <1>8 DEF AfterDisabling, Goto, TypeOK
<1>9. ASSUME NEW v \in ReadResults(PodOf[r], r), v # 0, log[r][v].status # "pending"
      PROVE  Over(r)
  BY <1>0, <1>4, <1>9, ReadResultsNat
<1>10. CASE ListDevices(r) \/ CreateApproval(r) \/ ReadBack(r)
  <2>1. \A label : Goto(r, label) => label = "done"
    BY DEF Goto, TypeOK
  <2>2. ~Finish(r, "phone_not_linked") /\ ~Finish(r, "approval_unavailable")
    BY <1>5 DEF Gone
  <2>. QED
    BY <1>10, <2>1, <2>2 DEF ListDevices, CreateApproval, ReadBack
<1>11. CASE Notify(r)
  BY <1>7, <1>8, <1>11 DEF Notify
<1>12. CASE DisableRead(r)
  <2>1. mine' = mine
    BY <1>12 DEF DisableRead
  <2>2. Goto(r, "disable_write") => pc'[r] # "done"
    BY DEF Goto, TypeOK
  <2>. QED
    BY <1>8, <1>12, <2>1, <2>2 DEF DisableRead
<1>13. CASE DisableWrite(r)
  BY <1>8, <1>13 DEF DisableWrite
<1>14. CASE Poll(r)
  <2> PICK v \in ReadResults(PodOf[r], r) : Poll(r)!2!(v)
    BY <1>14 DEF Poll
  <2>1. pc[r] = "waiting"
    BY <1>14 DEF Poll
  <2>2. CASE Finish(r, "approval_unavailable") \/ UNCHANGED pc
    BY <1>5, <2>1, <2>2 DEF Gone
  <2>3. CASE v # 0 /\ log[r][v].status \in Decided \cup Closed
    BY <1>9, <2>3 DEF Decided, Closed
  <2>. QED
    BY <2>2, <2>3
<1>15. CASE FinalRead(r)
  <2> PICK v \in ReadResults(PodOf[r], r) : FinalRead(r)!2!(v)
    BY <1>15 DEF FinalRead
  <2>1. CASE v # 0 /\ log[r][v].status \in Decided
    BY <1>9, <2>1 DEF Decided
  <2>2. CASE BeginClose(r, v, "approval_timed_out") /\ UNCHANGED mine /\ v # 0
    BY <1>6, <1>9, <2>2
  <2>3. CASE BeginClose(r, v, "approval_timed_out") /\ UNCHANGED mine /\ v = 0
    <3>0. mine[r] # 0 /\ pc[r] = "waiting"
      BY <1>15, <2>3 DEF FinalRead
    <3>1. seen[PodOf[r]][r] \in Nat /\ seen[PodOf[r]][r] >= 1
      <4>1. seen[PodOf[r]][r] \in Nat
        BY <1>0 DEF TypeOK
      <4>2. seen[PodOf[r]][r] >= 1
        BY <3>0 DEF GoneInv, SessionHolds
      <4>. QED
        BY <4>1, <4>2
    <3>2. PICK w \in seen[PodOf[r]][r] .. Len(log[r]) : w = 0 \/ ~Live(r, w)
      BY <2>3 DEF ReadResults
    <3>3. w \in Nat /\ w # 0 /\ w <= Len(log[r]) /\ ~Live(r, w)
      BY <1>3, <3>1, <3>2
    <3>4. Len(log[r]) = 1 => w = 1
      BY <3>3
    <3>5. Len(log[r]) = 1 \/ Len(log[r]) = 2
      BY <1>3, <3>3, OneOrTwo
    <3>. QED
      BY <3>3, <3>4, <3>5 DEF Over
  <2>. QED
    BY <2>1, <2>2, <2>3
<1>16. CASE Close(r)
  <2>1. target[r] = 1
    BY <1>16 DEF Close, FirstWriterInv, CallHoldsFirst
  <2>2. CASE Replaceable(r, 1) /\ \E doc : Write(PodOf[r], r, doc)
    <3>1. Len(log[r]) = 1 /\ log[r] \in Seq(Documents)
      BY <2>2, ReplacedWasFirst, LogLength
    <3>2. \E doc : log'[r] = Append(log[r], doc)
      BY <2>2 DEF Write, TypeOK
    <3>. QED
      BY <3>1, <3>2
  <2>3. CASE ~Replaceable(r, 1)
    <3>1. mine[r] # 0
      BY <1>16 DEF Close
    <3>2. Len(log[r]) = 1 \/ Len(log[r]) = 2
      BY <1>0, <1>3, <3>1, OneOrTwo
    <3>. QED
      BY <2>3, <3>2 DEF Replaceable, Over
  <2>. QED
    BY <1>2, <1>16, <2>1, <2>2, <2>3 DEF Close
<1>17. CASE Decrypt(r)
  BY <1>5, <1>17 DEF Decrypt, Gone, ResultStatus
<1>18. CASE CallFails(r)
  BY <1>2, <1>18 DEF CallFails
<1>19. CASE Cancel(r)
  <2>1. CASE BeginClose(r, mine[r], "cancelled")
    BY <1>7, <1>19, <2>1 DEF Cancel
  <2>2. CASE pc[r] = "decrypting"
    BY <2>2 DEF ReleaseInv, CallAuthorised, ApprovedOnRecord, Over
  <2>3. ~Finish(r, "abandoned")
    BY <1>5 DEF Gone
  <2>. QED
    BY <1>19, <2>1, <2>2, <2>3 DEF Cancel
<1>. QED
  BY <1>10, <1>11, <1>12, <1>13, <1>14, <1>15, <1>16, <1>17, <1>18, <1>19 DEF CallStep

LEMMA LeavesOverStep ==
  ASSUME TypeOK, FirstWriterInv, ReleaseInv, GoneInv, Grown, [Next]_vars, NEW s \in Requests
  PROVE  LeavesOver(s)'
<1>0. LeavesOver(s) /\ (Unfaulted' => Unfaulted)
  BY BudgetShrinks, Kinds, FlowAssumption DEF GoneInv, Unfaulted
<1>1. ASSUME pc'[s] = "done" => pc[s] = "done", mine'[s] = mine[s], outcome'[s] = outcome[s]
      PROVE  LeavesOver(s)'
  BY <1>0, <1>1, OverStays DEF LeavesOver
<1>2. ASSUME CallStep(s) \/ CallFails(s) \/ Cancel(s) PROVE LeavesOver(s)'
  BY <1>2, CallLeavesOver DEF LeavesOver
<1>3. ASSUME NEW r \in Requests, CallStep(r) \/ CallFails(r) \/ Cancel(r), r # s
      PROVE  LeavesOver(s)'
  BY <1>1, <1>3, OtherCallsKept, OtherOutcomesKept
<1>4. UNCHANGED callVars => LeavesOver(s)'
  BY <1>1 DEF callVars
<1>5. ASSUME NEW p \in Posts, PostStep(p) \/ PostFails(p) \/ \E b \in Bodies : Receive(p, b)
      PROVE  UNCHANGED callVars
  BY <1>5 DEF PostStep, LoadApproval, LoadDevice, Commit, CloseExpired, PostFails, Receive
<1>6. ASSUME \/ Tick \/ UNCHANGED vars
             \/ \E d \in Devices : Unlink(d) \/ \E key \in SigningKeys : Link(d, key)
      PROVE  UNCHANGED callVars
  BY <1>6 DEF Tick, Unlink, Link, vars
<1>7. ASSUME NEW q \in Pods, Crash(q) PROVE LeavesOver(s)'
  <2>1. (pc'[s] = "done" => pc[s] = "done") /\ mine'[s] = mine[s] /\ outcome'[s] = outcome[s]
    BY <1>7 DEF Crash, TypeOK
  <2>. QED
    BY <1>1, <2>1
<1>. QED
  BY <1>2, <1>3, <1>4, <1>5, <1>6, <1>7 DEF Next

(* Nothing but a cancellation makes a call cancelled, or abandon a close.  *)
LEMMA OwnOutcome ==
  ASSUME TypeOK, NEW r \in Requests, CallStep(r) \/ CallFails(r)
  PROVE  outcome'[r] = outcome[r] \/ outcome'[r] \notin {"cancelled", "abandoned"}
<1>1. ASSUME NEW x, Finish(r, x) PROVE outcome'[r] = x
  BY <1>1 DEF Finish, TypeOK
<1>2. ASSUME NEW v, NEW x, BeginClose(r, v, x) PROVE outcome'[r] = x
  BY <1>2 DEF BeginClose, TypeOK
<1>3. ASSUME NEW rest, NEW ok, AfterDisabling(r, rest, ok)
      PROVE  outcome'[r] \in {outcome[r], "notifications_unavailable"}
  BY <1>2, <1>3 DEF AfterDisabling
<1>4. \A status, result : ResultStatus(status, result) \notin {"cancelled", "abandoned"}
  BY DEF ResultStatus
<1>5. ASSUME NEW v, Conclude(r, v)
      PROVE  outcome'[r] = outcome[r] \/ outcome'[r] \notin {"cancelled", "abandoned"}
  BY <1>1, <1>4, <1>5 DEF Conclude
<1>6. CASE ListDevices(r) \/ CreateApproval(r) \/ ReadBack(r) \/ Close(r) \/ CallFails(r)
  BY <1>1, <1>6 DEF ListDevices, CreateApproval, ReadBack, Close, CallFails
<1>7. CASE Decrypt(r)
  BY <1>1, <1>4, <1>7 DEF Decrypt
<1>8. CASE Notify(r) \/ DisableRead(r) \/ DisableWrite(r)
  BY <1>2, <1>3, <1>8 DEF Notify, DisableRead, DisableWrite
<1>9. CASE Poll(r) \/ FinalRead(r)
  BY <1>1, <1>2, <1>5, <1>9 DEF Poll, FinalRead
<1>. QED
  BY <1>6, <1>7, <1>8, <1>9 DEF CallStep

LEMMA CancellationsStep ==
  ASSUME TypeOK, GoneInv, [Next]_vars, NEW s \in Requests
  PROVE  Cancellations(s)'
<1>0. /\ Cancellations(s) /\ budget["cancel"] <= Budget["cancel"] /\ Budget["cancel"] \in Nat
      /\ budget["cancel"] \in Nat /\ budget'["cancel"] \in Nat
      /\ budget'["cancel"] <= budget["cancel"]
  BY AnyBudgetShrinks, Kinds, FlowAssumption DEF GoneInv
<1>1. ASSUME outcome'[s] = outcome[s] \/ outcome'[s] \notin {"cancelled", "abandoned"}
      PROVE  Cancellations(s)'
  BY <1>0, <1>1 DEF Cancellations
<1>2. CASE Cancel(s)
  <2>1. budget'["cancel"] = budget["cancel"] - 1
    BY <1>2, Kinds DEF Cancel, Spend, TypeOK
  <2>2. CASE Finish(s, "abandoned") /\ ClosingAsCancelled(s)
    <3>1. outcome'[s] = "abandoned" /\ outcome[s] = "cancelled"
      BY <2>2 DEF Finish, ClosingAsCancelled, TypeOK
    <3>. QED
      BY <1>0, <2>1, <3>1 DEF Cancellations
  <2>3. CASE Finish(s, "cancelled") \/ BeginClose(s, mine[s], "cancelled")
    <3>1. outcome'[s] = "cancelled"
      BY <2>3 DEF Finish, BeginClose, TypeOK
    <3>. QED
      BY <1>0, <2>1, <3>1 DEF Cancellations
  <2>. QED
    BY <1>2, <2>2, <2>3 DEF Cancel
<1>3. ASSUME NEW r \in Requests, CallStep(r) \/ CallFails(r) \/ Cancel(r), r # s
      PROVE  Cancellations(s)'
  BY <1>1, <1>3, OtherOutcomesKept
<1>4. CASE CallStep(s) \/ CallFails(s)
  BY <1>1, <1>4, OwnOutcome
<1>5. UNCHANGED outcome => Cancellations(s)'
  BY <1>1
<1>6. ASSUME NEW p \in Posts, PostStep(p) \/ PostFails(p) \/ \E b \in Bodies : Receive(p, b)
      PROVE  UNCHANGED outcome
  BY <1>6 DEF PostStep, LoadApproval, LoadDevice, Commit, CloseExpired, PostFails, Receive, callVars
<1>7. ASSUME \/ Tick \/ UNCHANGED vars \/ \E q \in Pods : Crash(q)
             \/ \E d \in Devices : Unlink(d) \/ \E key \in SigningKeys : Link(d, key)
      PROVE  UNCHANGED outcome
  BY <1>7 DEF Tick, Unlink, Link, Crash, vars, callVars
<1>. QED
  BY <1>2, <1>3, <1>4, <1>5, <1>6, <1>7 DEF Next

(* The inductive invariant: while a call runs its session has seen the     *)
(* approval that it holds, what it has left behind is over, and a close is *)
(* abandoned only by a second cancellation.                                *)
THEOREM GoneInvariant == Spec => []GoneInv
<1>1. Init => GoneInv
  <2>. SUFFICES ASSUME Init PROVE GoneInv
    OBVIOUS
  <2>1. /\ budget["fault"] <= Budget["fault"] /\ budget["cancel"] <= Budget["cancel"]
    BY FlowAssumption DEF Init
  <2>2. \A r \in Requests : mine[r] = 0 /\ outcome[r] = "none"
    BY DEF Init
  <2>. QED
    BY <2>1, <2>2 DEF GoneInv, SessionHolds, LeavesOver, Cancellations
<1>2. TypeOK /\ FirstWriterInv /\ ReleaseInv /\ GoneInv /\ [Next]_vars => GoneInv'
  <2>. SUFFICES ASSUME TypeOK, FirstWriterInv, ReleaseInv, GoneInv, [Next]_vars PROVE GoneInv'
    OBVIOUS
  <2>1. budget'["fault"] <= Budget["fault"] /\ budget'["cancel"] <= Budget["cancel"]
    BY AnyBudgetShrinks, Kinds, FlowAssumption DEF GoneInv
  <2>2. ASSUME NEW s \in Requests PROVE SessionHolds(s)' /\ LeavesOver(s)' /\ Cancellations(s)'
    BY <2>2, StepGrows, SessionStep, LeavesOverStep, CancellationsStep
  <2>. QED
    BY <2>1, <2>2 DEF GoneInv
<1>. QED
  BY <1>1, <1>2, TypeCorrect, FirstWriterCorrect, ReleaseInvCorrect, PTL DEF Spec

(* Without a fault of the store, a caller that has gone leaves no approval *)
(* that a phone could still decide, unless a second cancellation abandoned *)
(* the close that the first had begun (approval.py:153-156, 345-349).      *)
THEOREM GoneCallersLeaveNothing == Spec => []CallerGoneMeansSettled
<1>1. FirstWriterInv /\ GoneInv => CallerGoneMeansSettled
  <2>0. GoneInv => \A r \in Requests :
                     outcome[r] = "abandoned" => budget["cancel"] + 2 <= Budget["cancel"]
    BY DEF GoneInv, Cancellations
  <2>. SUFFICES ASSUME FirstWriterInv, GoneInv, NEW r \in Requests,
                       Unfaulted, pc[r] = "done", mine[r] # 0, outcome[r] \in Gone
                PROVE  Verdict(r).status # "pending" \/ ~Live(r, Len(log[r]))
    BY <2>0 DEF CallerGoneMeansSettled, Unfaulted, Gone
  <2>1. Over(r)
    BY DEF GoneInv, LeavesOver
  <2>2. CASE Len(log[r]) = 2
    BY <2>2 DEF FirstWriterInv, SettledOnce, Verdict
  <2>3. CASE Len(log[r]) = 1 /\ ~Live(r, 1)
    BY <2>3
  <2>. QED
    BY <2>1, <2>2, <2>3 DEF Over
<1>. QED
  BY <1>1, GoneInvariant, FirstWriterCorrect, PTL

----------------------------------------------------------------------------
(* ConsentFlow implements Consent.  The versions of the document decide    *)
(* the verdict; what a phone and a caller were told follows from the       *)
(* invariants above.                                                       *)
VerdictIs ==
  \A r \in Requests :
    /\ Len(log[r]) = 0 => VerdictOf(r) = "none"
    /\ Len(log[r]) = 1 => VerdictOf(r) = "pending"
    /\ Len(log[r]) = 2 /\ log[r][2].status \in Decided => VerdictOf(r) = log[r][2].status
    /\ Len(log[r]) = 2 /\ log[r][2].status \notin Decided => VerdictOf(r) = "closed"
ToldIsVerdict ==
  \A r \in Requests : ToldOf(r) \in {"approved", "denied"} => VerdictOf(r) = ToldOf(r)

LEMMA VerdictRead == TypeOK /\ SettledOnce => VerdictIs
<1> SUFFICES ASSUME TypeOK, SettledOnce, NEW r \in Requests PROVE VerdictIs!(r)
  BY DEF VerdictIs
<1>0. Len(log[r]) \in Nat /\ (log[r] = <<>> <=> Len(log[r]) = 0)
  BY LogLength
<1>1. Len(log[r]) = 1 => log[r][1].status = "pending"
  BY DEF SettledOnce
<1>2. Len(log[r]) = 2 => log[r][2].status \in Decided \cup Closed
  <2>. SUFFICES ASSUME Len(log[r]) = 2 PROVE log[r][2].status \in Decided \cup Closed
    OBVIOUS
  <2>1. log[r][2] \in Documents /\ log[r][2].status # "pending"
    BY LogLength DEF SettledOnce
  <2>. QED
    BY <2>1 DEF Documents, Status
<1>3. CASE Len(log[r]) = 0
  BY <1>0, <1>3 DEF VerdictOf
<1>4. CASE Len(log[r]) = 1
  BY <1>0, <1>1, <1>4 DEF VerdictOf, Verdict, Closed
<1>5. CASE Len(log[r]) = 2
  BY <1>0, <1>2, <1>5 DEF VerdictOf, Verdict, Decided, Closed
<1>. QED
  BY <1>3, <1>4, <1>5

LEMMA ToldType ==
  ASSUME NEW r \in Requests
  PROVE  /\ ToldOf(r) \in {"nothing", "approved", "denied", "failure"}
         /\ ToldOf(r) = "nothing" <=> pc[r] # "done"
BY DEF ToldOf

LEMMA ToldRead == VerdictIs /\ AnswerInv => ToldIsVerdict
<1> SUFFICES ASSUME VerdictIs, AnswerInv, NEW r \in Requests, ToldOf(r) \in {"approved", "denied"}
             PROVE  VerdictOf(r) = ToldOf(r)
  BY DEF ToldIsVerdict
<1>1. outcome[r] \in Telling /\ (outcome[r] = "denied" <=> ToldOf(r) = "denied")
  BY DEF ToldOf, Telling, Releasing
<1>2. OnRecord(r, outcome[r])
  BY <1>1 DEF AnswerInv, AnswerStands
<1>3. (ToldOf(r) = "denied") <=> (log[r][2].status = "denied")
  BY <1>1, <1>2 DEF OnRecord, ResultStatus
<1>4. VerdictOf(r) = log[r][2].status /\ log[r][2].status \in {"approved", "denied"}
  BY <1>2 DEF VerdictIs, OnRecord, Decided
<1>. QED
  BY <1>3, <1>4

(* What a step may do to what the abstract specification sees of s.        *)
Kept(s) ==
  VerdictOf(s)' = VerdictOf(s) /\ (AckedOf(s)' <=> AckedOf(s)) /\ ToldOf(s)' = ToldOf(s)
Opens(s) ==
  /\ VerdictOf(s) = "none" /\ VerdictOf(s)' = "pending"
  /\ (AckedOf(s)' <=> AckedOf(s)) /\ ToldOf(s)' = ToldOf(s)
Decides(s) ==
  /\ VerdictOf(s) = "pending" /\ VerdictOf(s)' \in {"approved", "denied"}
  /\ ToldOf(s)' = ToldOf(s)
Closes(s) ==
  /\ VerdictOf(s) = "pending" /\ VerdictOf(s)' = "closed"
  /\ (AckedOf(s)' <=> AckedOf(s)) /\ ToldOf(s)' \in {ToldOf(s), "failure"}
Acknowledges(s) ==
  /\ VerdictOf(s) \in {"approved", "denied"} /\ VerdictOf(s)' = VerdictOf(s)
  /\ AckedOf(s)' /\ ToldOf(s)' = ToldOf(s)
Hears(s) ==
  /\ VerdictOf(s)' = VerdictOf(s) /\ (AckedOf(s)' <=> AckedOf(s))
  /\ ToldOf(s) = "nothing" /\ ToldOf(s)' \in {"approved", "denied", "failure"}
  /\ ToldOf(s)' # "failure" => VerdictOf(s) = ToldOf(s)'

LEMMA PromiseStep ==
  ASSUME NEW r \in Requests, \A s \in Requests : s # r => Kept(s),
         Kept(r) \/ Opens(r) \/ Decides(r) \/ Closes(r) \/ Acknowledges(r) \/ Hears(r)
  PROVE  [Abstract!Next]_(Abstract!vars)
<1> DEFINE v == [s \in Requests |-> VerdictOf(s)]
           a == [s \in Requests |-> AckedOf(s)]
           t == [s \in Requests |-> ToldOf(s)]
<1>1. VerdictOf(r)' = VerdictOf(r) => v' = v
  BY DEF Kept
<1>0. \A s \in Requests : AckedOf(s) \in BOOLEAN /\ AckedOf(s)' \in BOOLEAN
  BY DEF AckedOf
<1>2. (AckedOf(r)' <=> AckedOf(r)) => a' = a
  BY <1>0 DEF Kept
<1>3. ToldOf(r)' = ToldOf(r) => t' = t
  BY DEF Kept
<1>4. v' = [v EXCEPT ![r] = VerdictOf(r)'] /\ v[r] = VerdictOf(r)
  BY DEF Kept
<1>5. a' = [a EXCEPT ![r] = AckedOf(r)']
  BY <1>0 DEF Kept
<1>6. t' = [t EXCEPT ![r] = ToldOf(r)'] /\ t[r] = ToldOf(r)
  BY DEF Kept
<1>7. CASE Kept(r)
  BY <1>1, <1>2, <1>3, <1>7 DEF Kept, Abstract!vars
<1>8. CASE Opens(r)
  BY <1>2, <1>3, <1>4, <1>8 DEF Opens, Abstract!Next, Abstract!Open
<1>9. CASE Decides(r)
  <2>1. Abstract!Decide(r, VerdictOf(r)')
    BY <1>0, <1>3, <1>4, <1>5, <1>9 DEF Decides, Abstract!Decide
  <2>. QED
    BY <1>9, <2>1 DEF Decides, Abstract!Next
<1>10. CASE Closes(r)
  BY <1>2, <1>3, <1>4, <1>6, <1>10 DEF Closes, Abstract!Next, Abstract!Close
<1>11. CASE Acknowledges(r)
  <2>1. a' = [a EXCEPT ![r] = TRUE]
    BY <1>0, <1>5, <1>11 DEF Acknowledges
  <2>. QED
    BY <1>1, <1>3, <1>4, <1>11, <2>1 DEF Acknowledges, Abstract!Next, Abstract!Acknowledge
<1>12. CASE Hears(r)
  <2>1. Abstract!Tell(r, ToldOf(r)')
    BY <1>1, <1>2, <1>4, <1>6, <1>12 DEF Hears, Abstract!Tell
  <2>. QED
    BY <1>12, <2>1 DEF Hears, Abstract!Next
<1>. QED
  BY <1>7, <1>8, <1>9, <1>10, <1>11, <1>12

LEMMA VerdictKept ==
  ASSUME NEW r \in Requests, log'[r] = log[r] PROVE VerdictOf(r)' = VerdictOf(r)
BY DEF VerdictOf, Verdict

(* A step of a call opens its approval, closes it, tells its caller, or    *)
(* shows nothing.                                                          *)
LEMMA CallPromises ==
  ASSUME TypeOK, FirstWriterInv, AnswerInv, VerdictIs, VerdictIs', ToldIsVerdict',
         NEW r \in Requests, CallStep(r) \/ CallFails(r) \/ Cancel(r)
  PROVE  /\ \A s \in Requests : s # r => Kept(s)
         /\ Kept(r) \/ Opens(r) \/ Closes(r) \/ Hears(r)
<1>0. PodOf[r] \in Pods /\ SettledOnce
  BY FlowAssumption DEF FirstWriterInv
<1>1. \A s \in Requests : (AckedOf(s)' <=> AckedOf(s))
  <2>1. UNCHANGED postVars
    BY DEF CallStep, ListDevices, CreateApproval, ReadBack, Notify, DisableRead, DisableWrite,
           Poll, FinalRead, Close, Decrypt, CallFails, Cancel
  <2>. QED
    BY <2>1 DEF AckedOf, postVars
<1>2. \/ UNCHANGED log
      \/ CreateApproval(r) \/ (Close(r) /\ Replaceable(r, target[r]))
  BY DEF CallStep, ListDevices, ReadBack, Notify, DisableRead, DisableWrite,
         Poll, FinalRead, Close, Decrypt, CallFails, Cancel, storeVars
<1>3. ASSUME NEW s \in Requests, s # r PROVE Kept(s)
  <2>1. ToldOf(s)' = ToldOf(s)
    BY <1>3, OtherCallsKept, OtherOutcomesKept DEF ToldOf
  <2>2. log'[s] = log[s]
    BY <1>2, <1>3 DEF CreateApproval, Close, Write, TypeOK, storeVars
  <2>. QED
    BY <1>1, <1>3, <2>1, <2>2, VerdictKept DEF Kept
<1>4. pc[r] # "done" /\ ToldOf(r) = "nothing"
  BY CallReads, ToldType
<1>5. CASE UNCHANGED log
  <2>1. VerdictOf(r)' = VerdictOf(r)
    BY <1>5, VerdictKept
  <2>2. ToldOf(r)' \in {"nothing", "approved", "denied", "failure"}
    BY DEF ToldOf
  <2>3. ToldOf(r)' \in {"approved", "denied"} => VerdictOf(r)' = ToldOf(r)'
    BY DEF ToldIsVerdict
  <2>. QED
    BY <1>1, <1>3, <1>4, <2>1, <2>2, <2>3 DEF Kept, Hears
<1>6. CASE CreateApproval(r)
  <2>1. Len(log[r]) = 0 /\ log[r] \in Seq(Documents)
    BY <1>6, LogLength DEF CreateApproval, FirstWriterInv, CallHoldsFirst
  <2>2. \E doc : log'[r] = Append(log[r], doc)
    BY <1>6 DEF CreateApproval, Write, TypeOK
  <2>3. Len(log'[r]) = 1
    BY <2>1, <2>2
  <2>4. VerdictOf(r) = "none" /\ VerdictOf(r)' = "pending"
    <3>1. VerdictOf(r)' = "pending"
      BY <2>3 DEF VerdictIs
    <3>. QED
      BY <1>0, <2>1, <3>1 DEF VerdictIs
  <2>5. pc'[r] = "reading_back"
    BY <1>6 DEF CreateApproval, Goto, TypeOK
  <2>6. ToldOf(r)' = "nothing"
    BY <2>5 DEF ToldOf
  <2>. QED
    BY <1>1, <1>3, <1>4, <2>4, <2>6 DEF Opens
<1>7. CASE Close(r) /\ Replaceable(r, target[r])
  <2>1. target[r] = 1 /\ Len(log[r]) = 1
    BY <1>7, ReplacedWasFirst DEF Close, FirstWriterInv, CallHoldsFirst
  <2>2. CASE UNCHANGED storeVars
    BY <1>5, <2>2 DEF storeVars
  <2>3. CASE \E word \in {"expired", "cancelled"} : Write(PodOf[r], r, Undecided(word))
    <3>1. PICK word \in {"expired", "cancelled"} : log'[r] = Append(log[r], Undecided(word))
      BY <2>3 DEF Write, TypeOK
    <3>2. Len(log'[r]) = 2 /\ log'[r][2] = Undecided(word)
      BY <2>1, <3>1, LogLength
    <3>3. log'[r][2].status \notin Decided
      BY <3>2 DEF Undecided, Decided
    <3>4. VerdictOf(r) = "pending" /\ VerdictOf(r)' = "closed"
      <4>1. VerdictOf(r)' = "closed"
        BY <3>2, <3>3 DEF VerdictIs, Decided
      <4>. QED
        BY <1>0, <2>1, <4>1 DEF VerdictIs
    <3>5. outcome'[r] \notin Telling
      BY <1>4, <1>7 DEF Close, AnswerInv, AnswerStands
    <3>6. ToldOf(r)' \in {"nothing", "failure"}
      BY <3>5 DEF ToldOf, Telling, Releasing
    <3>. QED
      BY <1>1, <1>3, <1>4, <3>4, <3>6 DEF Closes
  <2>. QED
    BY <1>7, <2>2, <2>3 DEF Close
<1>. QED
  BY <1>2, <1>5, <1>6, <1>7

(* What phones have been told changes only with an answer of 200.          *)
LEMMA PostAcks ==
  ASSUME TypeOK, FirstWriterInv, NEW p \in Posts,
         PostStep(p) \/ PostFails(p) \/ \E b \in Bodies : Receive(p, b)
  PROVE  \A s \in Requests :
           AckedOf(s)' <=> AckedOf(s) \/ (reply'[p] = 200 /\ body[p].to = s /\ ppc[p] # "idle")
<1>1. reply[p] # 200
  <2>1. ppc[p] # "done"
    BY DEF PostStep, LoadApproval, LoadDevice, Commit, CloseExpired, PostFails, Receive
  <2>. QED
    BY <2>1 DEF FirstWriterInv, PostHoldsFirst
<1>2. \A o \in Posts : o # p => reply'[o] = reply[o] /\ body'[o] = body[o]
  BY DEF PostStep, LoadApproval, LoadDevice, Commit, CloseExpired, PostFails, Receive, Answer,
         TypeOK
<1>3. (ppc[p] # "idle" /\ body'[p] = body[p]) \/ reply'[p] # 200
  <2>1. ASSUME NEW b \in Bodies, Receive(p, b) PROVE reply'[p] # 200
    BY <1>1, <2>1 DEF Receive, Answer, TypeOK
  <2>2. ASSUME PostStep(p) \/ PostFails(p) PROVE ppc[p] # "idle" /\ body'[p] = body[p]
    BY <2>2 DEF PostStep, LoadApproval, LoadDevice, Commit, CloseExpired, PostFails
  <2>. QED
    BY <2>1, <2>2
<1>. QED
  BY <1>1, <1>2, <1>3 DEF AckedOf

(* A step of a POST decides or closes its approval, acknowledges the       *)
(* decision on record, or shows nothing.                                   *)
LEMMA PostPromises ==
  ASSUME TypeOK, FirstWriterInv, VerdictIs, VerdictIs', NEW p \in Posts,
         PostStep(p) \/ PostFails(p) \/ \E b \in Bodies : Receive(p, b),
         NEW r, r = body[p].to
  PROVE  \/ \A s \in Requests : Kept(s)
         \/ /\ r \in Requests /\ \A s \in Requests : s # r => Kept(s)
            /\ Decides(r) \/ Closes(r) \/ Acknowledges(r)
<1>0. SettledOnce /\ PostHoldsFirst(p)
  BY DEF FirstWriterInv
<1>1. \A s \in Requests : ToldOf(s)' = ToldOf(s)
  <2>1. UNCHANGED callVars
    BY DEF PostStep, LoadApproval, LoadDevice, Commit, CloseExpired, PostFails, Receive
  <2>. QED
    BY <2>1 DEF ToldOf, callVars
<1>2. \A s \in Requests : s # r \/ reply'[p] # 200 \/ ppc[p] = "idle" => (AckedOf(s)' <=> AckedOf(s))
  BY PostAcks DEF AckedOf
<1>3. ppc[p] # "idle" => r \in Requests /\ body[p].decision \in Decided
  <2>1. ppc[p] # "idle" => body[p] \in Bodies
    BY DEF TypeOK
  <2>. QED
    BY <2>1, FlowAssumption DEF Decided
<1>4. ASSUME UNCHANGED log, reply'[p] # 200 \/ ppc[p] = "idle" PROVE \A s \in Requests : Kept(s)
  BY <1>1, <1>2, <1>4, VerdictKept DEF Kept
<1>5. reply[p] # 200
  <2>1. ppc[p] # "done"
    BY DEF PostStep, LoadApproval, LoadDevice, Commit, CloseExpired, PostFails, Receive
  <2>. QED
    BY <1>0, <2>1 DEF PostHoldsFirst
<1>6. ASSUME NEW code, Answer(p, code) PROVE reply'[p] = code
  BY <1>6 DEF Answer, TypeOK
<1>7. ASSUME NEW doc, Write(PodOf[p], r, doc), r \in Requests, Replaceable(r, held[p]), held[p] = 1
      PROVE  /\ Len(log[r]) = 1 /\ Len(log'[r]) = 2 /\ log'[r][2] = doc
             /\ VerdictOf(r) = "pending"
             /\ \A s \in Requests : s # r => Kept(s)
  <2>1. Len(log[r]) = 1 /\ log[r] \in Seq(Documents)
    BY <1>7, ReplacedWasFirst, LogLength
  <2>2. log'[r] = Append(log[r], doc) /\ \A s \in Requests : s # r => log'[s] = log[s]
    BY <1>7 DEF Write, TypeOK
  <2>3. Len(log'[r]) = 2 /\ log'[r][2] = doc
    BY <2>1, <2>2
  <2>4. VerdictOf(r) = "pending"
    BY <1>0, <1>7, <2>1 DEF VerdictIs
  <2>. QED
    BY <1>1, <1>2, <2>1, <2>2, <2>3, <2>4, VerdictKept DEF Kept
<1>8. CASE LoadApproval(p) \/ PostFails(p) \/ \E b \in Bodies : Receive(p, b)
  BY <1>4, <1>5, <1>6, <1>8 DEF LoadApproval, PostFails, Receive, storeVars
<1>9. CASE LoadDevice(p)
  <2>1. UNCHANGED log /\ ppc[p] = "load_device" /\ r \in Requests
    BY <1>3, <1>9 DEF LoadDevice, storeVars
  <2>2. CASE reply'[p] = 200
    <3>1. /\ held[p] # 0 /\ log[r][held[p]].status # "pending"
          /\ SameDecision(log[r][held[p]], body[p])
      BY <1>5, <1>6, <1>9, <2>2 DEF LoadDevice
    <3>2. held[p] \in Nat /\ held[p] <= Len(log[r]) /\ Len(log[r]) \in Nat /\ Len(log[r]) <= 2
      BY <1>0, <2>1, LogLength DEF PostHoldsFirst, SettledOnce, TypeOK
    <3>3. held[p] # 1
      BY <1>0, <2>1, <3>1, <3>2 DEF SettledOnce
    <3>4. held[p] = 2 /\ Len(log[r]) = 2
      BY <3>1, <3>2, <3>3, OnlyTwo
    <3>5. log[r][2].status \in Decided
      BY <1>3, <2>1, <3>1, <3>4 DEF SameDecision
    <3>6. VerdictOf(r) \in {"approved", "denied"}
      BY <1>0, <2>1, <3>4, <3>5 DEF VerdictIs, Decided
    <3>7. AckedOf(r)'
      BY <2>1, <2>2, PostAcks
    <3>8. \A s \in Requests : VerdictOf(s)' = VerdictOf(s)
      BY <2>1, VerdictKept
    <3>. QED
      BY <1>1, <1>2, <2>1, <3>6, <3>7, <3>8 DEF Kept, Acknowledges
  <2>. QED
    BY <1>4, <2>1, <2>2
<1>10. CASE Commit(p)
  <2>0. r \in Requests /\ held[p] = 1 /\ body[p].decision \in Decided
    BY <1>0, <1>3, <1>10 DEF Commit, PostHoldsFirst
  <2>1. CASE /\ Replaceable(r, held[p])
             /\ Write(PodOf[p], r, [status |-> body[p].decision, body |-> body[p], ts |-> now])
    <3>1. /\ Len(log'[r]) = 2 /\ log'[r][2].status = body[p].decision
          /\ VerdictOf(r) = "pending" /\ \A s \in Requests : s # r => Kept(s)
      BY <1>7, <2>0, <2>1
    <3>2. VerdictOf(r)' = body[p].decision
      BY <2>0, <3>1 DEF VerdictIs, Decided
    <3>. QED
      BY <1>1, <2>0, <3>1, <3>2 DEF Decides, Decided
  <2>2. CASE ~Replaceable(r, held[p])
    BY <1>4, <1>6, <1>10, <2>2 DEF Commit, storeVars
  <2>. QED
    BY <1>10, <2>1, <2>2 DEF Commit
<1>11. CASE CloseExpired(p)
  <2>0. r \in Requests /\ held[p] = 1 /\ reply'[p] = 409
    BY <1>0, <1>3, <1>6, <1>11 DEF CloseExpired, PostHoldsFirst
  <2>1. CASE Replaceable(r, held[p]) /\ Write(PodOf[p], r, Undecided("expired"))
    <3>1. /\ Len(log'[r]) = 2 /\ log'[r][2] = Undecided("expired")
          /\ VerdictOf(r) = "pending" /\ \A s \in Requests : s # r => Kept(s)
      BY <1>7, <2>0, <2>1
    <3>2. log'[r][2].status \notin Decided
      BY <3>1 DEF Undecided, Decided
    <3>3. VerdictOf(r)' = "closed"
      BY <2>0, <3>1, <3>2 DEF VerdictIs, Decided
    <3>. QED
      BY <1>1, <1>2, <2>0, <3>1, <3>3 DEF Closes
  <2>2. CASE UNCHANGED log
    BY <1>4, <2>0, <2>2
  <2>. QED
    BY <1>11, <2>1, <2>2 DEF CloseExpired, storeVars
<1>. QED
  BY <1>8, <1>9, <1>10, <1>11 DEF PostStep

LEMMA StepPromises ==
  ASSUME TypeOK, FirstWriterInv, AnswerInv, VerdictIs, VerdictIs', ToldIsVerdict', [Next]_vars
  PROVE  [Abstract!Next]_(Abstract!vars)
<1>1. ASSUME \A s \in Requests : Kept(s) PROVE [Abstract!Next]_(Abstract!vars)
  <2>1. \A s \in Requests : AckedOf(s) \in BOOLEAN /\ AckedOf(s)' \in BOOLEAN
    BY DEF AckedOf
  <2>2. [s \in Requests |-> AckedOf(s)]' = [s \in Requests |-> AckedOf(s)]
    BY <1>1, <2>1 DEF Kept
  <2>3. /\ [s \in Requests |-> VerdictOf(s)]' = [s \in Requests |-> VerdictOf(s)]
        /\ [s \in Requests |-> ToldOf(s)]' = [s \in Requests |-> ToldOf(s)]
    BY <1>1 DEF Kept
  <2>. QED
    BY <2>2, <2>3 DEF Abstract!vars
<1>2. ASSUME NEW r \in Requests, CallStep(r) \/ CallFails(r) \/ Cancel(r)
      PROVE  [Abstract!Next]_(Abstract!vars)
  BY <1>2, CallPromises, PromiseStep
<1>3. ASSUME NEW p \in Posts, PostStep(p) \/ PostFails(p) \/ \E b \in Bodies : Receive(p, b)
      PROVE  [Abstract!Next]_(Abstract!vars)
  <2>. PICK r : r = body[p].to
    OBVIOUS
  <2>. QED
    BY <1>1, <1>3, PostPromises, PromiseStep
<1>4. ASSUME UNCHANGED <<log, body, reply>>,
             \A s \in Requests :
               /\ outcome'[s] = outcome[s]
               /\ pc'[s] = pc[s] \/ (pc[s] # "done" /\ pc'[s] = "crashed")
      PROVE  \A s \in Requests : Kept(s)
  <2>1. \A s \in Requests : VerdictOf(s)' = VerdictOf(s)
    BY <1>4, VerdictKept
  <2>2. \A s \in Requests : (AckedOf(s)' <=> AckedOf(s))
    BY <1>4 DEF AckedOf
  <2>3. \A s \in Requests : ToldOf(s)' = ToldOf(s)
    BY <1>4 DEF ToldOf
  <2>. QED
    BY <2>1, <2>2, <2>3 DEF Kept
<1>5. CASE \/ Tick \/ UNCHANGED vars
           \/ \E d \in Devices : Unlink(d) \/ \E key \in SigningKeys : Link(d, key)
  <2>1. UNCHANGED <<log, body, reply, outcome, pc>>
    BY <1>5 DEF Tick, Unlink, Link, vars, storeVars, callVars, postVars
  <2>. QED
    BY <1>1, <1>4, <2>1
<1>6. ASSUME NEW q \in Pods, Crash(q) PROVE [Abstract!Next]_(Abstract!vars)
  <2>1. \A s \in Requests : pc'[s] = pc[s] \/ (pc[s] # "done" /\ pc'[s] = "crashed")
    BY <1>6 DEF Crash, TypeOK
  <2>2. UNCHANGED <<log, body, reply, outcome>>
    BY <1>6 DEF Crash
  <2>. QED
    BY <1>1, <1>4, <2>1, <2>2
<1>. QED
  BY <1>2, <1>3, <1>5, <1>6 DEF Next

(* The protocol over the shared store keeps the promise of Consent: every  *)
(* step of a handler is a step of the promise, or shows nothing.           *)
THEOREM FlowImplementsConsent == Spec => ImplementsConsent
<1>1. Init => Abstract!Init
  <2>. SUFFICES ASSUME Init PROVE Abstract!Init
    OBVIOUS
  <2>1. ASSUME NEW r \in Requests
        PROVE  VerdictOf(r) = "none" /\ AckedOf(r) = FALSE /\ ToldOf(r) = "nothing"
    BY <2>1 DEF Init, VerdictOf, AckedOf, ToldOf
  <2>. QED
    BY <2>1 DEF Abstract!Init
<1>2. TypeOK /\ FirstWriterInv /\ AnswerInv => VerdictIs /\ ToldIsVerdict
  BY VerdictRead, ToldRead DEF FirstWriterInv
<1>3. /\ TypeOK /\ FirstWriterInv /\ AnswerInv
      /\ VerdictIs /\ VerdictIs' /\ ToldIsVerdict' /\ [Next]_vars
      => [Abstract!Next]_(Abstract!vars)
  BY StepPromises
<1>. QED
  BY <1>1, <1>2, <1>3, TypeCorrect, FirstWriterCorrect, AnswersInvariant, PTL
     DEF Spec, ImplementsConsent, Abstract!Spec
=============================================================================
