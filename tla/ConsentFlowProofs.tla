------------------------- MODULE ConsentFlowProofs -------------------------
(***************************************************************************)
(* Proofs about ConsentFlow for any number of calls, POSTs, pods and       *)
(* devices, any set of bodies, any times and any fault budget.             *)
(***************************************************************************)
EXTENDS ConsentFlow, SequenceTheorems, TLAPS

(* What a read may return is a version number. *)
LEMMA ReadResultsNat ==
  ASSUME TypeOK, NEW q \in Pods, NEW r \in Requests
  PROVE  ReadResults(q, r) \subseteq 0..Len(log[r]) /\ Len(log[r]) \in Nat
<1>1. log[r] \in Seq(Documents) /\ seen[q][r] \in Nat
  BY DEF TypeOK
<1>2. Len(log[r]) \in Nat
  BY <1>1
<1> QED
  BY <1>1, <1>2 DEF ReadResults

LEMMA AfterNat ==
  ASSUME NEW t \in Nat, NEW d \in Nat PROVE After(t, d) \in Nat
BY FlowAssumption DEF After

LEMMA UndecidedType ==
  ASSUME TypeOK, NEW status \in Status PROVE Undecided(status) \in Documents
BY DEF TypeOK, Undecided, Documents

LEMMA WriteType ==
  ASSUME TypeOK, NEW q \in Pods, NEW r \in Requests, NEW doc \in Documents, Write(q, r, doc)
  PROVE  log' \in [Requests -> Seq(Documents)] /\ seen' \in [Pods -> [Requests -> Nat]]
<1>1. log[r] \in Seq(Documents)
  BY DEF TypeOK
<1>2. Append(log[r], doc) \in Seq(Documents) /\ Len(log[r]) + 1 \in Nat
  BY <1>1
<1> QED
  BY <1>2 DEF Write, TypeOK

LEMMA SawType ==
  ASSUME TypeOK, NEW q \in Pods, NEW r \in Requests, NEW v \in ReadResults(q, r), Saw(q, r, v)
  PROVE  v \in Nat /\ seen' \in [Pods -> [Requests -> Nat]]
BY ReadResultsNat DEF Saw, TypeOK

LEMMA SpendType ==
  ASSUME TypeOK, NEW kind \in DOMAIN Budget, Spend(kind)
  PROVE  budget' \in [DOMAIN Budget -> Nat]
BY DEF Spend, TypeOK

LEMMA Kinds == DOMAIN Budget = {"fault", "crash", "cancel", "link"}
BY FlowAssumption

LEMMA ResultStatusType ==
  ASSUME NEW status, NEW result PROVE ResultStatus(status, result) \in Outcomes
BY DEF ResultStatus, Outcomes

LEMMA FinishType ==
  ASSUME TypeOK, NEW r \in Requests, NEW o \in Outcomes, Finish(r, o)
  PROVE  /\ pc' \in [Requests -> CallLabels] /\ outcome' \in [Requests -> Outcomes]
         /\ \A s \in Requests : pc'[s] = "disable_write" => pc[s] = "disable_write"
BY DEF Finish, Goto, TypeOK, CallLabels

LEMMA BeginCloseType ==
  ASSUME TypeOK, NEW r \in Requests, NEW v \in Nat, NEW o \in Outcomes, BeginClose(r, v, o)
  PROVE  /\ pc' \in [Requests -> CallLabels] /\ outcome' \in [Requests -> Outcomes]
         /\ target' \in [Requests -> Nat]
         /\ \A s \in Requests : pc'[s] = "disable_write" => pc[s] = "disable_write"
BY DEF BeginClose, Goto, TypeOK, CallLabels

LEMMA AfterDisablingType ==
  ASSUME TypeOK, NEW r \in Requests, NEW rest \in SUBSET Devices, NEW ok,
         AfterDisabling(r, rest, ok)
  PROVE  /\ pc' \in [Requests -> CallLabels] /\ outcome' \in [Requests -> Outcomes]
         /\ target' \in [Requests -> Nat] /\ deadline' \in [Requests -> Nat]
         /\ todo' \in [Requests -> SUBSET Devices]
         /\ pc'[r] # "disable_write"
         /\ \A s \in Requests : pc'[s] = "disable_write" => pc[s] = "disable_write"
<1>1. todo' \in [Requests -> SUBSET Devices]
  BY DEF AfterDisabling, TypeOK
<1>2. After(now, Timeout) \in Nat
  BY AfterNat, FlowAssumption DEF TypeOK
<1>3. mine[r] \in Nat /\ "notifications_unavailable" \in Outcomes
  BY DEF TypeOK, Outcomes
<1>4. CASE Goto(r, "disabling") /\ UNCHANGED <<deadline, target, outcome>>
  BY <1>1, <1>4 DEF Goto, TypeOK, CallLabels
<1>5. CASE /\ Goto(r, "waiting") /\ UNCHANGED <<target, outcome>>
           /\ deadline' = [deadline EXCEPT ![r] = After(now, Timeout)]
  BY <1>1, <1>2, <1>5 DEF Goto, TypeOK, CallLabels
<1>6. CASE BeginClose(r, mine[r], "notifications_unavailable") /\ UNCHANGED deadline
  BY <1>1, <1>3, <1>6 DEF BeginClose, Goto, TypeOK, CallLabels
<1> QED
  BY <1>4, <1>5, <1>6 DEF AfterDisabling

LEMMA AnswerType ==
  ASSUME TypeOK, NEW p \in Posts, NEW code \in {200, 400, 409, 503}, Answer(p, code)
  PROVE  /\ ppc' \in [Posts -> PostLabels]
         /\ reply' \in [Posts -> {0, 200, 400, 409, 503}]
         /\ \A s \in Posts : s # p => ppc'[s] = ppc[s]
BY DEF Answer, TypeOK, PostLabels

----------------------------------------------------------------------------
(* One lemma per group of actions: each keeps the types. *)

(* What a step of the calls may not touch. *)
LEMMA CallStepType ==
  ASSUME TypeOK, NEW r \in Requests, CallStep(r) PROVE TypeOK'
<1> USE Kinds
<1>0. PodOf[r] \in Pods /\ pc[r] \in CallLabels /\ mine[r] \in Nat /\ todo[r] \in SUBSET Devices
  BY FlowAssumption DEF TypeOK
<1>1. CASE ListDevices(r)
  <2>1. DOMAIN pc = Requests /\ {"phone_not_linked"} \subseteq Outcomes
    BY DEF TypeOK, Outcomes
  <2>2. CASE Finish(r, "phone_not_linked") /\ UNCHANGED <<created, todo>>
    <3>1. /\ pc' \in [Requests -> CallLabels] /\ outcome' \in [Requests -> Outcomes]
          /\ \A s \in Requests : pc'[s] = "disable_write" => pc[s] = "disable_write"
      BY <2>1, <2>2, FinishType
    <3> QED
      BY <1>1, <2>2, <3>1 DEF ListDevices, TypeOK, storeVars, postVars
  <2>3. CASE /\ Goto(r, "creating") /\ UNCHANGED outcome
             /\ created' = [created EXCEPT ![r] = now]
             /\ \E S \in SUBSET Devices : todo' = [todo EXCEPT ![r] = S]
    BY <1>1, <2>3 DEF ListDevices, TypeOK, storeVars, postVars, Goto, CallLabels
  <2> QED
    BY <1>1, <2>2, <2>3 DEF ListDevices
<1>2. CASE CreateApproval(r)
  <2>1. log' \in [Requests -> Seq(Documents)] /\ seen' \in [Pods -> [Requests -> Nat]]
    BY <1>0, <1>2, WriteType, UndecidedType DEF CreateApproval, Status
  <2>2. /\ pc' \in [Requests -> CallLabels]
        /\ \A s \in Requests : pc'[s] = "disable_write" => pc[s] = "disable_write"
    BY <1>2 DEF CreateApproval, TypeOK, Goto, CallLabels
  <2> QED
    BY <1>2, <2>1, <2>2 DEF CreateApproval, TypeOK, postVars
<1>3. CASE ReadBack(r)
  <2> PICK v \in ReadResults(PodOf[r], r) : ReadBack(r)!2!(v)
    BY <1>3 DEF ReadBack
  <2>1. v \in Nat /\ seen' \in [Pods -> [Requests -> Nat]]
    BY <1>0, SawType
  <2>2. CASE Finish(r, "approval_unavailable") /\ UNCHANGED mine
    BY <1>3, <2>1, <2>2, FinishType DEF ReadBack, TypeOK, postVars, Outcomes
  <2>3. CASE /\ Goto(r, "notifying") /\ UNCHANGED outcome
             /\ mine' = [mine EXCEPT ![r] = v]
    BY <1>3, <2>1, <2>3 DEF ReadBack, TypeOK, postVars, Goto, CallLabels
  <2> QED
    BY <2>2, <2>3
<1>4. CASE Notify(r)
  <2> PICK result \in [todo[r] -> {"accepted", "invalid", "transient"}] : Notify(r)!2!(result)
    BY <1>4 DEF Notify, PushResults
  <2> DEFINE Got(answer) == {d \in todo[r] : result[d] = answer}
  <2>1. CASE /\ BeginClose(r, mine[r], "notifications_unavailable")
             /\ UNCHANGED <<deadline, todo, reached>>
    <3>1. /\ pc' \in [Requests -> CallLabels] /\ outcome' \in [Requests -> Outcomes]
          /\ target' \in [Requests -> Nat]
          /\ \A s \in Requests : pc'[s] = "disable_write" => pc[s] = "disable_write"
      BY <1>0, <2>1, BeginCloseType DEF Outcomes
    <3> QED
      BY <1>4, <2>1, <3>1 DEF Notify, TypeOK, storeVars, postVars
  <2>2. CASE /\ reached' = [reached EXCEPT ![r] = Got("accepted") # {}]
             /\ AfterDisabling(r, Got("invalid"), Got("accepted") # {})
    <3>1. Got("invalid") \in SUBSET Devices
      BY <1>0
    <3>2. /\ pc' \in [Requests -> CallLabels] /\ outcome' \in [Requests -> Outcomes]
          /\ target' \in [Requests -> Nat] /\ deadline' \in [Requests -> Nat]
          /\ todo' \in [Requests -> SUBSET Devices]
          /\ \A s \in Requests : pc'[s] = "disable_write" => pc[s] = "disable_write"
      BY <2>2, <3>1, AfterDisablingType
    <3>3. reached' \in [Requests -> BOOLEAN]
      BY <2>2 DEF TypeOK
    <3> QED
      BY <1>4, <3>2, <3>3 DEF Notify, TypeOK, storeVars, postVars
  <2> QED
    BY <2>1, <2>2
<1>5. CASE DisableRead(r)
  <2> PICK d \in todo[r] : DisableRead(r)!2!(d)
    BY <1>5 DEF DisableRead
  <2>1. CASE AfterDisabling(r, todo[r] \ {d}, reached[r]) /\ UNCHANGED copy
    <3>1. /\ pc' \in [Requests -> CallLabels] /\ outcome' \in [Requests -> Outcomes]
          /\ target' \in [Requests -> Nat] /\ deadline' \in [Requests -> Nat]
          /\ todo' \in [Requests -> SUBSET Devices]
          /\ \A s \in Requests : pc'[s] = "disable_write" => pc[s] = "disable_write"
      BY <1>0, <2>1, AfterDisablingType
    <3> QED
      BY <1>5, <2>1, <3>1 DEF DisableRead, TypeOK, storeVars, postVars
  <2>2. CASE /\ device[d] # NoDevice
             /\ copy' = [copy EXCEPT ![r] = [id |-> d, doc |-> device[d]]]
             /\ Goto(r, "disable_write")
             /\ UNCHANGED <<todo, deadline, target, outcome>>
    <3>1. [id |-> d, doc |-> device[d]] \in Copies
      BY <1>0, <2>2 DEF TypeOK, Copies, DeviceDocs
    <3> QED
      BY <1>5, <2>2, <3>1 DEF DisableRead, TypeOK, storeVars, postVars, Goto, CallLabels
  <2> QED
    BY <2>1, <2>2
<1>6. CASE DisableWrite(r)
  <2>1. copy[r] \in Copies
    BY <1>6 DEF DisableWrite, TypeOK
  <2>2. copy[r].id \in Devices /\ [copy[r].doc EXCEPT !.enabled = FALSE] \in DeviceDocs
    BY <2>1 DEF Copies, DeviceDocs
  <2>3. /\ pc' \in [Requests -> CallLabels] /\ outcome' \in [Requests -> Outcomes]
        /\ target' \in [Requests -> Nat] /\ deadline' \in [Requests -> Nat]
        /\ todo' \in [Requests -> SUBSET Devices] /\ pc'[r] # "disable_write"
        /\ \A s \in Requests : pc'[s] = "disable_write" => pc[s] = "disable_write"
    BY <1>0, <1>6, AfterDisablingType DEF DisableWrite
  <2>4. device' \in [Devices -> DeviceDocs \cup {NoDevice}]
    BY <1>6, <2>2 DEF DisableWrite, TypeOK
  <2>5. /\ copy' \in [Requests -> Copies \cup {NoCopy}]
        /\ \A s \in Requests : pc'[s] = "disable_write" => copy'[s] \in Copies
    BY <1>6, <2>3 DEF DisableWrite, TypeOK
  <2> QED
    BY <1>6, <2>3, <2>4, <2>5 DEF DisableWrite, TypeOK, storeVars, postVars
<1>7. ASSUME Poll(r) \/ FinalRead(r) PROVE TypeOK'
  <2>1. ASSUME NEW v \in Nat, Conclude(r, v)
        PROVE  /\ pc' \in [Requests -> CallLabels] /\ outcome' \in [Requests -> Outcomes]
               /\ mine' \in [Requests -> Nat]
               /\ \A s \in Requests : pc'[s] = "disable_write" => pc[s] = "disable_write"
    <3>1. mine' \in [Requests -> Nat]
      BY <2>1 DEF Conclude, TypeOK
    <3>2. CASE Finish(r, ResultStatus(log[r][v].status, log[r][v].body.result))
      BY <3>1, <3>2, FinishType, ResultStatusType
    <3>3. CASE Goto(r, "decrypting") /\ UNCHANGED outcome
      BY <3>1, <3>3 DEF Goto, TypeOK, CallLabels
    <3> QED
      BY <2>1, <3>2, <3>3 DEF Conclude
  <2>2. CASE Poll(r)
    <3> PICK v \in ReadResults(PodOf[r], r) : Poll(r)!2!(v)
      BY <2>2 DEF Poll
    <3>1. v \in Nat /\ seen' \in [Pods -> [Requests -> Nat]]
      BY <1>0, SawType
    <3>2. CASE UNCHANGED <<pc, outcome, mine>>
      BY <2>2, <3>1, <3>2 DEF Poll, TypeOK, postVars
    <3>3. CASE Conclude(r, v)
      BY <2>1, <2>2, <3>1, <3>3 DEF Poll, TypeOK, postVars
    <3>4. CASE Finish(r, "approval_unavailable") /\ UNCHANGED mine
      BY <2>2, <3>1, <3>4, FinishType DEF Poll, TypeOK, postVars, Outcomes
    <3>5. CASE Finish(r, "approval_timed_out") /\ UNCHANGED mine
      BY <2>2, <3>1, <3>5, FinishType DEF Poll, TypeOK, postVars, Outcomes
    <3> QED
      BY <3>2, <3>3, <3>4, <3>5
  <2>3. CASE FinalRead(r)
    <3> PICK v \in ReadResults(PodOf[r], r) : FinalRead(r)!2!(v)
      BY <2>3 DEF FinalRead
    <3>1. v \in Nat /\ seen' \in [Pods -> [Requests -> Nat]]
      BY <1>0, SawType
    <3>2. CASE Conclude(r, v) /\ UNCHANGED target
      BY <2>1, <2>3, <3>1, <3>2 DEF FinalRead, TypeOK, postVars
    <3>3. CASE BeginClose(r, v, "approval_timed_out") /\ UNCHANGED mine
      <4>1. "approval_timed_out" \in Outcomes
        BY DEF Outcomes
      <4> QED
        BY <2>3, <3>1, <3>3, <4>1, BeginCloseType DEF FinalRead, TypeOK, postVars
    <3> QED
      BY <3>2, <3>3
  <2> QED
    BY <1>7, <2>2, <2>3
<1>8. CASE Close(r)
  <2> DEFINE doc == Undecided(IF outcome[r] = "approval_timed_out" THEN "expired" ELSE "cancelled")
  <2>1. doc \in Documents
    BY UndecidedType DEF Status, Closed
  <2>2. /\ pc' \in [Requests -> CallLabels]
        /\ \A s \in Requests : pc'[s] = "disable_write" => pc[s] = "disable_write"
    BY <1>8 DEF Close, TypeOK, Goto, CallLabels
  <2>3. CASE Write(PodOf[r], r, doc) /\ UNCHANGED budget
    BY <1>0, <1>8, <2>1, <2>2, <2>3, WriteType DEF Close, TypeOK, postVars
  <2>4. CASE UNCHANGED <<storeVars, budget>>
    BY <1>8, <2>2, <2>4 DEF Close, TypeOK, postVars, storeVars
  <2>5. CASE Spend("fault") /\ UNCHANGED storeVars
    BY <1>8, <2>2, <2>5, SpendType DEF Close, TypeOK, postVars, storeVars
  <2> QED
    BY <1>8, <2>3, <2>4, <2>5 DEF Close
<1>9. CASE Decrypt(r)
  <2>1. /\ pc' \in [Requests -> CallLabels] /\ outcome' \in [Requests -> Outcomes]
        /\ \A s \in Requests : pc'[s] = "disable_write" => pc[s] = "disable_write"
    <3>1. \E o \in Outcomes : Finish(r, o)
      BY <1>9, ResultStatusType DEF Decrypt, Outcomes
    <3> QED
      BY <3>1, FinishType
  <2>2. DOMAIN released' = Requests
    <3>1. UNCHANGED released \/ \E x : released' = [released EXCEPT ![r] = x]
      BY <1>9 DEF Decrypt
    <3> QED
      BY <3>1 DEF TypeOK
  <2>3. UNCHANGED <<now, budget, storeVars, device, created, deadline, mine, target, todo,
                    reached, copy, postVars>>
    BY <1>9 DEF Decrypt
  <2> QED
    BY <2>1, <2>2, <2>3 DEF TypeOK, storeVars, postVars
<1> QED
  BY <1>1, <1>2, <1>3, <1>4, <1>5, <1>6, <1>7, <1>8, <1>9 DEF CallStep

LEMMA CallTroubleType ==
  ASSUME TypeOK, NEW r \in Requests, CallFails(r) \/ Cancel(r) PROVE TypeOK'
<1> USE Kinds
<1>0. mine[r] \in Nat
  BY DEF TypeOK
<1>1. CASE CallFails(r)
  <2>1. /\ pc' \in [Requests -> CallLabels] /\ outcome' \in [Requests -> Outcomes]
        /\ \A s \in Requests : pc'[s] = "disable_write" => pc[s] = "disable_write"
    BY <1>1, FinishType DEF CallFails, Outcomes
  <2> QED
    BY <1>1, <2>1, SpendType DEF CallFails, TypeOK, storeVars, postVars
<1>2. CASE Cancel(r)
  <2>1. /\ pc' \in [Requests -> CallLabels] /\ outcome' \in [Requests -> Outcomes]
        /\ target' \in [Requests -> Nat]
        /\ \A s \in Requests : pc'[s] = "disable_write" => pc[s] = "disable_write"
    <3>1. CASE BeginClose(r, mine[r], "cancelled")
      BY <1>0, <3>1, BeginCloseType DEF Outcomes
    <3>2. CASE (Finish(r, "abandoned") \/ Finish(r, "cancelled")) /\ UNCHANGED target
      BY <3>2, FinishType DEF Outcomes, TypeOK
    <3> QED
      BY <1>2, <3>1, <3>2 DEF Cancel
  <2> QED
    BY <1>2, <2>1, SpendType DEF Cancel, TypeOK, storeVars, postVars
<1> QED
  BY <1>1, <1>2

LEMMA PostType ==
  ASSUME TypeOK, NEW p \in Posts,
         PostStep(p) \/ PostFails(p) \/ \E b \in Bodies : Receive(p, b)
  PROVE  TypeOK'
<1> USE Kinds
<1>1. CASE \E b \in Bodies : Receive(p, b)
  <2> PICK b \in Bodies : Receive(p, b)
    BY <1>1
  <2>1. /\ ppc' \in [Posts -> PostLabels] /\ reply' \in [Posts -> {0, 200, 400, 409, 503}]
        /\ \A s \in Posts : s # p => ppc'[s] = ppc[s]
    <3>1. CASE Answer(p, 400)
      BY <3>1, AnswerType
    <3>2. CASE ppc' = [ppc EXCEPT ![p] = "load_approval"] /\ UNCHANGED reply
      BY <3>2 DEF TypeOK, PostLabels
    <3> QED
      BY <3>1, <3>2 DEF Receive
  <2>2. /\ body' \in [Posts -> Bodies \cup {NoBody}]
        /\ \A s \in Posts : ppc'[s] # "idle" => body'[s] \in Bodies
    BY <2>1 DEF Receive, TypeOK
  <2> QED
    BY <2>1, <2>2 DEF Receive, TypeOK, storeVars, callVars
<1>2. ASSUME PostStep(p) \/ PostFails(p) PROVE TypeOK'
  <2>1. body[p] \in Bodies /\ body[p].to \in Requests /\ body[p].decision \in Status
        /\ PodOf[p] \in Pods /\ held[p] \in Nat
    <3>1. ppc[p] # "idle"
      BY <1>2 DEF PostStep, PostFails, LoadApproval, LoadDevice, Commit, CloseExpired
    <3>2. body[p] \in Bodies /\ held[p] \in Nat
      BY <3>1 DEF TypeOK
    <3>3. body[p].to \in Requests /\ body[p].decision \in {"approved", "denied"}
      BY <3>2, FlowAssumption
    <3>4. PodOf[p] \in Pods
      BY FlowAssumption
    <3> QED
      BY <3>2, <3>3, <3>4 DEF Status, Decided
  <2>2. CASE LoadApproval(p)
    <3>1. /\ ppc' \in [Posts -> PostLabels]
          /\ \A s \in Posts : s # p => ppc'[s] = ppc[s]
      BY <2>2 DEF LoadApproval, TypeOK, PostLabels
    <3>2. seen' \in [Pods -> [Requests -> Nat]] /\ held' \in [Posts -> Nat]
      <4>1. CASE UNCHANGED <<seen, held>>
        BY <4>1 DEF TypeOK
      <4>2. CASE \E v \in ReadResults(PodOf[p], body[p].to) :
                   Saw(PodOf[p], body[p].to, v) /\ held' = [held EXCEPT ![p] = v]
        <5> PICK v \in ReadResults(PodOf[p], body[p].to) :
                   Saw(PodOf[p], body[p].to, v) /\ held' = [held EXCEPT ![p] = v]
          BY <4>2
        <5>1. v \in Nat /\ seen' \in [Pods -> [Requests -> Nat]]
          BY <2>1, SawType
        <5> QED
          BY <5>1 DEF TypeOK
      <4>3. \/ UNCHANGED <<seen, held>>
            \/ \E v \in ReadResults(PodOf[p], body[p].to) :
                 Saw(PodOf[p], body[p].to, v) /\ held' = [held EXCEPT ![p] = v]
        BY <2>2 DEF LoadApproval
      <4> QED
        BY <4>1, <4>2, <4>3
    <3> QED
      BY <2>1, <2>2, <3>1, <3>2 DEF LoadApproval, TypeOK, callVars
  <2>3. CASE LoadDevice(p)
    <3>1. /\ ppc' \in [Posts -> PostLabels] /\ reply' \in [Posts -> {0, 200, 400, 409, 503}]
          /\ \A s \in Posts : s # p => ppc'[s] = ppc[s]
      <4>1. \/ \E code \in {200, 400, 409, 503} : Answer(p, code)
            \/ \E label \in {"closing", "committing"} :
                 ppc' = [ppc EXCEPT ![p] = label] /\ UNCHANGED reply
        BY <2>3 DEF LoadDevice
      <4>2. CASE \E code \in {200, 400, 409, 503} : Answer(p, code)
        BY <4>2, AnswerType
      <4>3. CASE \E label \in {"closing", "committing"} :
                   ppc' = [ppc EXCEPT ![p] = label] /\ UNCHANGED reply
        BY <4>3 DEF TypeOK, PostLabels
      <4> QED
        BY <4>1, <4>2, <4>3
    <3> QED
      BY <2>1, <2>3, <3>1 DEF LoadDevice, TypeOK, callVars, storeVars
  <2>4. CASE Commit(p)
    <3> DEFINE doc == [status |-> body[p].decision, body |-> body[p], ts |-> now]
    <3>1. doc \in Documents
      BY <2>1 DEF Documents, TypeOK
    <3>2. /\ ppc' \in [Posts -> PostLabels] /\ reply' \in [Posts -> {0, 200, 400, 409, 503}]
          /\ \A s \in Posts : s # p => ppc'[s] = ppc[s]
      BY <2>4, AnswerType DEF Commit
    <3>3. budget' \in [DOMAIN Budget -> Nat]
      BY <2>4, SpendType DEF Commit, TypeOK
    <3>4. log' \in [Requests -> Seq(Documents)] /\ seen' \in [Pods -> [Requests -> Nat]]
      <4>1. CASE Write(PodOf[p], body[p].to, doc)
        BY <2>1, <3>1, <4>1, WriteType
      <4>2. CASE UNCHANGED storeVars
        BY <4>2 DEF storeVars, TypeOK
      <4> QED
        BY <2>4, <4>1, <4>2 DEF Commit
    <3> QED
      BY <2>1, <2>4, <3>2, <3>3, <3>4 DEF Commit, TypeOK, callVars
  <2>5. CASE CloseExpired(p)
    <3>1. Undecided("expired") \in Documents
      BY UndecidedType DEF Status, Closed
    <3>2. /\ ppc' \in [Posts -> PostLabels] /\ reply' \in [Posts -> {0, 200, 400, 409, 503}]
          /\ \A s \in Posts : s # p => ppc'[s] = ppc[s]
      BY <2>5, AnswerType DEF CloseExpired
    <3>3. budget' \in [DOMAIN Budget -> Nat]
      BY <2>5, SpendType DEF CloseExpired, TypeOK
    <3>4. log' \in [Requests -> Seq(Documents)] /\ seen' \in [Pods -> [Requests -> Nat]]
      <4>1. CASE Write(PodOf[p], body[p].to, Undecided("expired"))
        BY <2>1, <3>1, <4>1, WriteType
      <4>2. CASE UNCHANGED storeVars
        BY <4>2 DEF storeVars, TypeOK
      <4> QED
        BY <2>5, <4>1, <4>2 DEF CloseExpired
    <3> QED
      BY <2>1, <2>5, <3>2, <3>3, <3>4 DEF CloseExpired, TypeOK, callVars
  <2>6. CASE PostFails(p)
    <3>1. /\ ppc' \in [Posts -> PostLabels] /\ reply' \in [Posts -> {0, 200, 400, 409, 503}]
          /\ \A s \in Posts : s # p => ppc'[s] = ppc[s]
      BY <2>6, AnswerType DEF PostFails
    <3> QED
      BY <2>1, <2>6, <3>1, SpendType DEF PostFails, TypeOK, callVars, storeVars
  <2> QED
    BY <1>2, <2>2, <2>3, <2>4, <2>5, <2>6 DEF PostStep
<1> QED
  BY <1>1, <1>2

LEMMA EnvironmentType ==
  ASSUME TypeOK,
         \/ Tick
         \/ \E q \in Pods : Crash(q)
         \/ \E d \in Devices : Unlink(d) \/ \E key \in SigningKeys : Link(d, key)
  PROVE  TypeOK'
<1> USE Kinds
<1>1. CASE Tick
  BY <1>1 DEF Tick, TypeOK, storeVars, callVars, postVars
<1>2. CASE \E q \in Pods : Crash(q)
  <2> PICK q \in Pods : Crash(q)
    BY <1>2
  <2>1. seen' \in [Pods -> [Requests -> Nat]]
    BY DEF Crash, TypeOK
  <2>2. /\ pc' \in [Requests -> CallLabels] /\ ppc' \in [Posts -> PostLabels]
        /\ \A s \in Requests : pc'[s] = "disable_write" => pc[s] = "disable_write"
        /\ \A s \in Posts : ppc'[s] # "idle" => ppc[s] # "idle"
    BY DEF Crash, TypeOK, CallLabels, PostLabels
  <2> QED
    BY <2>1, <2>2, SpendType DEF Crash, TypeOK
<1>3. ASSUME NEW d \in Devices, Unlink(d) \/ \E key \in SigningKeys : Link(d, key) PROVE TypeOK'
  <2>1. \E doc \in DeviceDocs \cup {NoDevice} : device' = [device EXCEPT ![d] = doc]
    BY <1>3 DEF Unlink, Link, DeviceDocs
  <2>2. device' \in [Devices -> DeviceDocs \cup {NoDevice}]
    BY <2>1 DEF TypeOK
  <2>3. budget' \in [DOMAIN Budget -> Nat]
    BY <1>3, SpendType DEF Unlink, Link
  <2>4. UNCHANGED <<now, storeVars, callVars, postVars>>
    BY <1>3 DEF Unlink, Link
  <2> QED
    BY <2>2, <2>3, <2>4 DEF TypeOK, storeVars, callVars, postVars
<1> QED
  BY <1>1, <1>2, <1>3

LEMMA TypeStep == ASSUME TypeOK, [Next]_vars PROVE TypeOK'
<1>1. CASE UNCHANGED vars
  BY <1>1 DEF TypeOK, vars, storeVars, callVars, postVars
<1> QED
  BY <1>1, CallStepType, CallTroubleType, PostType, EnvironmentType DEF Next

(* The variables of ConsentFlow only ever hold what the code puts there:   *)
(* store versions, awaits, HTTP statuses and tool errors.                  *)
THEOREM TypeCorrect == Spec => []TypeOK
<1>1. Init => TypeOK
  <2> SUFFICES ASSUME Init PROVE TypeOK
    OBVIOUS
  <2>1. device \in [Devices -> DeviceDocs \cup {NoDevice}]
    BY FlowAssumption DEF Init, DeviceDocs
  <2>2. log \in [Requests -> Seq(Documents)]
    BY DEF Init
  <2> QED
    BY <2>1, <2>2, FlowAssumption DEF Init, TypeOK, CallLabels, PostLabels, Outcomes
<1>2. TypeOK /\ [Next]_vars => TypeOK'
  BY TypeStep
<1> QED
  BY <1>1, <1>2, PTL DEF Spec

----------------------------------------------------------------------------
(* The first writer wins. *)

(* A step may only add versions, and keeps SettledOnce. *)
Grown ==
  /\ SettledOnce'
  /\ \A r \in Requests :
       /\ Len(log'[r]) \in Nat /\ Len(log[r]) <= Len(log'[r])
       /\ \A v \in 1..Len(log[r]) : log'[r][v] = log[r][v]

LEMMA LogLength ==
  ASSUME TypeOK, NEW r \in Requests
  PROVE  /\ log[r] \in Seq(Documents) /\ Len(log[r]) \in Nat
         /\ \A v \in 1..Len(log[r]) : log[r][v] \in Documents
         /\ log[r] = <<>> <=> Len(log[r]) = 0
<1>1. log[r] \in Seq(Documents)
  BY DEF TypeOK
<1> QED
  BY <1>1

LEMMA KeptLogGrown ==
  ASSUME SettledOnce, TypeOK, UNCHANGED log PROVE Grown
<1>1. SettledOnce'
  BY DEF SettledOnce
<1> QED
  BY <1>1, LogLength DEF Grown

(* A write is good when it is the pending document of a new approval, or   *)
(* settles one that has only its pending version.                          *)
LEMMA WriteGrown ==
  ASSUME TypeOK, SettledOnce, NEW q \in Pods, NEW r \in Requests, NEW doc \in Documents,
         Write(q, r, doc), Len(log[r]) \in {0, 1},
         (doc.status = "pending") <=> (Len(log[r]) = 0)
  PROVE  /\ Grown /\ Len(log'[r]) = Len(log[r]) + 1 /\ log'[r][Len(log[r]) + 1] = doc
         /\ \A s \in Requests : s # r => log'[s] = log[s]
<1>1. \A s \in Requests : log[s] \in Seq(Documents) /\ Len(log[s]) \in Nat
  BY LogLength
<1>2. log'[r] = Append(log[r], doc) /\ \A s \in Requests : s # r => log'[s] = log[s]
  BY DEF Write, TypeOK
<1>3. /\ Len(log'[r]) = Len(log[r]) + 1 /\ log'[r][Len(log[r]) + 1] = doc
      /\ \A v \in 1..Len(log[r]) : log'[r][v] = log[r][v]
  BY <1>1, <1>2
<1>4. SettledOnce'
  <2> SUFFICES ASSUME NEW s \in Requests
               PROVE  /\ Len(log'[s]) <= 2
                      /\ \A v \in 1..Len(log'[s]) : (log'[s][v].status = "pending") <=> (v = 1)
    BY DEF SettledOnce
  <2>1. CASE s # r
    BY <1>2, <2>1 DEF SettledOnce
  <2>2. CASE s = r
    BY <1>1, <1>3, <2>2 DEF SettledOnce
  <2> QED
    BY <2>1, <2>2
<1> QED
  BY <1>1, <1>2, <1>3, <1>4 DEF Grown

LEMMA ReplacedWasFirst ==
  ASSUME TypeOK, NEW r \in Requests, Replaceable(r, 1) PROVE Len(log[r]) = 1
BY LogLength DEF Replaceable

(* The four actions that write. *)
LEMMA WritersGrow ==
  ASSUME TypeOK, FirstWriterInv
  PROVE  /\ \A r \in Requests : CreateApproval(r) \/ Close(r) => Grown
         /\ \A p \in Posts : Commit(p) \/ CloseExpired(p) => Grown
<1>1. ASSUME NEW r \in Requests, CreateApproval(r) PROVE Grown
  <2>1. Len(log[r]) = 0
    BY <1>1, LogLength DEF CreateApproval, FirstWriterInv, CallHoldsFirst
  <2>2. Undecided("pending") \in Documents /\ Undecided("pending").status = "pending"
    BY UndecidedType DEF Undecided, Status
  <2> QED
    BY <1>1, <2>1, <2>2, WriteGrown, FlowAssumption DEF CreateApproval, FirstWriterInv
<1>2. ASSUME NEW r \in Requests, Close(r) PROVE Grown
  <2>1. target[r] = 1
    BY <1>2 DEF Close, FirstWriterInv, CallHoldsFirst
  <2>2. CASE UNCHANGED storeVars
    BY <2>2, KeptLogGrown DEF storeVars, FirstWriterInv
  <2>3. ASSUME NEW status \in Closed, Replaceable(r, target[r]),
               Write(PodOf[r], r, Undecided(status))
        PROVE  Grown
    <3>1. Undecided(status) \in Documents /\ Undecided(status).status # "pending"
      BY UndecidedType DEF Undecided, Status, Closed
    <3>2. Len(log[r]) = 1 /\ PodOf[r] \in Pods
      BY <2>1, <2>3, ReplacedWasFirst, FlowAssumption
    <3> QED
      BY <2>3, <3>1, <3>2, WriteGrown DEF FirstWriterInv
  <2> QED
    BY <1>2, <2>2, <2>3 DEF Close, Closed
<1>3. ASSUME NEW p \in Posts, Commit(p) \/ CloseExpired(p) PROVE Grown
  <2>1. /\ held[p] = 1 /\ body[p] \in Bodies /\ body[p].to \in Requests
        /\ body[p].decision \in Decided /\ PodOf[p] \in Pods
    BY <1>3, FlowAssumption
    DEF Commit, CloseExpired, FirstWriterInv, PostHoldsFirst, TypeOK, Decided
  <2>2. CASE UNCHANGED storeVars
    BY <2>2, KeptLogGrown DEF storeVars, FirstWriterInv
  <2>3. ASSUME NEW doc \in Documents, doc.status # "pending",
               Replaceable(body[p].to, held[p]), Write(PodOf[p], body[p].to, doc)
        PROVE  Grown
    BY <2>1, <2>3, ReplacedWasFirst, WriteGrown DEF FirstWriterInv
  <2>4. /\ Undecided("expired") \in Documents /\ Undecided("expired").status # "pending"
        /\ [status |-> body[p].decision, body |-> body[p], ts |-> now] \in Documents
    BY <2>1, UndecidedType DEF Undecided, Status, Closed, Decided, Documents, TypeOK
  <2>5. body[p].decision # "pending"
    BY <2>1 DEF Decided
  <2> QED
    BY <1>3, <2>2, <2>3, <2>4, <2>5 DEF Commit, CloseExpired
<1> QED
  BY <1>1, <1>2, <1>3

LEMMA StepGrows ==
  ASSUME TypeOK, FirstWriterInv, [Next]_vars PROVE Grown
<1>1. ASSUME UNCHANGED log PROVE Grown
  BY <1>1, KeptLogGrown DEF FirstWriterInv
<1>2. ASSUME NEW r \in Requests, CallStep(r) PROVE Grown
  <2>1. ListDevices(r) => UNCHANGED log
    BY DEF ListDevices, storeVars
  <2>2. ReadBack(r) \/ Poll(r) \/ FinalRead(r) => UNCHANGED log
    BY DEF ReadBack, Poll, FinalRead
  <2>3. Notify(r) \/ DisableRead(r) \/ DisableWrite(r) \/ Decrypt(r) => UNCHANGED log
    BY DEF Notify, DisableRead, DisableWrite, Decrypt, storeVars
  <2> QED
    BY <1>1, <1>2, <2>1, <2>2, <2>3, WritersGrow DEF CallStep
<1>3. ASSUME NEW r \in Requests, CallFails(r) \/ Cancel(r) PROVE Grown
  BY <1>1, <1>3 DEF CallFails, Cancel, storeVars
<1>4. ASSUME NEW p \in Posts, PostStep(p) \/ PostFails(p) \/ \E b \in Bodies : Receive(p, b)
      PROVE  Grown
  <2>1. LoadApproval(p) \/ LoadDevice(p) \/ PostFails(p) => UNCHANGED log
    BY DEF LoadApproval, LoadDevice, PostFails, storeVars
  <2>2. (\E b \in Bodies : Receive(p, b)) => UNCHANGED log
    BY DEF Receive, storeVars
  <2> QED
    BY <1>1, <1>4, <2>1, <2>2, WritersGrow DEF PostStep
<1>5. ASSUME \/ Tick \/ UNCHANGED vars
             \/ \E q \in Pods : Crash(q)
             \/ \E d \in Devices : Unlink(d) \/ \E key \in SigningKeys : Link(d, key)
      PROVE  Grown
  BY <1>1, <1>5 DEF Tick, Crash, Unlink, Link, storeVars, vars
<1> QED
  BY <1>2, <1>3, <1>4, <1>5 DEF Next
(* Only CreateApproval starts a log. *)
LEMMA OthersStartNothing ==
  ASSUME TypeOK, [Next]_vars, NEW s \in Requests, log[s] = <<>>, ~CreateApproval(s)
  PROVE  log'[s] = <<>>
<1>1. UNCHANGED log => log'[s] = <<>>
  OBVIOUS
<1>2. ASSUME NEW r \in Requests, r # s, NEW q, NEW doc, Write(q, r, doc) PROVE log'[s] = <<>>
  BY <1>2 DEF Write, TypeOK
<1>3. ASSUME NEW r, NEW v, Replaceable(r, v) PROVE r # s
  BY <1>3 DEF Replaceable
<1>4. ASSUME NEW r \in Requests, CallStep(r) PROVE log'[s] = <<>>
  <2>1. ListDevices(r) \/ ReadBack(r) \/ Notify(r) \/ DisableRead(r) \/ DisableWrite(r) => UNCHANGED log
    BY DEF ListDevices, ReadBack, Notify, DisableRead, DisableWrite, storeVars
  <2>2. Poll(r) \/ FinalRead(r) \/ Decrypt(r) => UNCHANGED log
    BY DEF Poll, FinalRead, Decrypt, storeVars
  <2>3. CASE CreateApproval(r)
    BY <1>2, <2>3 DEF CreateApproval
  <2>4. CASE Close(r)
    BY <1>1, <1>2, <1>3, <2>4 DEF Close, storeVars
  <2> QED
    BY <1>1, <1>4, <2>1, <2>2, <2>3, <2>4 DEF CallStep
<1>5. ASSUME NEW r \in Requests, CallFails(r) \/ Cancel(r) PROVE log'[s] = <<>>
  BY <1>1, <1>5 DEF CallFails, Cancel, storeVars
<1>6. ASSUME NEW p \in Posts, PostStep(p) \/ PostFails(p) \/ \E b \in Bodies : Receive(p, b)
      PROVE  log'[s] = <<>>
  <2>1. LoadApproval(p) \/ LoadDevice(p) \/ PostFails(p) => UNCHANGED log
    BY DEF LoadApproval, LoadDevice, PostFails, storeVars
  <2>2. (\E b \in Bodies : Receive(p, b)) => UNCHANGED log
    BY DEF Receive, storeVars
  <2>3. ASSUME Commit(p) \/ CloseExpired(p) PROVE log'[s] = <<>>
    <3>1. body[p].to \in Requests
      BY <2>3, FlowAssumption DEF Commit, CloseExpired, TypeOK
    <3> QED
      BY <1>1, <1>2, <1>3, <2>3, <3>1 DEF Commit, CloseExpired, storeVars
  <2> QED
    BY <1>1, <1>6, <2>1, <2>2, <2>3 DEF PostStep
<1>7. ASSUME \/ Tick \/ UNCHANGED vars
             \/ \E q \in Pods : Crash(q)
             \/ \E d \in Devices : Unlink(d) \/ \E key \in SigningKeys : Link(d, key)
      PROVE  log'[s] = <<>>
  BY <1>1, <1>7 DEF Tick, Crash, Unlink, Link, storeVars, vars
<1> QED
  BY <1>4, <1>5, <1>6, <1>7 DEF Next

(* A pod never has a version it could not have read or written. *)
LEMMA StepSeen ==
  ASSUME TypeOK, FirstWriterInv, Grown, [Next]_vars PROVE SeenInLog'
<1>0. \A q \in Pods, r \in Requests :
        /\ seen[q][r] \in Nat /\ seen[q][r] <= Len(log[r])
        /\ Len(log[r]) <= Len(log'[r]) /\ Len(log[r]) \in Nat /\ Len(log'[r]) \in Nat
  BY LogLength DEF FirstWriterInv, SeenInLog, TypeOK, Grown
<1>1. ASSUME UNCHANGED seen PROVE SeenInLog'
  BY <1>0, <1>1 DEF SeenInLog
<1>2. ASSUME NEW q \in Pods, NEW r \in Requests, NEW v \in ReadResults(q, r), Saw(q, r, v)
      PROVE  SeenInLog'
  <2>1. v \in Nat /\ v <= Len(log[r])
    BY <1>0, ReadResultsNat
  <2>2. \A p \in Pods, s \in Requests :
          seen'[p][s] = seen[p][s] \/ (p = q /\ s = r /\ seen'[p][s] = v)
    BY <1>2 DEF Saw, TypeOK
  <2> QED
    BY <1>0, <2>1, <2>2 DEF SeenInLog
<1>3. ASSUME NEW q \in Pods, NEW r \in Requests, NEW doc, Write(q, r, doc) PROVE SeenInLog'
  <2>1. Len(log'[r]) = Len(log[r]) + 1
    BY <1>3, LogLength DEF Write, TypeOK
  <2>2. \A p \in Pods, s \in Requests :
          seen'[p][s] = seen[p][s] \/ (p = q /\ s = r /\ seen'[p][s] = Len(log[r]) + 1)
    BY <1>3 DEF Write, TypeOK
  <2> QED
    BY <1>0, <2>1, <2>2 DEF SeenInLog
<1>4. ASSUME NEW r \in Requests, CallStep(r) PROVE SeenInLog'
  <2>0. PodOf[r] \in Pods
    BY FlowAssumption
  <2>1. ListDevices(r) \/ Notify(r) \/ DisableRead(r) \/ DisableWrite(r) \/ Decrypt(r)
          => UNCHANGED seen
    BY DEF ListDevices, Notify, DisableRead, DisableWrite, Decrypt, storeVars
  <2>2. CASE ReadBack(r)
    BY <1>2, <2>0, <2>2 DEF ReadBack
  <2>3. CASE Poll(r)
    BY <1>2, <2>0, <2>3 DEF Poll
  <2>4. CASE FinalRead(r)
    BY <1>2, <2>0, <2>4 DEF FinalRead
  <2>5. CASE CreateApproval(r)
    BY <1>3, <2>0, <2>5 DEF CreateApproval
  <2>6. CASE Close(r)
    BY <1>1, <1>3, <2>0, <2>6 DEF Close, storeVars
  <2> QED
    BY <1>1, <1>4, <2>1, <2>2, <2>3, <2>4, <2>5, <2>6 DEF CallStep
<1>5. ASSUME NEW r \in Requests, CallFails(r) \/ Cancel(r) PROVE SeenInLog'
  BY <1>1, <1>5 DEF CallFails, Cancel, storeVars
<1>6. ASSUME NEW p \in Posts, PostStep(p) \/ PostFails(p) \/ \E b \in Bodies : Receive(p, b)
      PROVE  SeenInLog'
  <2>1. LoadDevice(p) \/ PostFails(p) => UNCHANGED seen
    BY DEF LoadDevice, PostFails, storeVars
  <2>2. (\E b \in Bodies : Receive(p, b)) => UNCHANGED seen
    BY DEF Receive, storeVars
  <2>3. ASSUME LoadApproval(p) \/ Commit(p) \/ CloseExpired(p)
        PROVE  PodOf[p] \in Pods /\ body[p].to \in Requests
    BY <2>3, FlowAssumption DEF LoadApproval, Commit, CloseExpired, TypeOK
  <2>4. CASE LoadApproval(p)
    BY <1>1, <1>2, <2>3, <2>4 DEF LoadApproval
  <2>5. CASE Commit(p)
    BY <1>1, <1>3, <2>3, <2>5 DEF Commit, storeVars
  <2>6. CASE CloseExpired(p)
    BY <1>1, <1>3, <2>3, <2>6 DEF CloseExpired, storeVars
  <2> QED
    BY <1>1, <1>6, <2>1, <2>2, <2>4, <2>5, <2>6 DEF PostStep
<1>7. ASSUME \/ Tick \/ UNCHANGED vars
             \/ \E d \in Devices : Unlink(d) \/ \E key \in SigningKeys : Link(d, key)
      PROVE  SeenInLog'
  BY <1>1, <1>7 DEF Tick, Unlink, Link, storeVars, vars
<1>8. ASSUME NEW q \in Pods, Crash(q) PROVE SeenInLog'
  <2>1. \A p \in Pods, s \in Requests : seen'[p][s] = seen[p][s] \/ seen'[p][s] = 0
    BY <1>8 DEF Crash, TypeOK
  <2> QED
    BY <1>0, <2>1 DEF SeenInLog
<1> QED
  BY <1>4, <1>5, <1>6, <1>7, <1>8 DEF Next

(* How a step may change what a call holds. *)
CallMoves(s) ==
  /\ pc'[s] \in {"idle", "creating"} => pc[s] \in {"idle", "creating"}
  /\ mine'[s] = mine[s] \/ mine'[s] \in 0..Len(log[s])
  /\ pc'[s] = "closing" => target'[s] = 1

LEMMA BeginCloseHoldsFirst ==
  ASSUME TypeOK, FirstWriterInv, NEW r \in Requests, NEW v \in 0..Len(log[r]), NEW result,
         BeginClose(r, v, result)
  PROVE  /\ pc'[r] \in {"closing", "done"}
         /\ pc'[r] = "closing" => target'[r] = 1
<1>1. CASE v # 0 /\ log[r][v].status = "pending"
  <2>1. v \in 1..Len(log[r]) /\ v = 1
    BY <1>1, LogLength DEF FirstWriterInv, SettledOnce
  <2> QED
    BY <1>1, <2>1 DEF BeginClose, Goto, TypeOK
<1>2. CASE ~(v # 0 /\ log[r][v].status = "pending")
  BY <1>2 DEF BeginClose, Goto, TypeOK
<1> QED
  BY <1>1, <1>2

LEMMA AfterDisablingHoldsFirst ==
  ASSUME TypeOK, FirstWriterInv, NEW r \in Requests, NEW rest, NEW ok,
         AfterDisabling(r, rest, ok)
  PROVE  /\ pc'[r] \in {"disabling", "waiting", "closing", "done"}
         /\ pc'[r] = "closing" => target'[r] = 1
<1>1. mine[r] \in 0..Len(log[r])
  BY LogLength DEF FirstWriterInv, CallHoldsFirst, TypeOK
<1>2. CASE BeginClose(r, mine[r], "notifications_unavailable")
  BY <1>1, <1>2, BeginCloseHoldsFirst
<1>3. CASE Goto(r, "disabling") \/ Goto(r, "waiting")
  BY <1>3 DEF Goto, TypeOK
<1> QED
  BY <1>2, <1>3 DEF AfterDisabling
(* An action of one call leaves the other calls alone. *)
LEMMA OtherCallsKept ==
  ASSUME TypeOK, NEW r \in Requests, NEW s \in Requests, s # r,
       CallStep(r) \/ CallFails(r) \/ Cancel(r)
  PROVE  pc'[s] = pc[s] /\ mine'[s] = mine[s] /\ target'[s] = target[s]
<1>0. ASSUME NEW label, Goto(r, label) PROVE pc'[s] = pc[s]
  BY <1>0 DEF Goto, TypeOK
<1>1. ASSUME NEW x, Finish(r, x) PROVE pc'[s] = pc[s]
  BY <1>0, <1>1 DEF Finish
<1>2. ASSUME NEW v, NEW o, BeginClose(r, v, o) PROVE pc'[s] = pc[s] /\ target'[s] = target[s]
  BY <1>2 DEF BeginClose, Goto, TypeOK
<1>3. ASSUME NEW rest, NEW ok, AfterDisabling(r, rest, ok)
      PROVE  pc'[s] = pc[s] /\ target'[s] = target[s]
  BY <1>0, <1>1, <1>2, <1>3 DEF AfterDisabling
<1>4. ASSUME NEW v, Conclude(r, v) PROVE pc'[s] = pc[s] /\ mine'[s] = mine[s]
  <2>1. (\E x : Finish(r, x)) \/ (\E o : Goto(r, o))
    BY <1>4 DEF Conclude
  <2>2. mine' = [mine EXCEPT ![r] = v]
    BY <1>4 DEF Conclude
  <2> QED
    BY <1>0, <1>1, <2>1, <2>2 DEF TypeOK
<1>5. CASE ListDevices(r) \/ CreateApproval(r) \/ Close(r) \/ Decrypt(r) \/ CallFails(r)
  <2>1. (\E x : Finish(r, x)) \/ (\E o : Goto(r, o))
    BY <1>5 DEF ListDevices, CreateApproval, Close, Decrypt, CallFails
  <2>2. mine' = mine /\ target' = target
    BY <1>5 DEF ListDevices, CreateApproval, Close, Decrypt, CallFails
  <2> QED
    BY <1>0, <1>1, <2>1, <2>2
<1>6. CASE ReadBack(r)
  BY <1>0, <1>1, <1>6 DEF ReadBack, TypeOK
<1>7. CASE Notify(r)
  BY <1>2, <1>3, <1>7 DEF Notify
<1>8. CASE DisableRead(r)
  BY <1>0, <1>1, <1>3, <1>8 DEF DisableRead
<1>9. CASE DisableWrite(r)
  BY <1>3, <1>9 DEF DisableWrite
<1>10. CASE Poll(r)
  BY <1>0, <1>1, <1>4, <1>10 DEF Poll
<1>11. CASE FinalRead(r)
  BY <1>2, <1>4, <1>11 DEF FinalRead
<1>12. CASE Cancel(r)
  BY <1>0, <1>1, <1>2, <1>12 DEF Cancel
<1> QED
  BY <1>5, <1>6, <1>7, <1>8, <1>9, <1>10, <1>11, <1>12 DEF CallStep

LEMMA CallMovesItself ==
  ASSUME TypeOK, FirstWriterInv, NEW r \in Requests, CallStep(r) \/ CallFails(r) \/ Cancel(r)
  PROVE  CallMoves(r)
<1>0. mine[r] \in 0..Len(log[r]) /\ ReadResults(PodOf[r], r) \subseteq 0..Len(log[r])
  <2>1. PodOf[r] \in Pods
    BY FlowAssumption
  <2> QED
    BY <2>1, LogLength, ReadResultsNat DEF FirstWriterInv, CallHoldsFirst, TypeOK
<1>1. ASSUME NEW o, Finish(r, o) PROVE pc'[r] = "done"
  BY <1>1 DEF Finish, Goto, TypeOK
<1>2. ASSUME NEW l, Goto(r, l) PROVE pc'[r] = l
  BY <1>2 DEF Goto, TypeOK
<1>3. ASSUME NEW v \in 0..Len(log[r]), Conclude(r, v)
      PROVE  mine'[r] = v /\ pc'[r] \in {"done", "decrypting"}
  BY <1>1, <1>2, <1>3 DEF Conclude, TypeOK
<1>4. CASE ListDevices(r)
  BY <1>1, <1>2, <1>4 DEF ListDevices, CallMoves
<1>5. CASE CreateApproval(r) \/ Close(r)
  BY <1>2, <1>5 DEF CreateApproval, Close, CallMoves
<1>6. CASE ReadBack(r)
  <2> PICK v \in ReadResults(PodOf[r], r) : ReadBack(r)!2!(v)
    BY <1>6 DEF ReadBack
  <2>1. pc'[r] \in {"done", "notifying"}
    BY <1>1, <1>2
  <2>2. mine' = mine \/ mine' = [mine EXCEPT ![r] = v]
    OBVIOUS
  <2> QED
    BY <1>0, <2>1, <2>2 DEF CallMoves, TypeOK
<1>7. CASE Notify(r)
  <2>1. mine' = mine
    BY <1>7 DEF Notify
  <2>2. /\ pc'[r] \in {"disabling", "waiting", "closing", "done"}
        /\ pc'[r] = "closing" => target'[r] = 1
    BY <1>0, <1>7, BeginCloseHoldsFirst, AfterDisablingHoldsFirst DEF Notify
  <2> QED
    BY <2>1, <2>2 DEF CallMoves
<1>8. CASE DisableRead(r)
  <2>1. mine' = mine
    BY <1>8 DEF DisableRead
  <2>2. /\ pc'[r] \in {"disabling", "waiting", "closing", "done", "disable_write"}
        /\ pc'[r] = "closing" => target'[r] = 1
    BY <1>2, <1>8, AfterDisablingHoldsFirst DEF DisableRead
  <2> QED
    BY <2>1, <2>2 DEF CallMoves
<1>9. CASE DisableWrite(r)
  BY <1>9, AfterDisablingHoldsFirst DEF DisableWrite, CallMoves
<1>10. CASE Poll(r)
  <2> PICK v \in ReadResults(PodOf[r], r) : Poll(r)!2!(v)
    BY <1>10 DEF Poll
  <2>1. CASE UNCHANGED <<pc, outcome, mine>>
    BY <1>10, <2>1 DEF CallMoves, Poll
  <2>2. CASE Conclude(r, v)
    BY <1>0, <1>3, <2>2 DEF CallMoves
  <2>3. ASSUME NEW o, Finish(r, o), UNCHANGED mine PROVE CallMoves(r)
    BY <1>1, <2>3 DEF CallMoves
  <2> QED
    BY <2>1, <2>2, <2>3
<1>11. CASE FinalRead(r)
  <2> PICK v \in ReadResults(PodOf[r], r) : FinalRead(r)!2!(v)
    BY <1>11 DEF FinalRead
  <2>1. CASE Conclude(r, v)
    BY <1>0, <1>3, <2>1 DEF CallMoves
  <2>2. CASE BeginClose(r, v, "approval_timed_out") /\ UNCHANGED mine
    BY <1>0, <2>2, BeginCloseHoldsFirst DEF CallMoves
  <2> QED
    BY <2>1, <2>2
<1>12. CASE Decrypt(r) \/ CallFails(r)
  <2>1. (\E o : Finish(r, o)) /\ mine' = mine
    BY <1>12 DEF Decrypt, CallFails
  <2> QED
    BY <1>1, <2>1 DEF CallMoves
<1>13. CASE Cancel(r)
  <2>1. mine' = mine
    BY <1>13 DEF Cancel
  <2>2. CASE BeginClose(r, mine[r], "cancelled")
    BY <1>0, <2>1, <2>2, BeginCloseHoldsFirst DEF CallMoves
  <2>3. CASE Finish(r, "abandoned") \/ Finish(r, "cancelled")
    BY <1>1, <2>1, <2>3 DEF CallMoves
  <2> QED
    BY <1>13, <2>2, <2>3 DEF Cancel
<1> QED
  BY <1>4, <1>5, <1>6, <1>7, <1>8, <1>9, <1>10, <1>11, <1>12, <1>13 DEF CallStep

LEMMA StepCalls ==
  ASSUME TypeOK, FirstWriterInv, Grown, [Next]_vars, NEW s \in Requests
  PROVE  CallHoldsFirst(s)'
<1>1. CallMoves(s)
  <2>1. ASSUME NEW r \in Requests, CallStep(r) \/ CallFails(r) \/ Cancel(r) PROVE CallMoves(s)
    BY <2>1, CallMovesItself, OtherCallsKept DEF CallMoves, FirstWriterInv, CallHoldsFirst
  <2>2. ASSUME UNCHANGED callVars PROVE CallMoves(s)
    BY <2>2 DEF callVars, CallMoves, FirstWriterInv, CallHoldsFirst
  <2>3. ASSUME NEW p \in Posts, PostStep(p) \/ PostFails(p) \/ \E b \in Bodies : Receive(p, b)
        PROVE  UNCHANGED callVars
    BY <2>3 DEF PostStep, LoadApproval, LoadDevice, Commit, CloseExpired, PostFails, Receive
  <2>4. ASSUME NEW q \in Pods, Crash(q) PROVE CallMoves(s)
    BY <2>4 DEF Crash, CallMoves, FirstWriterInv, CallHoldsFirst, TypeOK
  <2>5. ASSUME \/ Tick \/ UNCHANGED vars
               \/ \E d \in Devices : Unlink(d) \/ \E key \in SigningKeys : Link(d, key)
        PROVE  UNCHANGED callVars
    BY <2>5 DEF Tick, Unlink, Link, vars
  <2> QED
    BY <2>1, <2>2, <2>3, <2>4, <2>5 DEF Next
<1>2. pc'[s] \in {"idle", "creating"} => log'[s] = <<>>
  <2>1. CreateApproval(s) => pc'[s] = "reading_back"
    BY DEF CreateApproval, Goto, TypeOK
  <2> QED
    BY <1>1, <2>1, OthersStartNothing DEF CallMoves, FirstWriterInv, CallHoldsFirst
<1>3. mine'[s] <= Len(log'[s])
  <2>1. /\ mine[s] \in Nat /\ mine[s] <= Len(log[s]) /\ Len(log[s]) \in Nat
        /\ Len(log'[s]) \in Nat /\ Len(log[s]) <= Len(log'[s])
    BY LogLength DEF Grown, FirstWriterInv, CallHoldsFirst, TypeOK
  <2> QED
    BY <1>1, <2>1 DEF CallMoves
<1> QED
  BY <1>1, <1>2, <1>3 DEF CallMoves, CallHoldsFirst
(* A version that exists stays, so what a POST holds stays true unless the *)
(* POST itself moves.                                                      *)
LEMMA PostKept ==
  ASSUME TypeOK, FirstWriterInv, Grown, NEW p \in Posts,
         ppc'[p] = ppc[p] \/ (ppc[p] \notin {"idle", "done"} /\ ppc'[p] = "crashed"),
         body'[p] = body[p], held'[p] = held[p], reply'[p] = reply[p]
  PROVE  PostHoldsFirst(p)'
<1>1. PostHoldsFirst(p)
  BY DEF FirstWriterInv
<1>2. CASE ppc[p] = "idle"
  BY <1>1, <1>2 DEF PostHoldsFirst
<1>3. CASE ppc[p] # "idle"
  <2>1. body[p].to \in Requests /\ held[p] \in Nat
    BY <1>3, FlowAssumption DEF TypeOK
  <2>2. /\ Len(log[body[p].to]) \in Nat /\ Len(log'[body[p].to]) \in Nat
        /\ Len(log[body[p].to]) <= Len(log'[body[p].to]) /\ Len(log'[body[p].to]) <= 2
        /\ \A v \in 1..Len(log[body[p].to]) : log'[body[p].to][v] = log[body[p].to][v]
    BY <2>1, LogLength DEF Grown, SettledOnce
  <2>3. ASSUME reply[p] = 200
        PROVE  /\ Len(log'[body[p].to]) = 2
               /\ SameDecision(log'[body[p].to][2], body[p])
    BY <1>1, <2>2, <2>3 DEF PostHoldsFirst
  <2>4. ppc'[p] # "idle" /\ held'[p] <= Len(log'[body[p].to])
    BY <1>1, <1>3, <2>1, <2>2 DEF PostHoldsFirst
  <2> QED
    BY <1>1, <1>3, <2>3, <2>4 DEF PostHoldsFirst, SameDecision
<1> QED
  BY <1>2, <1>3

LEMMA OnlyTwo ==
  ASSUME NEW h \in Nat, NEW n \in Nat, h # 0, h # 1, h <= n, n <= 2 PROVE h = 2 /\ n = 2
OBVIOUS

LEMMA PostMoves ==
  ASSUME TypeOK, FirstWriterInv, Grown, NEW p \in Posts,
         PostStep(p) \/ PostFails(p) \/ \E b \in Bodies : Receive(p, b)
  PROVE  PostHoldsFirst(p)'
<1>1. PostHoldsFirst(p) /\ held[p] \in Nat
  BY DEF FirstWriterInv, TypeOK
<1>2. ASSUME NEW code, Answer(p, code) PROVE ppc'[p] = "done" /\ reply'[p] = code
  BY <1>2 DEF Answer, TypeOK
<1>3. \A r \in Requests :
        /\ Len(log[r]) \in Nat /\ Len(log'[r]) \in Nat /\ Len(log[r]) <= Len(log'[r])
        /\ Len(log'[r]) <= 2
        /\ \A v \in 1..Len(log[r]) : log'[r][v] = log[r][v]
  BY LogLength DEF Grown, SettledOnce
<1>4. CASE \E b \in Bodies : Receive(p, b)
  <2> PICK b \in Bodies : Receive(p, b)
    BY <1>4
  <2>1. held'[p] = 0 /\ body'[p] = b /\ b.to \in Requests
    BY <1>1, FlowAssumption DEF Receive, PostHoldsFirst, TypeOK
  <2>2. \/ ppc'[p] = "done" /\ reply'[p] = 400
        \/ ppc'[p] = "load_approval" /\ reply'[p] = 0
    BY <1>1, <1>2 DEF Receive, PostHoldsFirst, TypeOK
  <2> QED
    BY <1>3, <2>1, <2>2 DEF PostHoldsFirst
<1>5. ASSUME PostStep(p) \/ PostFails(p) PROVE PostHoldsFirst(p)'
  <2>0. /\ ppc[p] # "idle" /\ ppc[p] # "done" /\ reply[p] = 0 /\ body' = body
        /\ body[p] \in Bodies /\ body[p].to \in Requests /\ body[p].decision \in Decided
    <3>1. ppc[p] # "idle" /\ ppc[p] # "done" /\ body' = body
      BY <1>5 DEF PostStep, PostFails, LoadApproval, LoadDevice, Commit, CloseExpired
    <3> QED
      BY <1>1, <3>1, FlowAssumption DEF PostHoldsFirst, TypeOK, Decided
  <2>1. CASE LoadApproval(p)
    <3>1. ppc'[p] = "load_device" /\ reply'[p] = 0
      BY <2>0, <2>1 DEF LoadApproval, TypeOK
    <3>2. held'[p] \in 0..Len(log[body[p].to])
      <4>1. CASE UNCHANGED held
        BY <1>1, <2>0, <4>1, LogLength DEF PostHoldsFirst
      <4>2. CASE \E v \in ReadResults(PodOf[p], body[p].to) : held' = [held EXCEPT ![p] = v]
        <5> PICK v \in ReadResults(PodOf[p], body[p].to) : held' = [held EXCEPT ![p] = v]
          BY <4>2
        <5>0. held'[p] = v
          BY DEF TypeOK
        <5>1. PodOf[p] \in Pods
          BY FlowAssumption
        <5>2. ReadResults(PodOf[p], body[p].to) \subseteq 0..Len(log[body[p].to])
          BY <2>0, <5>1, ReadResultsNat
        <5> QED
          BY <5>0, <5>2
      <4>3. \/ UNCHANGED held
            \/ \E v \in ReadResults(PodOf[p], body[p].to) : held' = [held EXCEPT ![p] = v]
        BY <2>1 DEF LoadApproval
      <4> QED
        BY <4>1, <4>2, <4>3
    <3> QED
      BY <1>3, <2>0, <3>1, <3>2 DEF PostHoldsFirst
  <2>2. CASE LoadDevice(p)
    <3> DEFINE doc == log[body[p].to][held[p]]
    <3>1. held' = held /\ log' = log
      BY <2>2 DEF LoadDevice, storeVars
    <3>2. ASSUME held[p] # 0 PROVE (doc.status = "pending") <=> held[p] = 1
      BY <1>1, <1>3, <2>0, <3>2 DEF PostHoldsFirst, FirstWriterInv, SettledOnce
    <3>3. \/ ppc'[p] = "done" /\ reply'[p] \in {400, 409}
          \/ /\ ppc'[p] = "done" /\ reply'[p] = 200 /\ held[p] # 0
             /\ doc.status # "pending" /\ SameDecision(doc, body[p])
          \/ /\ ppc'[p] \in {"closing", "committing"} /\ reply'[p] = 0
             /\ held[p] # 0 /\ doc.status = "pending"
      BY <1>2, <2>0, <2>2 DEF LoadDevice, TypeOK
    <3>4. held[p] <= Len(log[body[p].to])
      BY <1>1, <2>0 DEF PostHoldsFirst
    <3>5. CASE reply'[p] = 200
      <4>1. held[p] = 2 /\ Len(log[body[p].to]) = 2
        <5>1. held[p] # 0 /\ doc.status # "pending"
          BY <3>3, <3>5
        <5>2. held[p] # 1
          BY <3>2, <5>1
        <5>3. Len(log[body[p].to]) \in Nat /\ Len(log[body[p].to]) <= 2
          BY <1>3, <2>0
        <5>4. held[p] \in Nat /\ held[p] # 0
          BY <1>1, <5>1
        <5> QED
          BY <3>4, <5>2, <5>3, <5>4, OnlyTwo
      <4> QED
        BY <2>0, <3>1, <3>3, <3>5, <4>1 DEF PostHoldsFirst, SameDecision
    <3>6. CASE reply'[p] # 200
      BY <2>0, <3>1, <3>2, <3>3, <3>4, <3>6 DEF PostHoldsFirst
    <3> QED
      BY <3>5, <3>6
  <2>3. CASE Commit(p)
    <3>1. held'[p] = 1 /\ ppc'[p] = "done" /\ held' = held
      BY <1>1, <1>2, <2>3 DEF Commit, PostHoldsFirst
    <3>2. held'[p] <= Len(log'[body[p].to])
      BY <1>1, <1>3, <2>0, <3>1 DEF PostHoldsFirst
    <3>3. ASSUME reply'[p] = 200
          PROVE  /\ Len(log'[body[p].to]) = 2
                 /\ SameDecision(log'[body[p].to][2], body[p])
      <4> DEFINE doc == [status |-> body[p].decision, body |-> body[p], ts |-> now]
      <4>1. Replaceable(body[p].to, held[p]) /\ Write(PodOf[p], body[p].to, doc)
        BY <1>2, <2>3, <3>3 DEF Commit
      <4>2. Len(log[body[p].to]) = 1 /\ log[body[p].to] \in Seq(Documents)
        BY <2>0, <3>1, <4>1, LogLength DEF Replaceable
      <4>3. log'[body[p].to] = Append(log[body[p].to], doc)
        BY <2>0, <4>1 DEF Write, TypeOK
      <4>4. Len(log'[body[p].to]) = 2 /\ log'[body[p].to][2] = doc
        BY <4>2, <4>3
      <4> QED
        BY <4>4 DEF SameDecision
    <3> QED
      BY <2>0, <3>1, <3>2, <3>3 DEF PostHoldsFirst, SameDecision
  <2>4. CASE CloseExpired(p)
    <3>1. held' = held /\ ppc'[p] = "done" /\ reply'[p] = 409
      BY <1>2, <2>4 DEF CloseExpired
    <3> QED
      BY <1>1, <1>3, <2>0, <3>1 DEF PostHoldsFirst
  <2>5. CASE PostFails(p)
    <3>1. held' = held /\ ppc'[p] = "done" /\ reply'[p] = 503
      BY <1>2, <2>5 DEF PostFails
    <3> QED
      BY <1>1, <1>3, <2>0, <3>1 DEF PostHoldsFirst
  <2> QED
    BY <1>5, <2>1, <2>2, <2>3, <2>4, <2>5 DEF PostStep
<1> QED
  BY <1>4, <1>5
LEMMA StepPosts ==
  ASSUME TypeOK, FirstWriterInv, Grown, [Next]_vars, NEW s \in Posts
  PROVE  PostHoldsFirst(s)'
<1>1. ASSUME ppc'[s] = ppc[s], body'[s] = body[s], held'[s] = held[s], reply'[s] = reply[s]
      PROVE  PostHoldsFirst(s)'
  BY <1>1, PostKept
<1>2. ASSUME NEW p \in Posts, PostStep(p) \/ PostFails(p) \/ \E b \in Bodies : Receive(p, b)
      PROVE  PostHoldsFirst(s)'
  <2>1. CASE s = p
    BY <1>2, <2>1, PostMoves
  <2>2. ASSUME s # p, NEW code, Answer(p, code) PROVE ppc'[s] = ppc[s] /\ reply'[s] = reply[s]
    BY <2>2 DEF Answer, TypeOK
  <2>3. CASE s # p /\ \E b \in Bodies : Receive(p, b)
    BY <1>1, <2>2, <2>3 DEF Receive, TypeOK
  <2>4. CASE s # p /\ LoadApproval(p)
    <3>1. ppc'[s] = ppc[s] /\ body' = body /\ reply' = reply
      BY <2>4 DEF LoadApproval, TypeOK
    <3>2. held'[s] = held[s]
      BY <2>4 DEF LoadApproval, TypeOK
    <3> QED
      BY <1>1, <3>1, <3>2
  <2>5. CASE s # p /\ LoadDevice(p)
    <3>1. body' = body /\ held' = held
      BY <2>5 DEF LoadDevice
    <3>2. \/ \E code : Answer(p, code)
          \/ \E label : ppc' = [ppc EXCEPT ![p] = label] /\ UNCHANGED reply
      BY <2>5 DEF LoadDevice
    <3>3. ppc'[s] = ppc[s] /\ reply'[s] = reply[s]
      BY <2>2, <2>5, <3>2 DEF TypeOK
    <3> QED
      BY <1>1, <3>1, <3>3
  <2>6. CASE s # p /\ (Commit(p) \/ CloseExpired(p) \/ PostFails(p))
    <3>1. (\E code : Answer(p, code)) /\ body' = body /\ held' = held
      BY <2>6 DEF Commit, CloseExpired, PostFails
    <3> QED
      BY <1>1, <2>2, <2>6, <3>1
  <2> QED
    BY <1>2, <2>1, <2>3, <2>4, <2>5, <2>6 DEF PostStep
<1>3. ASSUME UNCHANGED postVars PROVE PostHoldsFirst(s)'
  BY <1>1, <1>3 DEF postVars
<1>4. ASSUME NEW r \in Requests, CallStep(r) PROVE UNCHANGED postVars
  BY <1>4 DEF CallStep, ListDevices, CreateApproval, ReadBack, Notify, DisableRead, DisableWrite,
              Poll, FinalRead, Close, Decrypt
<1>5. ASSUME \/ Tick \/ UNCHANGED vars
             \/ \E r \in Requests : CallFails(r) \/ Cancel(r)
             \/ \E d \in Devices : Unlink(d) \/ \E key \in SigningKeys : Link(d, key)
      PROVE  UNCHANGED postVars
  BY <1>5 DEF Tick, CallFails, Cancel, Unlink, Link, vars
<1>6. ASSUME NEW q \in Pods, Crash(q) PROVE PostHoldsFirst(s)'
  <2>1. /\ ppc'[s] = ppc[s] \/ (ppc[s] \notin {"idle", "done"} /\ ppc'[s] = "crashed")
        /\ body'[s] = body[s] /\ held'[s] = held[s] /\ reply'[s] = reply[s]
    BY <1>6 DEF Crash
  <2> QED
    BY <2>1, PostKept
<1> QED
  BY <1>2, <1>3, <1>4, <1>5, <1>6 DEF Next

(* A handler that is about to write an approval holds its pending version, *)
(* so every write after the first of the two finds it replaced.            *)
THEOREM FirstWriterCorrect == Spec => []FirstWriterInv
<1>1. Init => FirstWriterInv
  <2> SUFFICES ASSUME Init PROVE FirstWriterInv
    OBVIOUS
  <2>1. SettledOnce /\ SeenInLog
    BY DEF Init, SettledOnce, SeenInLog
  <2>2. ASSUME NEW r \in Requests PROVE CallHoldsFirst(r)
    BY DEF Init, CallHoldsFirst
  <2>3. ASSUME NEW p \in Posts PROVE PostHoldsFirst(p)
    BY DEF Init, PostHoldsFirst
  <2> QED
    BY <2>1, <2>2, <2>3 DEF FirstWriterInv
<1>2. TypeOK /\ FirstWriterInv /\ [Next]_vars => FirstWriterInv'
  <2> SUFFICES ASSUME TypeOK, FirstWriterInv, [Next]_vars PROVE FirstWriterInv'
    OBVIOUS
  <2>1. Grown
    BY StepGrows
  <2> QED
    BY <2>1, StepSeen, StepCalls, StepPosts DEF FirstWriterInv, Grown
<1> QED
  BY <1>1, <1>2, TypeCorrect, PTL DEF Spec

(* However many calls, POSTs, pods and time-outs race for an approval, it  *)
(* is written at most twice: pending, then one settled version.            *)
THEOREM EveryApprovalSettledOnce == Spec => []SettledOnce
<1>1. FirstWriterInv => SettledOnce
  BY DEF FirstWriterInv
<1> QED
  BY <1>1, FirstWriterCorrect, PTL

(* A phone that was answered 200 sent the decision that stands.            *)
THEOREM EveryAckedDecisionStands == Spec => []AckedDecisionStands
<1>1. TypeOK /\ FirstWriterInv => AckedDecisionStands
  <2> SUFFICES ASSUME TypeOK, FirstWriterInv, NEW p \in Posts, reply[p] = 200
               PROVE  /\ log[body[p].to] # <<>>
                      /\ SameDecision(Verdict(body[p].to), body[p])
    BY DEF AckedDecisionStands
  <2>1. PostHoldsFirst(p) /\ ppc[p] = "done"
    BY DEF FirstWriterInv, PostHoldsFirst
  <2>2. body[p].to \in Requests
    BY <2>1, FlowAssumption DEF TypeOK
  <2> QED
    BY <2>1, <2>2, LogLength DEF PostHoldsFirst, Verdict, SameDecision
<1> QED
  BY <1>1, TypeCorrect, FirstWriterCorrect, PTL

----------------------------------------------------------------------------
(* Values are released only for a certified decision on record. *)

(* What is on record stays. *)
LEMMA RecordStays ==
  ASSUME TypeOK, Grown, NEW r \in Requests, Len(log[r]) = 2
  PROVE  Len(log'[r]) = 2 /\ log'[r][2] = log[r][2]
BY LogLength DEF Grown, SettledOnce

(* A second version is a closing, or the decision of a POST that commits.  *)
LEMMA NewVerdict ==
  ASSUME TypeOK, FirstWriterInv, [Next]_vars, NEW r \in Requests,
         Len(log[r]) # 2, Len(log'[r]) = 2
  PROVE  \/ log'[r][2].status \notin Decided
         \/ \E p \in Posts :
              /\ ppc[p] = "committing" /\ body[p].to = r
              /\ log'[r][2] = [status |-> body[p].decision, body |-> body[p], ts |-> now]
<1> DEFINE Goal == \/ log'[r][2].status \notin Decided
                   \/ \E p \in Posts :
                        /\ ppc[p] = "committing" /\ body[p].to = r
                        /\ log'[r][2] = [status |-> body[p].decision, body |-> body[p], ts |-> now]
<1> HIDE DEF Goal
<1>1. UNCHANGED log => Goal
  OBVIOUS
<1>2. ASSUME NEW s \in Requests, NEW q, NEW doc, Write(q, s, doc)
      PROVE  s = r /\ log'[r][2] = doc
  <2>1. log' = [log EXCEPT ![s] = Append(@, doc)]
    BY <1>2 DEF Write
  <2>2. s = r /\ log'[r] = Append(log[r], doc)
    BY <2>1 DEF TypeOK
  <2> QED
    BY <2>2, LogLength
<1>3. ASSUME NEW s \in Requests, CallStep(s) PROVE Goal
  <2>1. ListDevices(s) \/ ReadBack(s) \/ Notify(s) \/ DisableRead(s) \/ DisableWrite(s)
          => UNCHANGED log
    BY DEF ListDevices, ReadBack, Notify, DisableRead, DisableWrite, storeVars
  <2>2. Poll(s) \/ FinalRead(s) \/ Decrypt(s) => UNCHANGED log
    BY DEF Poll, FinalRead, Decrypt, storeVars
  <2>3. ASSUME CreateApproval(s) \/ Close(s), ~UNCHANGED log
        PROVE  \E status \in {"pending", "expired", "cancelled"} :
                 Write(PodOf[s], s, Undecided(status))
    BY <2>3 DEF CreateApproval, Close, storeVars
  <2>4. ASSUME NEW status \in {"pending", "expired", "cancelled"},
               Write(PodOf[s], s, Undecided(status))
        PROVE  Goal
    <3>1. log'[r][2] = Undecided(status)
      BY <1>2, <2>4
    <3> QED
      BY <3>1 DEF Undecided, Decided, Goal
  <2> QED
    BY <1>1, <1>3, <2>1, <2>2, <2>3, <2>4 DEF CallStep
<1>4. ASSUME NEW p \in Posts, PostStep(p) \/ PostFails(p) \/ \E b \in Bodies : Receive(p, b)
      PROVE  Goal
  <2>1. LoadApproval(p) \/ LoadDevice(p) \/ PostFails(p) => UNCHANGED log
    BY DEF LoadApproval, LoadDevice, PostFails, storeVars
  <2>2. (\E b \in Bodies : Receive(p, b)) => UNCHANGED log
    BY DEF Receive, storeVars
  <2>3. Commit(p) \/ CloseExpired(p) => body[p].to \in Requests
    BY FlowAssumption DEF Commit, CloseExpired, TypeOK
  <2>4. CASE Commit(p)
    <3>1. CASE UNCHANGED storeVars
      BY <1>1, <3>1 DEF storeVars
    <3>2. CASE Write(PodOf[p], body[p].to,
                     [status |-> body[p].decision, body |-> body[p], ts |-> now])
      BY <1>2, <2>3, <2>4, <3>2 DEF Commit, Goal
    <3> QED
      BY <2>4, <3>1, <3>2 DEF Commit
  <2>5. CASE CloseExpired(p)
    <3>1. CASE UNCHANGED storeVars
      BY <1>1, <3>1 DEF storeVars
    <3>2. CASE Write(PodOf[p], body[p].to, Undecided("expired"))
      <4>1. log'[r][2] = Undecided("expired")
        BY <1>2, <2>3, <2>5, <3>2
      <4> QED
        BY <4>1 DEF Undecided, Decided, Goal
    <3> QED
      BY <2>5, <3>1, <3>2 DEF CloseExpired
  <2> QED
    BY <1>1, <1>4, <2>1, <2>2, <2>4, <2>5 DEF PostStep
<1>5. ASSUME \/ Tick \/ UNCHANGED vars
             \/ \E s \in Requests : CallFails(s) \/ Cancel(s)
             \/ \E q \in Pods : Crash(q)
             \/ \E d \in Devices : Unlink(d) \/ \E key \in SigningKeys : Link(d, key)
      PROVE  UNCHANGED log
  BY <1>5 DEF Tick, CallFails, Cancel, Crash, Unlink, Link, storeVars, vars
<1>6. Goal
  BY <1>1, <1>3, <1>4, <1>5 DEF Next
<1> QED
  BY <1>6 DEF Goal

LEMMA RecordStep ==
  ASSUME TypeOK, FirstWriterInv, ReleaseInv, Grown, [Next]_vars, NEW r \in Requests
  PROVE  RecordCertified(r)'
<1>1. CASE Len(log[r]) = 2
  <2>1. Len(log'[r]) = 2 /\ log'[r][2] = log[r][2] /\ RecordCertified(r)
    BY <1>1, RecordStays DEF ReleaseInv
  <2> QED
    BY <1>1, <2>1 DEF RecordCertified, Certified, Acceptable, SignatureVerifies
<1>2. CASE Len(log[r]) # 2 /\ Len(log'[r]) = 2 /\ log'[r][2].status \in Decided
  <2> PICK p \in Posts :
             /\ ppc[p] = "committing" /\ body[p].to = r
             /\ log'[r][2] = [status |-> body[p].decision, body |-> body[p], ts |-> now]
    BY <1>2, NewVerdict
  <2>1. Certified(r, body[p])
    BY DEF ReleaseInv, PostCertified
  <2>2. log'[r][2].body = body[p] /\ log'[r][2].status = body[p].decision
    OBVIOUS
  <2> QED
    BY <2>1, <2>2 DEF RecordCertified, Certified, Acceptable, SignatureVerifies
<1> QED
  BY <1>1, <1>2 DEF RecordCertified
(* Only a call that read an approved version goes on to decrypt. *)
LEMMA OnlyApprovedDecrypts ==
  ASSUME TypeOK, FirstWriterInv, NEW r \in Requests,
         CallStep(r) \/ CallFails(r) \/ Cancel(r), pc'[r] = "decrypting"
  PROVE  (pc[r] = "decrypting" /\ mine'[r] = mine[r]) \/ (ApprovedOnRecord(r) /\ mine'[r] = 2)
<1>1. ASSUME NEW o, Finish(r, o) PROVE FALSE
  BY <1>1 DEF Finish, Goto, TypeOK
<1>2. ASSUME NEW label, Goto(r, label), label # "decrypting" PROVE FALSE
  BY <1>2 DEF Goto, TypeOK
<1>3. ASSUME NEW v, NEW o, BeginClose(r, v, o) PROVE FALSE
  BY <1>3, <1>2 DEF BeginClose
<1>4. ASSUME NEW rest, NEW ok, AfterDisabling(r, rest, ok) PROVE FALSE
  BY <1>2, <1>3, <1>4 DEF AfterDisabling
<1>5. ASSUME NEW v \in ReadResults(PodOf[r], r), v # 0, Conclude(r, v)
      PROVE  ApprovedOnRecord(r) /\ mine'[r] = 2
  <2>1. mine'[r] = v
    BY <1>5 DEF Conclude, TypeOK
  <2>2. log[r][v].status = "approved"
    BY <1>1, <1>5 DEF Conclude
  <2>3. PodOf[r] \in Pods
    BY FlowAssumption
  <2>4. v \in Nat /\ v <= Len(log[r]) /\ Len(log[r]) \in Nat /\ Len(log[r]) <= 2
    BY <2>3, ReadResultsNat DEF FirstWriterInv, SettledOnce
  <2>5. v # 1
    BY <1>5, <2>2, <2>4 DEF FirstWriterInv, SettledOnce
  <2>6. v = 2 /\ Len(log[r]) = 2
    BY <1>5, <2>4, <2>5, OnlyTwo
  <2> QED
    BY <2>1, <2>2, <2>6 DEF ApprovedOnRecord
<1>6. CASE ListDevices(r)
  BY <1>1, <1>2, <1>6 DEF ListDevices
<1>7. CASE CreateApproval(r) \/ Close(r)
  BY <1>2, <1>7 DEF CreateApproval, Close
<1>8. CASE ReadBack(r)
  BY <1>1, <1>2, <1>8 DEF ReadBack
<1>9. CASE Notify(r)
  BY <1>3, <1>4, <1>9 DEF Notify
<1>10. CASE DisableRead(r)
  BY <1>2, <1>4, <1>10 DEF DisableRead
<1>11. CASE DisableWrite(r)
  BY <1>4, <1>11 DEF DisableWrite
<1>12. CASE Poll(r)
  <2> PICK v \in ReadResults(PodOf[r], r) : Poll(r)!2!(v)
    BY <1>12 DEF Poll
  <2>1. CASE pc' = pc
    BY <1>12, <2>1 DEF Poll
  <2> QED
    BY <1>1, <1>5, <2>1
<1>13. CASE FinalRead(r)
  <2> PICK v \in ReadResults(PodOf[r], r) : FinalRead(r)!2!(v)
    BY <1>13 DEF FinalRead
  <2> QED
    BY <1>3, <1>5
<1>14. CASE Decrypt(r) \/ CallFails(r)
  <2>1. \E o : Finish(r, o)
    BY <1>14 DEF Decrypt, CallFails
  <2> QED
    BY <1>1, <2>1
<1>15. CASE Cancel(r)
  BY <1>1, <1>3, <1>15 DEF Cancel
<1> QED
  BY <1>6, <1>7, <1>8, <1>9, <1>10, <1>11, <1>12, <1>13, <1>14, <1>15 DEF CallStep

(* Only a decryption that was accepted releases anything. *)
LEMMA OnlyDecryptReleases ==
  ASSUME TypeOK, [Next]_vars, NEW s \in Requests
  PROVE  \/ released'[s] = released[s]
         \/ /\ pc[s] = "decrypting"
            /\ released'[s] = log[s][mine[s]].body.result.jwe.plain.fields
            /\ KeysOf(released'[s]) = log[s][mine[s]].body.result.approved
<1>1. ASSUME NEW r \in Requests, CallStep(r), ~Decrypt(r) PROVE UNCHANGED released
  BY <1>1 DEF CallStep, ListDevices, CreateApproval, ReadBack, Notify, DisableRead, DisableWrite,
              Poll, FinalRead, Close
<1>2. ASSUME NEW p \in Posts, PostStep(p) \/ PostFails(p) \/ \E b \in Bodies : Receive(p, b)
      PROVE  UNCHANGED released
  BY <1>2 DEF PostStep, LoadApproval, LoadDevice, Commit, CloseExpired, PostFails, Receive, callVars
<1>3. ASSUME \/ Tick \/ UNCHANGED vars
             \/ \E r \in Requests : CallFails(r) \/ Cancel(r)
             \/ \E q \in Pods : Crash(q)
             \/ \E d \in Devices : Unlink(d) \/ \E key \in SigningKeys : Link(d, key)
      PROVE  UNCHANGED released
  BY <1>3 DEF Tick, CallFails, Cancel, Crash, Unlink, Link, callVars, vars
<1>4. ASSUME NEW r \in Requests, Decrypt(r)
      PROVE  \/ released'[s] = released[s]
             \/ /\ pc[s] = "decrypting"
                /\ released'[s] = log[s][mine[s]].body.result.jwe.plain.fields
                /\ KeysOf(released'[s]) = log[s][mine[s]].body.result.approved
  <2> DEFINE b == log[r][mine[r]].body
             approval == [id |-> r, decisionId |-> b.decisionId, created |-> created[r],
                          expires |-> Expires(r), result |-> b.result]
  <2>1. CASE UNCHANGED released
    BY <2>1
  <2>2. CASE /\ Decryptable(approval, now)
             /\ released' = [released EXCEPT ![r] = b.result.jwe.plain.fields]
    <3>1. KeysOf(b.result.jwe.plain.fields) = b.result.approved
      BY <2>2 DEF Decryptable, PlaintextAccepted
    <3>2. CASE s # r
      BY <2>2, <3>2
    <3>3. CASE s = r
      <4>1. released'[r] = b.result.jwe.plain.fields
        BY <2>2 DEF TypeOK
      <4>2. pc[r] = "decrypting"
        BY <1>4 DEF Decrypt
      <4> QED
        BY <3>1, <3>3, <4>1, <4>2 DEF KeysOf
    <3> QED
      BY <3>2, <3>3
  <2> QED
    BY <1>4, <2>1, <2>2 DEF Decrypt
<1> QED
  BY <1>1, <1>2, <1>3, <1>4 DEF Next
LEMMA StepAuthorised ==
  ASSUME TypeOK, FirstWriterInv, ReleaseInv, Grown, [Next]_vars, NEW s \in Requests
  PROVE  CallAuthorised(s)'
<1>0. CallAuthorised(s)
  BY DEF ReleaseInv
<1>1. ASSUME ApprovedOnRecord(s)
      PROVE  ApprovedOnRecord(s)' /\ log'[s][2] = log[s][2]
  BY <1>1, RecordStays DEF ApprovedOnRecord
<1>2. ASSUME pc'[s] = "decrypting" PROVE ApprovedOnRecord(s) /\ mine'[s] = 2
  <2>1. CASE pc[s] = "decrypting" /\ mine'[s] = mine[s]
    BY <1>0, <2>1 DEF CallAuthorised
  <2>2. ASSUME NEW r \in Requests, CallStep(r) \/ CallFails(r) \/ Cancel(r)
        PROVE  ApprovedOnRecord(s) /\ mine'[s] = 2
    <3>1. CASE r = s
      BY <1>2, <2>1, <2>2, <3>1, OnlyApprovedDecrypts
    <3>2. CASE r # s
      BY <1>2, <2>1, <2>2, <3>2, OtherCallsKept
    <3> QED
      BY <3>1, <3>2
  <2>3. ASSUME NEW p \in Posts, PostStep(p) \/ PostFails(p) \/ \E b \in Bodies : Receive(p, b)
        PROVE  UNCHANGED callVars
    BY <2>3 DEF PostStep, LoadApproval, LoadDevice, Commit, CloseExpired, PostFails, Receive
  <2>4. ASSUME \/ Tick \/ UNCHANGED vars
               \/ \E d \in Devices : Unlink(d) \/ \E key \in SigningKeys : Link(d, key)
        PROVE  UNCHANGED callVars
    BY <2>4 DEF Tick, Unlink, Link, vars
  <2>5. ASSUME NEW q \in Pods, Crash(q) PROVE pc[s] = "decrypting" /\ mine'[s] = mine[s]
    BY <1>2, <2>5 DEF Crash, TypeOK
  <2>6. UNCHANGED callVars => pc[s] = "decrypting" /\ mine'[s] = mine[s]
    BY <1>2 DEF callVars
  <2> QED
    BY <2>1, <2>2, <2>3, <2>4, <2>5, <2>6 DEF Next
<1>3. ASSUME released'[s] # <<>>
      PROVE  ApprovedOnRecord(s) /\ KeysOf(released'[s]) = log[s][2].body.result.approved
  <2>1. CASE released'[s] = released[s]
    BY <1>0, <1>3, <2>1 DEF CallAuthorised, KeysOf
  <2>2. CASE /\ pc[s] = "decrypting"
             /\ KeysOf(released'[s]) = log[s][mine[s]].body.result.approved
    BY <1>0, <2>2 DEF CallAuthorised
  <2> QED
    BY <2>1, <2>2, OnlyDecryptReleases
<1> QED
  BY <1>1, <1>2, <1>3 DEF CallAuthorised, KeysOf

(* A POST reaches its write only if its body was checked in full against   *)
(* an approval read in the account it was sent under.                      *)
LEMMA StepCertified ==
  ASSUME TypeOK, FirstWriterInv, ReleaseInv, [Next]_vars, NEW s \in Posts
  PROVE  PostCertified(s)'
<1>0. PostCertified(s)
  BY DEF ReleaseInv
<1>1. ASSUME ppc'[s] = ppc[s] \/ ppc'[s] \notin {"load_device", "committing"},
             body'[s] = body[s], held'[s] = held[s]
      PROVE  PostCertified(s)'
  BY <1>0, <1>1 DEF PostCertified, Certified, Acceptable, SignatureVerifies
<1>2. ASSUME NEW p \in Posts, NEW code, Answer(p, code)
      PROVE  ppc'[s] = ppc[s] \/ ppc'[s] \notin {"load_device", "committing"}
  BY <1>2 DEF Answer, TypeOK
<1>3. ASSUME NEW p \in Posts, PostStep(p) \/ PostFails(p) \/ \E b \in Bodies : Receive(p, b)
      PROVE  PostCertified(s)'
  <2>1. ASSUME NEW b \in Bodies, Receive(p, b) PROVE PostCertified(s)'
    <3>1. CASE s # p
      BY <1>1, <1>2, <2>1, <3>1 DEF Receive, TypeOK
    <3>2. CASE s = p
      <4>1. ppc'[s] \notin {"load_device", "committing"}
        BY <2>1, <3>2 DEF Receive, Answer, TypeOK
      <4> QED
        BY <4>1 DEF PostCertified
    <3> QED
      BY <3>1, <3>2
  <2>2. CASE LoadApproval(p)
    <3>1. CASE s # p
      <4>1. ppc'[s] = ppc[s] /\ body'[s] = body[s]
        BY <2>2, <3>1 DEF LoadApproval, TypeOK
      <4>2. held'[s] = held[s]
        BY <2>2, <3>1 DEF LoadApproval, TypeOK
      <4> QED
        BY <1>1, <4>1, <4>2
    <3>2. CASE s = p
      <4>1. ppc'[s] = "load_device" /\ body' = body
        BY <2>2, <3>2 DEF LoadApproval, TypeOK
      <4>2. held'[s] # 0 => body[s].account = Owner[body[s].to]
        <5>1. held[s] = 0
          BY <2>2, <3>2 DEF LoadApproval, FirstWriterInv, PostHoldsFirst
        <5> QED
          BY <2>2, <3>2, <5>1 DEF LoadApproval, InPartition
      <4> QED
        BY <4>1, <4>2 DEF PostCertified
    <3> QED
      BY <3>1, <3>2
  <2>3. CASE LoadDevice(p)
    <3>1. body' = body /\ held' = held
      BY <2>3 DEF LoadDevice
    <3>2. CASE ppc'[s] = ppc[s] \/ ppc'[s] \notin {"load_device", "committing"}
      BY <1>1, <3>1, <3>2
    <3>3. CASE s # p
      <4>1. \/ \E code : Answer(p, code)
            \/ \E label : ppc' = [ppc EXCEPT ![p] = label]
        BY <2>3 DEF LoadDevice
      <4>2. ppc'[s] = ppc[s]
        BY <3>3, <4>1 DEF Answer, TypeOK
      <4> QED
        BY <3>2, <4>2
    <3>4. CASE s = p /\ ppc'[s] \in {"load_device", "committing"}
      <4> DEFINE b == body[p]
      <4>1. ppc'[s] = "committing"
        BY <2>3, <3>4 DEF LoadDevice, Answer, TypeOK
      <4>2. /\ ppc[p] = "load_device" /\ held[p] # 0 /\ Holder[b.device] = b.account
            /\ device[b.device] # NoDevice /\ Acceptable(device[b.device].key, b)
        BY <2>3, <3>4, <4>1 DEF LoadDevice, Answer, TypeOK
      <4>3. b \in Bodies /\ b.device \in Devices
        BY <4>2, FlowAssumption DEF TypeOK
      <4>4. device[b.device].key \in SigningKeys
        BY <4>2, <4>3 DEF TypeOK, DeviceDocs
      <4>5. b.account = Owner[b.to]
        BY <1>0, <3>4, <4>2 DEF PostCertified
      <4>6. Certified(b.to, b)
        BY <4>2, <4>3, <4>4, <4>5 DEF Certified
      <4> QED
        BY <3>1, <3>4, <4>1, <4>6
        DEF PostCertified, Certified, Acceptable, SignatureVerifies
    <3> QED
      BY <3>2, <3>3, <3>4
  <2>4. CASE Commit(p) \/ CloseExpired(p) \/ PostFails(p)
    <3>1. (\E code : Answer(p, code)) /\ body' = body /\ held' = held
      BY <2>4 DEF Commit, CloseExpired, PostFails
    <3> QED
      BY <1>1, <1>2, <3>1
  <2> QED
    BY <1>3, <2>1, <2>2, <2>3, <2>4 DEF PostStep
<1>4. ASSUME NEW r \in Requests, CallStep(r) PROVE UNCHANGED postVars
  BY <1>4 DEF CallStep, ListDevices, CreateApproval, ReadBack, Notify, DisableRead, DisableWrite,
              Poll, FinalRead, Close, Decrypt
<1>5. ASSUME \/ Tick \/ UNCHANGED vars
             \/ \E r \in Requests : CallFails(r) \/ Cancel(r)
             \/ \E d \in Devices : Unlink(d) \/ \E key \in SigningKeys : Link(d, key)
      PROVE  UNCHANGED postVars
  BY <1>5 DEF Tick, CallFails, Cancel, Unlink, Link, vars
<1>6. ASSUME NEW q \in Pods, Crash(q) PROVE PostCertified(s)'
  <2>1. /\ ppc'[s] = ppc[s] \/ ppc'[s] = "crashed"
        /\ body'[s] = body[s] /\ held'[s] = held[s]
    BY <1>6 DEF Crash
  <2> QED
    BY <1>1, <2>1
<1>7. UNCHANGED postVars => PostCertified(s)'
  BY <1>1 DEF postVars
<1> QED
  BY <1>3, <1>4, <1>5, <1>6, <1>7 DEF Next
(* Values are in the hands of the MCP caller only after a certified        *)
(* decision is on record, and they are those that it approved.             *)
THEOREM ReleaseInvCorrect == Spec => []ReleaseInv
<1>1. Init => ReleaseInv
  <2> SUFFICES ASSUME Init PROVE ReleaseInv
    OBVIOUS
  <2>1. ASSUME NEW p \in Posts PROVE PostCertified(p)
    BY DEF Init, PostCertified
  <2>2. ASSUME NEW r \in Requests PROVE RecordCertified(r) /\ CallAuthorised(r)
    BY DEF Init, RecordCertified, CallAuthorised
  <2> QED
    BY <2>1, <2>2 DEF ReleaseInv
<1>2. TypeOK /\ FirstWriterInv /\ ReleaseInv /\ [Next]_vars => ReleaseInv'
  <2> SUFFICES ASSUME TypeOK, FirstWriterInv, ReleaseInv, [Next]_vars PROVE ReleaseInv'
    OBVIOUS
  <2>1. Grown
    BY StepGrows
  <2> QED
    BY <2>1, StepCertified, RecordStep, StepAuthorised DEF ReleaseInv
<1> QED
  BY <1>1, <1>2, TypeCorrect, FirstWriterCorrect, PTL DEF Spec

(* The account, the device, the approval, the requested keys and the       *)
(* signed result of a release all belong together, for any bodies that     *)
(* phones may send and any interleaving.                                   *)
THEOREM EveryReleaseAuthorised == Spec => []ReleaseAuthorised
<1>1. ReleaseInv => ReleaseAuthorised
  <2> SUFFICES ASSUME ReleaseInv, NEW r \in Requests, released[r] # <<>>
               PROVE  /\ log[r] # <<>> /\ Verdict(r).status = "approved"
                      /\ LET b == Verdict(r).body
                         IN  /\ b.account = Owner[r] /\ Holder[b.device] = Owner[r]
                             /\ b.to = r /\ b.sig.request = r /\ b.sig.device = b.device
                             /\ b.sig.hash = ResultManifestHash(b.result)
                             /\ ValidateResult("request", Asked[r], "approved", b.result)
                             /\ KeysOf(released[r]) = b.result.approved
    BY DEF ReleaseAuthorised
  <2> DEFINE b == log[r][2].body
  <2>1. /\ Len(log[r]) = 2 /\ log[r][2].status = "approved"
        /\ KeysOf(released[r]) = b.result.approved
    BY DEF ReleaseInv, CallAuthorised, ApprovedOnRecord
  <2>2. Certified(r, b) /\ b.decision = "approved"
    BY <2>1 DEF ReleaseInv, RecordCertified, Decided
  <2>3. PICK key \in SigningKeys : Acceptable(key, b)
    BY <2>2 DEF Certified
  <2>4. b.account = Owner[r] /\ Holder[b.device] = Owner[r] /\ b.to = r
    BY <2>2 DEF Certified
  <2>5. /\ b.hash = ResultManifestHash(b.result)
        /\ b.sig.request = r /\ b.sig.device = b.device /\ b.sig.hash = b.hash
    BY <2>3, <2>4 DEF Acceptable, SignatureVerifies
  <2>6. ValidateResult("request", Asked[r], "approved", b.result)
    BY <2>2, <2>3, <2>4 DEF Acceptable
  <2>7. Verdict(r) = log[r][2] /\ log[r] # <<>>
    BY <2>1 DEF Verdict
  <2> QED
    BY <2>1, <2>4, <2>5, <2>6, <2>7
<1> QED
  BY <1>1, ReleaseInvCorrect, PTL

============================================================================
