-------------------------- MODULE ConsentPipeline --------------------------
(***************************************************************************)
(* One request_properties call seen as data: the caller's keys are parsed, *)
(* a phone answers, the answer is validated and stored, the disclosure is  *)
(* decrypted and the tool result is rendered.  Every stage may refuse.     *)
(* Who wins a race between answers is the business of ConsentFlow.         *)
(***************************************************************************)
EXTENDS ConsentResult, SequencesExt

CONSTANTS RawRequests,   \* key lists an MCP caller may send
          Answers,       \* phone answers: [decision, decisionId, result]
          RequestId,     \* the approval id
          Created, Expires

(* A JSON list, of whatever it holds. *)
IsList(s) == s \in Seq(Range(s))

(* What decide_approval makes of a body before the service validates it.   *)
(* It asks of a compact JWE only its size; one whose parts do not parse is *)
(* one that is not intact.                                                 *)
WellFormed(a) ==
  /\ a.decision \in {"approved", "denied"}
  /\ \A list \in KeyLists(a.result) : IsList(list)
  /\ IsList(a.result.metadata)
  /\ a.result.jwe # NoJwe /\ a.result.jwe.intact =>
       /\ IsList(a.result.jwe.plain.fields)
       /\ a.result.jwe.expires \in Int

ASSUME PipelineAssumption ==
  /\ \A raw \in RawRequests : IsList(raw)
  /\ \A a \in Answers : WellFormed(a)
  /\ Created \in Nat /\ Expires \in Nat /\ Created <= Expires

VARIABLES stage,       \* how far the call has come
          requested,   \* the parsed keys
          now,         \* Created..Expires
          answer,      \* the accepted answer, or NoAnswer
          values,      \* the decrypted fields
          output       \* what the caller is shown, or NoOutput

vars == <<stage, requested, now, answer, values, output>>

NoAnswer == [decision |-> "none"]
NoOutput == [status |-> "none"]

Init ==
  /\ stage = "called"
  /\ requested = <<>>
  /\ now = Created
  /\ answer = NoAnswer
  /\ values = <<>>
  /\ output = NoOutput

Tick ==
  /\ now < Expires
  /\ now' = now + 1
  /\ UNCHANGED <<stage, requested, answer, values, output>>

(* Keys that do not parse never reach the phone. *)
ParseKeys(raw) ==
  /\ stage = "called"
  /\ IF ParsePropertyKeys(raw)
       THEN stage' = "pending" /\ requested' = raw
       ELSE stage' = "input_error" /\ UNCHANGED requested
  /\ UNCHANGED <<now, answer, values, output>>

(* An invalid answer gets 400 and leaves the approval pending.             *)
Decide(a) ==
  /\ stage = "pending"
  /\ now < Expires
  /\ ValidateResult("request", requested, a.decision, a.result)
  /\ stage' = "decided"
  /\ answer' = a
  /\ UNCHANGED <<requested, now, values, output>>

Approval == [id |-> RequestId, decisionId |-> answer.decisionId,
             created |-> Created, expires |-> Expires, result |-> answer.result]

(* A denial, or an approval of nothing, has nothing to decrypt. *)
NothingToDecrypt ==
  /\ stage = "decided"
  /\ answer.decision = "denied" \/ answer.result.approved = <<>>
  /\ stage' = "disclosed"
  /\ UNCHANGED <<requested, now, answer, values, output>>

Decrypt ==
  /\ stage = "decided"
  /\ answer.decision # "denied" /\ answer.result.approved # <<>>
  /\ IF Decryptable(Approval, now)
       THEN stage' = "disclosed" /\ values' = answer.result.jwe.plain.fields
       ELSE stage' = "disclosure_invalid" /\ UNCHANGED values
  /\ UNCHANGED <<requested, now, answer, output>>

Render ==
  /\ stage = "disclosed"
  /\ stage' = IF Renderable(answer.result, values) THEN "rendered" ELSE "crashed"
  /\ output' = IF Renderable(answer.result, values)
                 THEN RequestResult(answer.decision, answer.result, values)
                 ELSE NoOutput
  /\ UNCHANGED <<requested, now, answer, values>>

Next ==
  \/ Tick
  \/ \E raw \in RawRequests : ParseKeys(raw)
  \/ \E a \in Answers : Decide(a)
  \/ NothingToDecrypt
  \/ Decrypt
  \/ Render

Spec == Init /\ [][Next]_vars

----------------------------------------------------------------------------
(* Types.  Stages and the shape of what is carried between them. *)
TypeOK ==
  /\ stage \in {"called", "input_error", "pending", "decided", "disclosed",
                "disclosure_invalid", "rendered", "crashed"}
  /\ requested \in Seq(Handles)
  /\ now \in Created..Expires
  /\ answer.decision \in {"none", "approved", "denied"}
  /\ output.status \in {"none", "approved", "partially_approved", "denied", "unavailable"}
  /\ (output.status # "none") <=> (stage = "rendered")

(* Rendering an accepted decision never raises: everything request_result  *)
(* looks up by key was forced to exist by the validation of the answer and *)
(* by the validation of the plaintext, in two other modules.               *)
RenderingNeverFails == stage # "crashed"

ShownKeys == KeysOf(output.properties)

(* The caller of an approved request gets every requested key back exactly *)
(* once - as a value, as denied or as unavailable - and never another key; *)
(* the values come in the order of the request.                            *)
OutputPartitionsRequest ==
  stage = "rendered" /\ answer.decision = "approved" =>
    LET combined == ShownKeys \o output.denied \o output.unavailable
    IN  /\ Len(combined) = Len(requested)
        /\ Range(combined) = Range(requested)
        /\ \A i, j \in DOMAIN ShownKeys : i < j =>
             \E m, n \in DOMAIN requested :
               m < n /\ requested[m] = ShownKeys[i] /\ requested[n] = ShownKeys[j]

(* A value reaches the caller only out of a disclosure that was encrypted  *)
(* for this approval, this decision and this approved list, within the     *)
(* life of the approval, and if the disclosure is still valid when its     *)
(* header is looked at (disclosure.py:190), however long the caller's loop *)
(* slept after the decision: no ciphertext of another request or decision  *)
(* can be spliced into an answer.                                          *)
ValuesBoundToDecision ==
  [][values' # values =>
       LET jwe == answer.result.jwe
       IN  /\ {jwe.request, jwe.plain.request} = {RequestId}
           /\ {jwe.decisionId, jwe.plain.decisionId} = {answer.decisionId}
           /\ {jwe.keys, KeysOf(values')} = {answer.result.approved}
           /\ {jwe.expires, jwe.plain.expires} \subseteq (now + 1)..Expires]_vars

(* The status word, defined from what the user did rather than from the    *)
(* order of tests in request_result.  "unavailable" is told of any         *)
(* approval that shows nothing: also of one that denied every key, though  *)
(* tools.py:107 has the caller read that none of them is in the vault.     *)
StatusTellsWhatHappened ==
  stage = "rendered" =>
    /\ output.status = "approved" <=>
         ShownKeys = requested
    /\ output.status = "partially_approved" <=>
         ShownKeys # <<>> /\ ShownKeys # requested
    /\ output.status = "unavailable" <=>
         answer.decision = "approved" /\ ShownKeys = <<>>
    /\ output.status = "denied" <=> answer.decision = "denied"
============================================================================
