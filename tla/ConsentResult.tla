--------------------------- MODULE ConsentResult ---------------------------
(***************************************************************************)
(* The pure part of a consent: what a phone may answer, what may be        *)
(* decrypted from the answer, and what the MCP caller is then shown.       *)
(* Property keys, labels and values are opaque; `Handles' are the strings  *)
(* that PROPERTY_KEY_PATTERN accepts.  A hash is the tuple of the things   *)
(* it is computed from, so two hashes are equal only if those are.         *)
(***************************************************************************)
EXTENDS Integers, Sequences, FiniteSets, Functions

CONSTANTS Handles,       \* strings matching vault.<43 characters>
          MaxRequested,  \* MAX_REQUESTED_PROPERTIES
          MaxAvailable,  \* MAX_AVAILABLE_PROPERTIES
          NoJwe          \* compact_jwe is None

ASSUME ResultAssumption == MaxRequested \in Nat /\ MaxAvailable \in Nat

----------------------------------------------------------------------------
(* What the caller may ask for; the mutant accepts a key twice. *)
ParseRepeatedKeys(values) == Len(values) \in 1..MaxRequested /\ Range(values) \subseteq Handles

ParsePropertyKeys(values) ==
  /\ Len(values) \in 1..MaxRequested
  /\ Range(values) \subseteq Handles
  /\ IsInjective(values)

(* A metadata item is [key, type, sound, listable]; `sound' stands for a   *)
(* label, value type and sensitivity that ApprovalService accepts: the     *)
(* label normalised, the type one of its fifteen.                          *)
KeysOf(items) == [i \in DOMAIN items |-> items[i].key]

ValidateMetadata(items) ==
  /\ IsInjective(KeysOf(items))
  /\ \A i \in DOMAIN items : items[i].key \in Handles /\ items[i].sound

KeyLists(result) ==
  {result.available, result.approved, result.denied, result.unavailable}

DenialShape(result) ==
  /\ KeyLists(result) = {<<>>}
  /\ result.metadata = <<>>
  /\ result.jwe = NoJwe

AvailabilityShape(result) ==
  /\ result.approved = <<>> /\ result.denied = <<>> /\ result.unavailable = <<>>
  /\ result.jwe = NoJwe
  /\ Len(result.available) <= MaxAvailable
  /\ KeysOf(result.metadata) = result.available

(* tuple(key for key in requested if key in S): a kept key moves to the    *)
(* position that is the number of keys kept up to it.                      *)
KeptUpTo(requested, S, n) == Cardinality({m \in 1..n : requested[m] \in S})

InOrder(requested, S) ==
  [i \in 1..KeptUpTo(requested, S, Len(requested)) |->
     requested[CHOOSE n \in DOMAIN requested :
                 requested[n] \in S /\ KeptUpTo(requested, S, n) = i]]

(* Every requested key is in exactly one list; the approved ones and the   *)
(* metadata follow the order of the request.                               *)
PartitionShape(requested, result) ==
  LET combined == result.approved \o result.denied \o result.unavailable
      available == Range(requested) \ Range(result.unavailable)
  IN  /\ IsInjective(combined)
      /\ Range(combined) = Range(requested)
      /\ result.approved = InOrder(requested, Range(result.approved))
      /\ KeysOf(result.metadata) = InOrder(requested, available)
      /\ (result.approved # <<>>) <=> (result.jwe # NoJwe)

ValidateResult(tool, requested, decision, result) ==
  /\ \A list \in KeyLists(result) : IsInjective(list) /\ Range(list) \subseteq Handles
  /\ ValidateMetadata(result.metadata)
  /\ \/ decision = "denied" /\ DenialShape(result)
     \/ decision = "approved" /\ tool = "list" /\ AvailabilityShape(result)
     \/ decision = "approved" /\ tool = "request" /\ PartitionShape(requested, result)

(* Injective in every member of the manifest. *)
ResultManifestHash(result) ==
  <<result.approved, result.available, result.jwe,
    result.denied, result.metadata, result.unavailable>>

----------------------------------------------------------------------------
(* A JWE is its authenticated header [request, decisionId, keys, expires]  *)
(* together with `intact' (five segments, accepted algorithms, times that  *)
(* parse, a CEK of the right size, a verifying tag, fields in a list) and  *)
(* its plaintext, whose fields are [key, type, value].                     *)
(* `approval' is a decided approval: [id, decisionId, created, expires,    *)
(* result].  The mutants take the header of an earlier decision, and do    *)
(* not look at the clock.                                                  *)
HeaderOfAnyDecision(approval, jwe, now) ==
  /\ jwe.request = approval.id
  /\ jwe.keys = approval.result.approved
  /\ jwe.expires <= approval.expires
  /\ now < jwe.expires

HeaderAtAnyTime(approval, jwe, now) ==
  /\ jwe.request = approval.id
  /\ jwe.decisionId = approval.decisionId
  /\ jwe.keys = approval.result.approved
  /\ jwe.expires <= approval.expires

HeaderAccepted(approval, jwe, now) ==
  /\ jwe.request = approval.id
  /\ jwe.decisionId = approval.decisionId
  /\ jwe.keys = approval.result.approved
  /\ jwe.expires <= approval.expires
  /\ now < jwe.expires

(* The mutant does not compare the fields with the approved list. *)
PlaintextUnlisted(approval, jwe) ==
  LET plain == jwe.plain
  IN  /\ plain.request = approval.id
      /\ plain.decisionId = approval.decisionId
      /\ plain.expires = jwe.expires
      /\ approval.created <= plain.created /\ plain.created < jwe.expires
      /\ \A i \in DOMAIN plain.fields : \E item \in Range(approval.result.metadata) :
           item.key = plain.fields[i].key /\ item.type = plain.fields[i].type

PlaintextAccepted(approval, jwe) ==
  LET plain == jwe.plain
      result == approval.result
  IN  /\ plain.request = approval.id
      /\ plain.decisionId = approval.decisionId
      /\ plain.expires = jwe.expires
      /\ approval.created <= plain.created /\ plain.created < jwe.expires
      /\ KeysOf(plain.fields) = result.approved
      /\ \A i \in DOMAIN plain.fields : \E item \in Range(result.metadata) :
           item.key = plain.fields[i].key /\ item.type = plain.fields[i].type

Decryptable(approval, now) ==
  LET jwe == approval.result.jwe
  IN  /\ jwe # NoJwe
      /\ jwe.intact
      /\ HeaderAccepted(approval, jwe, now)
      /\ PlaintextAccepted(approval, jwe)

----------------------------------------------------------------------------
(* The structured tool result.  Python raises KeyError unless Renderable. *)
Renderable(result, values) ==
  \A key \in Range(result.approved) :
    key \in Range(KeysOf(result.metadata)) /\ key \in Range(KeysOf(values))

(* Mutants: unavailable keys do not count; an empty approval has no word.  *)
StatusByDenials(status, result) ==
  CASE status = "denied"                                       -> "denied"
    [] status # "denied" /\ result.approved = <<>>             -> "unavailable"
    [] status # "denied" /\ result.approved # <<>>
         /\ result.denied # <<>>                               -> "partially_approved"
    [] OTHER                                                   -> "approved"

StatusWithoutUnavailable(status, result) ==
  CASE status = "denied"                                       -> "denied"
    [] status # "denied" /\ result.approved = <<>>             -> "none"
    [] OTHER                                                   -> "approved"

ResultStatus(status, result) ==
  CASE status = "denied"                                    -> "denied"
    [] status # "denied" /\ result.approved = <<>>          -> "unavailable"
    [] status # "denied" /\ result.approved # <<>>
         /\ result.denied \o result.unavailable # <<>>      -> "partially_approved"
    [] OTHER                                                -> "approved"

RequestResult(status, result, values) ==
  LET ValueOf(key) == (CHOOSE field \in Range(values) : field.key = key).value
  IN  [status      |-> ResultStatus(status, result),
       properties  |-> [i \in DOMAIN result.approved |->
                          [key   |-> result.approved[i],
                           value |-> ValueOf(result.approved[i])]],
       denied      |-> result.denied,
       unavailable |-> result.unavailable]
============================================================================
