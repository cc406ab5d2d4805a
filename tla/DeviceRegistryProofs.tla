------------------------ MODULE DeviceRegistryProofs ------------------------
(* Enrolment, for any number of PUTs, pods, devices, accounts and nonces.  *)
EXTENDS DeviceRegistry, TLAPS

LEMMA Places ==
  /\ \A y \in Puts \cup Disables \cup Challenges : PodOf[y] \in Pods
  /\ DOMAIN Budget = {"fault", "crash", "delete"}
  /\ \A b \in Bodies : /\ Slot(b) \in Slots /\ b.key \in Keys /\ b.challenge \in Challenges
                       /\ b.sig.challenge \in Challenges /\ b # NoBody
  /\ NoDevice \notin Documents
BY RegistryAssumption DEF Slot, Slots, Documents

LEMMA SpendType ==
  ASSUME TypeOK, NEW kind \in DOMAIN Budget, Spend(kind)
  PROVE  budget' \in [DOMAIN Budget -> Nat]
BY DEF Spend, TypeOK

LEMMA ChallengeLength ==
  ASSUME TypeOK, NEW c \in Challenges
  PROVE  /\ challenge[c] \in Seq(ChallengeDocuments) /\ Len(challenge[c]) \in Nat
         /\ \A v \in 1..Len(challenge[c]) : challenge[c][v] \in ChallengeDocuments
         /\ challenge[c] = <<>> <=> Len(challenge[c]) = 0
<1>1. challenge[c] \in Seq(ChallengeDocuments)
  BY DEF TypeOK
<1>. QED
  BY <1>1

LEMMA ChallengeLengthNext ==
  ASSUME TypeOK', NEW c \in Challenges PROVE Len(challenge'[c]) \in Nat
<1>1. challenge'[c] \in Seq(ChallengeDocuments)
  BY DEF TypeOK
<1>. QED
  BY <1>1

LEMMA DeviceLength ==
  ASSUME TypeOK, NEW s \in Slots
  PROVE  /\ device[s] \in Seq(Documents \cup {NoDevice}) /\ Len(device[s]) \in Nat
         /\ \A v \in 1..Len(device[s]) : device[s][v] \in Documents \cup {NoDevice}
<1>1. device[s] \in Seq(Documents \cup {NoDevice})
  BY DEF TypeOK
<1>. QED
  BY <1>1

(* The version that a read of a challenge returns exists.                  *)
LEMMA ReadExists ==
  ASSUME TypeOK, NEW q \in Pods, NEW c \in Challenges, NEW v \in ReadChallengeResults(q, c)
  PROVE  v \in 0..Len(challenge[c])
<1>1. seen[q].challenge[c] \in Nat /\ Len(challenge[c]) \in Nat
  BY ChallengeLength DEF TypeOK
<1>. QED
  BY <1>1 DEF ReadChallengeResults

LEMMA SeenType ==
  ASSUME TypeOK, NEW q \in Pods, NEW v \in Nat,
         \/ \E c \in Challenges : seen' = [seen EXCEPT ![q].challenge[c] = v]
         \/ \E s \in Slots : seen' = [seen EXCEPT ![q].device[s] = v]
  PROVE  seen' \in [Pods -> [challenge : [Challenges -> Nat], device : [Slots -> Nat]]]
<1>. DEFINE Views == [challenge : [Challenges -> Nat], device : [Slots -> Nat]]
<1>1. seen \in [Pods -> Views] /\ seen[q] \in Views
  BY DEF TypeOK
<1>2. CASE \E c \in Challenges : seen' = [seen EXCEPT ![q].challenge[c] = v]
  <2>1. PICK c \in Challenges : seen' = [seen EXCEPT ![q].challenge[c] = v]
    BY <1>2
  <2>2. [seen[q].challenge EXCEPT ![c] = v] \in [Challenges -> Nat]
    BY <1>1
  <2>3. [seen[q] EXCEPT !.challenge = [seen[q].challenge EXCEPT ![c] = v]] \in Views
    BY <1>1, <2>2
  <2>. QED
    BY <1>1, <2>1, <2>3
<1>3. CASE \E s \in Slots : seen' = [seen EXCEPT ![q].device[s] = v]
  <2>1. PICK s \in Slots : seen' = [seen EXCEPT ![q].device[s] = v]
    BY <1>3
  <2>2. [seen[q].device EXCEPT ![s] = v] \in [Slots -> Nat]
    BY <1>1
  <2>3. [seen[q] EXCEPT !.device = [seen[q].device EXCEPT ![s] = v]] \in Views
    BY <1>1, <2>2
  <2>. QED
    BY <1>1, <2>1, <2>3
<1>. QED
  BY <1>2, <1>3

(* An upsert adds one version, and leaves the others and all other slots.  *)
LEMMA UpsertAppends ==
  ASSUME TypeOK, NEW q \in Pods, NEW s \in Slots, NEW doc \in Documents \cup {NoDevice},
         Upsert(q, s, doc)
  PROVE  /\ device' \in [Slots -> Seq(Documents \cup {NoDevice})]
         /\ seen' \in [Pods -> [challenge : [Challenges -> Nat], device : [Slots -> Nat]]]
         /\ \A t \in Slots : t # s => device'[t] = device[t]
         /\ Len(device'[s]) = Len(device[s]) + 1
         /\ \A v \in 1..Len(device[s]) : device'[s][v] = device[s][v]
         /\ device'[s][Len(device[s]) + 1] = doc
<1>1. device[s] \in Seq(Documents \cup {NoDevice}) /\ Len(device[s]) + 1 \in Nat
  BY DeviceLength
<1>2. device'[s] = Append(device[s], doc) /\ \A t \in Slots : t # s => device'[t] = device[t]
  BY DEF Upsert, TypeOK
<1>3. Append(device[s], doc) \in Seq(Documents \cup {NoDevice})
  BY <1>1
<1>4. device' \in [Slots -> Seq(Documents \cup {NoDevice})]
  BY <1>3 DEF Upsert, TypeOK
<1>5. seen' \in [Pods -> [challenge : [Challenges -> Nat], device : [Slots -> Nat]]]
  BY <1>1, SeenType DEF Upsert
<1>. QED
  BY <1>1, <1>2, <1>4, <1>5

(* Spending a challenge adds a version of it.                              *)
LEMMA SpendingAppends ==
  ASSUME TypeOK, NEW c \in Challenges, NEW doc \in ChallengeDocuments,
         challenge' = [challenge EXCEPT ![c] = Append(@, doc)]
  PROVE  /\ challenge' \in [Challenges -> Seq(ChallengeDocuments)]
         /\ \A d \in Challenges : d # c => challenge'[d] = challenge[d]
         /\ Len(challenge'[c]) = Len(challenge[c]) + 1
         /\ \A v \in 1..Len(challenge[c]) : challenge'[c][v] = challenge[c][v]
         /\ challenge'[c][Len(challenge[c]) + 1] = doc
<1>1. challenge[c] \in Seq(ChallengeDocuments)
  BY ChallengeLength
<1>2. challenge'[c] = Append(challenge[c], doc)
  BY DEF TypeOK
<1>3. Append(challenge[c], doc) \in Seq(ChallengeDocuments)
  BY <1>1
<1>. QED
  BY <1>1, <1>2, <1>3 DEF TypeOK

----------------------------------------------------------------------------
(* Types. *)

(* What an action of a PUT does to the PUTs.                               *)
PutMoves(p) ==
  /\ pc' \in [Puts -> PutLabels] /\ reply' \in [Puts -> {0, 201, 400, 409, 503}]
  /\ \A r \in Puts : pc'[r] = "done" <=> reply'[r] # 0
  /\ \A r \in Puts : r # p => pc'[r] = pc[r] /\ reply'[r] = reply[r]

LEMMA AnswerType ==
  ASSUME TypeOK, NEW p \in Puts, NEW code \in {201, 400, 409, 503}, Answer(p, code)
  PROVE  PutMoves(p) /\ pc'[p] = "done" /\ reply'[p] = code
BY DEF Answer, TypeOK, PutLabels, PutMoves

LEMMA GoType ==
  ASSUME TypeOK, NEW p \in Puts, NEW label \in PutLabels \ {"done"}, pc[p] # "done",
         pc' = [pc EXCEPT ![p] = label], UNCHANGED reply
  PROVE  PutMoves(p) /\ pc'[p] = label
BY DEF TypeOK, PutLabels, PutMoves

LEMMA ReceiveType ==
  ASSUME TypeOK, NEW p \in Puts, NEW b \in Bodies, Receive(p, b)
  PROVE  TypeOK' /\ PutMoves(p) /\ pc'[p] \in {"checking", "done"} /\ reply'[p] \in {0, 400}
<1>1. pc[p] = "idle" /\ reply[p] = 0
  BY DEF Receive, TypeOK
<1>2. PutMoves(p) /\ pc'[p] \in {"checking", "done"} /\ reply'[p] \in {0, 400}
  <2>1. CASE Answer(p, 400)
    BY <2>1, AnswerType
  <2>2. CASE pc' = [pc EXCEPT ![p] = "checking"] /\ UNCHANGED reply
    <3>1. "checking" \in PutLabels \ {"done"} /\ pc[p] # "done"
      BY <1>1 DEF PutLabels
    <3>2. PutMoves(p) /\ pc'[p] = "checking"
      BY <2>2, <3>1, GoType
    <3>. QED
      BY <1>1, <2>2, <3>2
  <2>. QED
    BY <2>1, <2>2 DEF Receive
<1>3. body' \in [Puts -> Bodies \cup {NoBody}]
  BY DEF Receive, TypeOK
<1>4. \A r \in Puts : pc'[r] # "idle" => body'[r] \in Bodies
  BY <1>2 DEF PutMoves, Receive, TypeOK
<1>. QED
  BY <1>2, <1>3, <1>4 DEF TypeOK, PutMoves, Receive

LEMMA CheckType ==
  ASSUME TypeOK, NEW p \in Puts, CheckChallenge(p)
  PROVE  TypeOK' /\ PutMoves(p)
<1>. DEFINE c == body[p].challenge
            q == PodOf[p]
<1>1. pc[p] = "checking" /\ body[p] \in Bodies /\ c \in Challenges /\ q \in Pods
  BY Places DEF CheckChallenge, TypeOK
<1>2. PutMoves(p)
  <2>1. CASE \E code \in {400, 409} : Answer(p, code)
    BY <2>1, AnswerType
  <2>2. CASE pc' = [pc EXCEPT ![p] = "spending"] /\ UNCHANGED reply
    BY <1>1, <2>2, GoType DEF PutLabels
  <2>. QED
    BY <2>1, <2>2 DEF CheckChallenge
<1>3. held' \in [Puts -> Nat]
      /\ seen' \in [Pods -> [challenge : [Challenges -> Nat], device : [Slots -> Nat]]]
  <2>1. CASE UNCHANGED <<seen, held>>
    BY <2>1 DEF TypeOK
  <2>2. ASSUME NEW v \in ReadChallengeResults(q, c),
               seen' = IF v = 0 THEN seen ELSE [seen EXCEPT ![q].challenge[c] = v],
               held' = [held EXCEPT ![p] = v]
        PROVE  held' \in [Puts -> Nat]
               /\ seen' \in [Pods -> [challenge : [Challenges -> Nat], device : [Slots -> Nat]]]
    <3>1. v \in Nat
      BY <1>1, <2>2, ReadExists, ChallengeLength
    <3>2. CASE v = 0
      BY <2>2, <3>1, <3>2 DEF TypeOK
    <3>3. CASE v # 0
      <4>1. seen' \in [Pods -> [challenge : [Challenges -> Nat], device : [Slots -> Nat]]]
        <5>1. seen' = [seen EXCEPT ![q].challenge[c] = v]
          BY <2>2, <3>3
        <5>. QED
          BY <1>1, <3>1, <5>1, SeenType
      <4>2. held' \in [Puts -> Nat]
        BY <2>2, <3>1 DEF TypeOK
      <4>. QED
        BY <4>1, <4>2
    <3>. QED
      BY <3>2, <3>3
  <2>. QED
    BY <2>1, <2>2 DEF CheckChallenge
<1>4. \A r \in Puts : pc'[r] # "idle" => body'[r] \in Bodies
  BY <1>1, <1>2 DEF PutMoves, CheckChallenge, TypeOK
<1>. QED
  BY <1>2, <1>3, <1>4 DEF TypeOK, PutMoves, CheckChallenge

LEMMA ConsumeType ==
  ASSUME TypeOK, NEW p \in Puts, Consume(p)
  PROVE  TypeOK' /\ PutMoves(p)
<1>. DEFINE c == body[p].challenge
            spent == [consumed |-> TRUE, ts |-> now]
<1>1. pc[p] = "spending" /\ body[p] \in Bodies /\ c \in Challenges /\ PodOf[p] \in Pods
  BY Places DEF Consume, TypeOK
<1>2. PutMoves(p)
  <2>1. CASE \E code \in {503, 409} : Answer(p, code)
    BY <2>1, AnswerType
  <2>2. CASE pc' = [pc EXCEPT ![p] = "writing"] /\ UNCHANGED reply
    BY <1>1, <2>2, GoType DEF PutLabels
  <2>. QED
    BY <2>1, <2>2 DEF Consume
<1>3. budget' \in [DOMAIN Budget -> Nat]
  BY SpendType, Places DEF Consume, TypeOK
<1>4. /\ challenge' \in [Challenges -> Seq(ChallengeDocuments)]
      /\ seen' \in [Pods -> [challenge : [Challenges -> Nat], device : [Slots -> Nat]]]
  <2>1. CASE UNCHANGED <<challenge, seen>>
    BY <2>1 DEF TypeOK
  <2>2. CASE /\ challenge' = [challenge EXCEPT ![c] = Append(@, spent)]
             /\ seen' = [seen EXCEPT ![PodOf[p]].challenge[c] = Len(challenge[c]) + 1]
    <3>1. spent \in ChallengeDocuments
      BY DEF TypeOK, ChallengeDocuments
    <3>2. challenge' \in [Challenges -> Seq(ChallengeDocuments)]
      BY <1>1, <2>2, <3>1, SpendingAppends
    <3>3. Len(challenge[c]) + 1 \in Nat
      BY <1>1, ChallengeLength
    <3>. QED
      BY <1>1, <2>2, <3>2, <3>3, SeenType
  <2>. QED
    BY <2>1, <2>2 DEF Consume
<1>5. \A r \in Puts : pc'[r] # "idle" => body'[r] \in Bodies
  BY <1>1, <1>2 DEF PutMoves, Consume, TypeOK
<1>. QED
  BY <1>2, <1>3, <1>4, <1>5 DEF TypeOK, PutMoves, Consume

LEMMA WriteType ==
  ASSUME TypeOK, NEW p \in Puts, WriteDevice(p)
  PROVE  /\ TypeOK' /\ PutMoves(p) /\ pc'[p] = "done" /\ reply'[p] \in {201, 503}
         /\ [key |-> body[p].key, by |-> p, enabled |-> TRUE] \in Documents
<1>1. pc[p] = "writing" /\ body[p] \in Bodies /\ PodOf[p] \in Pods
  BY Places DEF WriteDevice, TypeOK
<1>2. PutMoves(p) /\ pc'[p] = "done" /\ reply'[p] \in {201, 503}
  BY AnswerType DEF WriteDevice
<1>3. [key |-> body[p].key, by |-> p, enabled |-> TRUE] \in Documents /\ Slot(body[p]) \in Slots
  BY <1>1, Places DEF Documents
<1>4. budget' \in [DOMAIN Budget -> Nat]
  BY SpendType, Places DEF WriteDevice, TypeOK
<1>5. /\ device' \in [Slots -> Seq(Documents \cup {NoDevice})]
      /\ seen' \in [Pods -> [challenge : [Challenges -> Nat], device : [Slots -> Nat]]]
  BY <1>1, <1>3, UpsertAppends DEF WriteDevice
<1>6. \A r \in Puts : pc'[r] # "idle" => body'[r] \in Bodies
  BY <1>1, <1>2 DEF PutMoves, WriteDevice, TypeOK
<1>. QED
  BY <1>2, <1>3, <1>4, <1>5, <1>6 DEF TypeOK, PutMoves, WriteDevice

LEMMA FailType ==
  ASSUME TypeOK, NEW p \in Puts, PutFails(p)
  PROVE  TypeOK' /\ PutMoves(p) /\ reply'[p] = 503 /\ pc'[p] = "done"
<1>1. PutMoves(p) /\ reply'[p] = 503 /\ pc'[p] = "done"
  BY AnswerType DEF PutFails
<1>2. budget' \in [DOMAIN Budget -> Nat]
  BY SpendType, Places DEF PutFails
<1>3. \A r \in Puts : pc'[r] # "idle" => body'[r] \in Bodies
  BY <1>1 DEF PutMoves, PutFails, TypeOK
<1>. QED
  BY <1>1, <1>2, <1>3 DEF TypeOK, PutMoves, PutFails

(* A disable_device about to write holds a document that was once there.   *)
CopiesRead ==
  \A x \in Disables : dpc[x] = "writing" =>
    /\ copy[x] \in [slot : Slots, doc : Documents]
    /\ \E v \in 1..Len(device[copy[x].slot]) : device[copy[x].slot][v] = copy[x].doc

LEMMA CreateType ==
  ASSUME TypeOK, NEW c \in Challenges, CreateChallenge(c)
  PROVE  TypeOK' /\ challenge'[c] = <<[consumed |-> FALSE, ts |-> now]>>
<1>1. /\ challenge' \in [Challenges -> Seq(ChallengeDocuments)]
      /\ challenge'[c] = <<[consumed |-> FALSE, ts |-> now]>>
  <2>1. [consumed |-> FALSE, ts |-> now] \in ChallengeDocuments
    BY DEF TypeOK, ChallengeDocuments
  <2>2. <<[consumed |-> FALSE, ts |-> now]>> \in Seq(ChallengeDocuments)
    BY <2>1
  <2>3. challenge \in [Challenges -> Seq(ChallengeDocuments)]
    BY DEF TypeOK
  <2>4. challenge' = [challenge EXCEPT ![c] = <<[consumed |-> FALSE, ts |-> now]>>]
    BY DEF CreateChallenge
  <2>. QED
    BY <2>2, <2>3, <2>4
<1>2. seen' \in [Pods -> [challenge : [Challenges -> Nat], device : [Slots -> Nat]]]
  BY Places, SeenType DEF CreateChallenge
<1>. QED
  BY <1>1, <1>2 DEF TypeOK, CreateChallenge

LEMMA DisableReadType ==
  ASSUME TypeOK, NEW x \in Disables, NEW s \in Slots, DisableRead(x, s)
  PROVE  /\ TypeOK'
         /\ \E v \in 1..Len(device[s]) :
              /\ device[s][v] \in Documents
              /\ copy' = [copy EXCEPT ![x] = [slot |-> s, doc |-> device[s][v]]]
<1>1. PodOf[x] \in Pods
  BY Places
<1>2. PICK v \in seen[PodOf[x]].device[s] .. Len(device[s]) :
        /\ v # 0 /\ device[s][v] # NoDevice
        /\ seen' = [seen EXCEPT ![PodOf[x]].device[s] = v]
        /\ copy' = [copy EXCEPT ![x] = [slot |-> s, doc |-> device[s][v]]]
  BY DEF DisableRead
<1>3. v \in 1..Len(device[s])
  <2>1. seen[PodOf[x]].device[s] \in Nat
    BY <1>1 DEF TypeOK
  <2>. QED
    BY <1>2, <2>1, DeviceLength
<1>4. v \in Nat /\ device[s][v] \in Documents
  BY <1>2, <1>3, DeviceLength
<1>5. seen' \in [Pods -> [challenge : [Challenges -> Nat], device : [Slots -> Nat]]]
  BY <1>1, <1>2, <1>4, SeenType
<1>6. copy' \in [Disables -> [slot : Slots, doc : Documents] \cup {NoCopy}]
  BY <1>2, <1>4 DEF TypeOK
<1>7. TypeOK'
  BY <1>5, <1>6 DEF TypeOK, DisableRead
<1>. QED
  BY <1>2, <1>3, <1>4, <1>7

LEMMA DisableWriteType ==
  ASSUME TypeOK, CopiesRead, NEW x \in Disables, DisableWrite(x)
  PROVE  TypeOK' /\ [copy[x].doc EXCEPT !.enabled = FALSE] \in Documents
<1>1. PodOf[x] \in Pods /\ copy[x].slot \in Slots /\ copy[x].doc \in Documents
  BY Places DEF DisableWrite, CopiesRead
<1>2. [copy[x].doc EXCEPT !.enabled = FALSE] \in Documents
  BY <1>1 DEF Documents
<1>3. /\ device' \in [Slots -> Seq(Documents \cup {NoDevice})]
      /\ seen' \in [Pods -> [challenge : [Challenges -> Nat], device : [Slots -> Nat]]]
  BY <1>1, <1>2, UpsertAppends DEF DisableWrite
<1>. QED
  BY <1>2, <1>3 DEF TypeOK, DisableWrite

LEMMA DeleteType ==
  ASSUME TypeOK, NEW q \in Pods, NEW s \in Slots, DeleteDevice(q, s)
  PROVE  TypeOK'
<1>1. /\ device' \in [Slots -> Seq(Documents \cup {NoDevice})]
      /\ seen' \in [Pods -> [challenge : [Challenges -> Nat], device : [Slots -> Nat]]]
  BY UpsertAppends DEF DeleteDevice
<1>2. budget' \in [DOMAIN Budget -> Nat]
  BY SpendType, Places DEF DeleteDevice
<1>. QED
  BY <1>1, <1>2 DEF TypeOK, DeleteDevice

LEMMA OtherTypes ==
  ASSUME TypeOK, Tick \/ (\E x \in Disables : DisableFails(x)) \/ \E q \in Pods : Crash(q)
  PROVE  TypeOK'
<1>1. CASE Tick
  BY <1>1 DEF Tick, TypeOK
<1>2. CASE \E x \in Disables : DisableFails(x)
  BY <1>2, SpendType, Places DEF DisableFails, TypeOK
<1>3. CASE \E q \in Pods : Crash(q)
  <2>1. PICK q \in Pods : Crash(q)
    BY <1>3
  <2>2. budget' \in [DOMAIN Budget -> Nat]
    BY <2>1, SpendType, Places DEF Crash
  <2>3. Unseen \in [challenge : [Challenges -> Nat], device : [Slots -> Nat]]
    BY DEF Unseen
  <2>4. seen' \in [Pods -> [challenge : [Challenges -> Nat], device : [Slots -> Nat]]]
    BY <2>1, <2>3 DEF Crash, TypeOK
  <2>5. /\ pc' \in [Puts -> PutLabels]
        /\ \A p \in Puts : pc'[p] = "done" <=> reply'[p] # 0
        /\ \A p \in Puts : pc'[p] # "idle" => body'[p] \in Bodies
    BY <2>1 DEF Crash, TypeOK, PutLabels
  <2>6. dpc' \in [Disables -> {"idle", "writing", "done"}]
    BY <2>1 DEF Crash, TypeOK
  <2>. QED
    BY <2>1, <2>2, <2>4, <2>5, <2>6 DEF Crash, TypeOK
<1>. QED
  BY <1>1, <1>2, <1>3

LEMMA TypeStep == ASSUME TypeOK, CopiesRead, [Next]_vars PROVE TypeOK'
<1>1. CASE UNCHANGED vars
  BY <1>1 DEF vars, TypeOK
<1>. QED
  BY <1>1, ReceiveType, CheckType, ConsumeType, WriteType, FailType, CreateType, DisableReadType,
     DisableWriteType, DeleteType, OtherTypes DEF Next, PutStep

----------------------------------------------------------------------------
(* The invariant.  A PUT that was let write, or has written, showed the    *)
(* key and has spent the challenge; no two PUTs have spent one challenge.  *)

Entitled(p) ==
  /\ InPartition(body[p]) /\ SignatureVerifies(body[p])
  /\ Len(challenge[body[p].challenge]) = 2

ChallengesSpentOnce ==
  \A c \in Challenges :
    /\ Len(challenge[c]) <= 2
    /\ Len(challenge[c]) = 2 => challenge[c][2].consumed

PutProven(p) ==
  /\ pc[p] = "spending" =>
       /\ InPartition(body[p]) /\ SignatureVerifies(body[p])
       /\ held[p] = 1 /\ Len(challenge[body[p].challenge]) >= 1
  /\ pc[p] = "writing" => Entitled(p)
PutsProven == \A p \in Puts : PutProven(p)

DocProven(s, doc) ==
  LET p == doc.by
  IN  /\ pc[p] \in {"done", "crashed"} /\ reply[p] \notin {400, 409}
      /\ s = Slot(body[p]) /\ doc.key = body[p].key
      /\ Entitled(p)

DocsProven ==
  \A s \in Slots : \A v \in 1..Len(device[s]) :
    device[s][v] # NoDevice => DocProven(s, device[s][v])

Wrote(p) ==
  \E s \in Slots : \E v \in 1..Len(device[s]) : device[s][v] # NoDevice /\ device[s][v].by = p
Spender(p) == pc[p] = "writing" \/ Wrote(p)

OneSpender ==
  \A p, q \in Puts :
    Spender(p) /\ Spender(q) /\ body[p].challenge = body[q].challenge => p = q

OneActive ==
  \A s \in Slots : \A v, w \in 1..Len(device[s]) :
    Enabled(s, v) /\ Enabled(s, w) /\ device[s][v].by = device[s][w].by => v = w

RegistryInv ==
  /\ TypeOK /\ CopiesRead /\ ChallengesSpentOnce /\ PutsProven /\ DocsProven
  /\ OneSpender /\ OneActive

LEMMA RegistryInit == Init => RegistryInv
<1>. SUFFICES ASSUME Init PROVE RegistryInv
  OBVIOUS
<1>1. TypeOK
  <2>1. <<>> \in Seq(ChallengeDocuments) /\ <<>> \in Seq(Documents \cup {NoDevice})
    OBVIOUS
  <2>2. Unseen \in [challenge : [Challenges -> Nat], device : [Slots -> Nat]]
    BY DEF Unseen
  <2>3. budget \in [DOMAIN Budget -> Nat]
    BY RegistryAssumption DEF Init
  <2>. QED
    BY <2>1, <2>2, <2>3 DEF Init, TypeOK, PutLabels
<1>2. \A s \in Slots : Len(device[s]) = 0
  BY DEF Init
<1>3. \A c \in Challenges : Len(challenge[c]) = 0
  BY DEF Init
<1>4. \A p \in Puts : ~Spender(p)
  BY <1>2 DEF Init, Spender, Wrote
<1>. QED
  BY <1>1, <1>2, <1>3, <1>4
     DEF RegistryInv, Init, CopiesRead, ChallengesSpentOnce, PutsProven, PutProven, DocsProven,
         OneSpender, OneActive

(* What every step keeps: spent challenges stay spent, bodies stay.        *)
Steady ==
  /\ TypeOK'
  /\ \A c \in Challenges : Len(challenge[c]) <= Len(challenge'[c])
  /\ \A p \in Puts : pc[p] # "idle" => body'[p] = body[p]
  /\ \A p \in Puts : pc[p] \in {"done", "crashed"} => pc'[p] = pc[p] /\ reply'[p] = reply[p]
  /\ ChallengesSpentOnce'

LEMMA KeptChallenges ==
  ASSUME TypeOK, ChallengesSpentOnce, UNCHANGED challenge
  PROVE  ChallengesSpentOnce' /\ \A c \in Challenges : Len(challenge[c]) <= Len(challenge'[c])
BY ChallengeLength DEF ChallengesSpentOnce

(* One challenge grows, to one version or from one to a consumed second.   *)
LEMMA GrowOne ==
  ASSUME TypeOK, TypeOK', ChallengesSpentOnce, NEW c \in Challenges,
         \A d \in Challenges : d # c => challenge'[d] = challenge[d],
         Len(challenge[c]) <= Len(challenge'[c]), Len(challenge'[c]) <= 2,
         Len(challenge'[c]) = 2 => challenge'[c][2].consumed
  PROVE  ChallengesSpentOnce' /\ \A d \in Challenges : Len(challenge[d]) <= Len(challenge'[d])
<1>1. ASSUME NEW d \in Challenges
      PROVE  /\ Len(challenge[d]) <= Len(challenge'[d]) /\ Len(challenge'[d]) <= 2
             /\ Len(challenge'[d]) = 2 => challenge'[d][2].consumed
  <2>1. CASE d = c
    BY <2>1
  <2>2. CASE d # c
    <3>1. challenge'[d] = challenge[d] /\ Len(challenge[d]) \in Nat
      BY <2>2, ChallengeLength
    <3>. QED
      BY <3>1 DEF ChallengesSpentOnce
  <2>. QED
    BY <2>1, <2>2
<1>. QED
  BY <1>1 DEF ChallengesSpentOnce

LEMMA SpendSteady ==
  ASSUME TypeOK, ChallengesSpentOnce, PutsProven, NEW p \in Puts, Consume(p)
  PROVE  /\ ChallengesSpentOnce' /\ \A c \in Challenges : Len(challenge[c]) <= Len(challenge'[c])
         /\ pc'[p] = "writing" => /\ Len(challenge[body[p].challenge]) = 1
                                  /\ Len(challenge'[body[p].challenge]) = 2
         /\ challenge' # challenge => /\ Len(challenge[body[p].challenge]) = 1
                                      /\ pc'[p] = "writing" \/ reply'[p] = 503
<1>. DEFINE c == body[p].challenge
            spent == [consumed |-> TRUE, ts |-> now]
<1>1. pc[p] = "spending" /\ body[p] \in Bodies /\ c \in Challenges /\ held[p] = 1
  BY Places DEF Consume, TypeOK, PutsProven, PutProven
<1>2. Len(challenge[c]) \in Nat /\ TypeOK'
  BY <1>1, ChallengeLength, ConsumeType
<1>3. CASE /\ Replaceable(c, held[p])
           /\ challenge' = [challenge EXCEPT ![c] = Append(@, spent)]
           /\ \/ pc' = [pc EXCEPT ![p] = "writing"]
              \/ Answer(p, 503)
  <2>1. spent \in ChallengeDocuments /\ spent.consumed
    BY DEF TypeOK, ChallengeDocuments
  <2>2. challenge' = [challenge EXCEPT ![c] = Append(@, spent)]
    BY <1>3
  <2>. HIDE DEF c, spent
  <2>3. /\ \A d \in Challenges : d # c => challenge'[d] = challenge[d]
        /\ Len(challenge'[c]) = Len(challenge[c]) + 1
        /\ challenge'[c][Len(challenge[c]) + 1] = spent
    BY <1>1, <2>1, <2>2, SpendingAppends
  <2>4. Len(challenge[c]) = 1
    BY <1>1, <1>3 DEF Replaceable
  <2>5. Len(challenge'[c]) = 2 /\ challenge'[c][2].consumed
    BY <2>1, <2>3, <2>4
  <2>6. pc'[p] = "writing" \/ reply'[p] = 503
    BY <1>3, AnswerType DEF TypeOK
  <2>7. /\ Len(challenge[c]) <= Len(challenge'[c]) /\ Len(challenge'[c]) <= 2
        /\ Len(challenge'[c]) = 2 => challenge'[c][2].consumed
    BY <2>4, <2>5
  <2>8. ChallengesSpentOnce' /\ \A d \in Challenges : Len(challenge[d]) <= Len(challenge'[d])
    BY <1>1, <1>2, <2>3, <2>7, GrowOne
  <2>. QED
    BY <2>4, <2>5, <2>6, <2>8 DEF c
<1>4. CASE UNCHANGED challenge /\ \E code \in {409, 503} : Answer(p, code)
  <2>1. pc'[p] # "writing"
    BY <1>4, AnswerType
  <2>. QED
    BY <1>4, <2>1, KeptChallenges
<1>. QED
  BY <1>3, <1>4 DEF Consume

LEMMA StepSteady == ASSUME RegistryInv, [Next]_vars PROVE Steady
<1>. USE DEF RegistryInv
<1>0. TypeOK'
  BY TypeStep
<1>1. ASSUME NEW p \in Puts, PutMoves(p), pc[p] \notin {"done", "crashed"}
      PROVE  \A r \in Puts : pc[r] \in {"done", "crashed"} => pc'[r] = pc[r] /\ reply'[r] = reply[r]
  BY <1>1 DEF PutMoves
<1>2. ASSUME NEW p \in Puts, NEW b \in Bodies, Receive(p, b) PROVE Steady
  <2>1. pc[p] = "idle" /\ UNCHANGED challenge /\ PutMoves(p)
    BY <1>2, ReceiveType DEF Receive
  <2>2. \A r \in Puts : pc[r] # "idle" => body'[r] = body[r]
    BY <1>2, <2>1 DEF Receive, TypeOK
  <2>. QED
    BY <1>0, <1>1, <2>1, <2>2, KeptChallenges DEF Steady
<1>3. ASSUME NEW p \in Puts, CheckChallenge(p) PROVE Steady
  BY <1>0, <1>1, <1>3, CheckType, KeptChallenges DEF CheckChallenge, Steady
<1>4. ASSUME NEW p \in Puts, Consume(p) PROVE Steady
  BY <1>0, <1>1, <1>4, ConsumeType, SpendSteady DEF Consume, Steady
<1>5. ASSUME NEW p \in Puts, WriteDevice(p) PROVE Steady
  BY <1>0, <1>1, <1>5, WriteType, KeptChallenges DEF WriteDevice, Steady
<1>6. ASSUME NEW p \in Puts, PutFails(p) PROVE Steady
  BY <1>0, <1>1, <1>6, FailType, KeptChallenges DEF PutFails, Steady
<1>7. ASSUME NEW c \in Challenges, CreateChallenge(c) PROVE Steady
  <2>1. /\ Len(challenge[c]) = 0 /\ Len(challenge'[c]) = 1
        /\ \A d \in Challenges : d # c => challenge'[d] = challenge[d]
    BY <1>7, CreateType DEF CreateChallenge, TypeOK
  <2>2. ChallengesSpentOnce' /\ \A d \in Challenges : Len(challenge[d]) <= Len(challenge'[d])
    <3>1. /\ Len(challenge[c]) <= Len(challenge'[c]) /\ Len(challenge'[c]) <= 2
          /\ Len(challenge'[c]) = 2 => challenge'[c][2].consumed
      BY <2>1
    <3>. QED
      BY <1>0, <2>1, <3>1, GrowOne
  <2>. QED
    BY <1>0, <1>7, <2>2 DEF CreateChallenge, Steady
<1>8. ASSUME UNCHANGED <<challenge, pc, body, reply>> PROVE Steady
  BY <1>0, <1>8, KeptChallenges DEF Steady
<1>9. ASSUME NEW q \in Pods, Crash(q) PROVE Steady
  BY <1>0, <1>9, KeptChallenges DEF Crash, Steady
<1>10. CASE \/ \E q \in Pods, s \in Slots : DeleteDevice(q, s)
            \/ \E x \in Disables : \/ DisableWrite(x) \/ DisableFails(x)
                                   \/ \E s \in Slots : DisableRead(x, s)
            \/ Tick \/ UNCHANGED vars
  BY <1>8, <1>10 DEF DeleteDevice, DisableWrite, DisableFails, DisableRead, Tick, vars
<1>. QED
  BY <1>2, <1>3, <1>4, <1>5, <1>6, <1>7, <1>9, <1>10 DEF Next, PutStep

LEMMA JustTwo == ASSUME NEW n \in Nat, n <= 2, 2 <= n PROVE n = 2
OBVIOUS

(* Once entitled, a PUT stays so.                                          *)
LEMMA EntitledStays ==
  ASSUME RegistryInv, Steady, NEW p \in Puts, pc[p] # "idle", Entitled(p)
  PROVE  Entitled(p)'
<1>1. body'[p] = body[p] /\ body[p].challenge \in Challenges
  BY Places DEF Steady, RegistryInv, TypeOK
<1>2. Len(challenge'[body[p].challenge]) = 2
  <2>1. Len(challenge'[body[p].challenge]) <= 2 /\ 2 <= Len(challenge'[body[p].challenge])
    <3>1. Len(challenge[body[p].challenge]) = 2
      BY DEF Entitled
    <3>2. Len(challenge[body[p].challenge]) <= Len(challenge'[body[p].challenge])
      BY <1>1 DEF Steady
    <3>3. Len(challenge'[body[p].challenge]) <= 2
      BY <1>1 DEF Steady, ChallengesSpentOnce
    <3>. QED
      BY <3>1, <3>2, <3>3
  <2>2. Len(challenge'[body[p].challenge]) \in Nat
    BY <1>1, ChallengeLengthNext DEF Steady
  <2>. QED
    BY <2>1, <2>2, JustTwo
<1>. QED
  BY <1>1, <1>2 DEF Entitled, InPartition, SignatureVerifies

LEMMA ProvenStays ==
  ASSUME RegistryInv, Steady, NEW s \in Slots, NEW doc \in Documents, DocProven(s, doc)
  PROVE  DocProven(s, doc)'
<1>1. doc.by \in Puts
  BY DEF Documents
<1>2. Entitled(doc.by)'
  BY <1>1, EntitledStays DEF DocProven
<1>. QED
  BY <1>1, <1>2 DEF DocProven, Steady

----------------------------------------------------------------------------
(* What each part of the invariant asks of a step.                         *)

(* The documents are as before, or there is one more.                      *)
Grows(s, doc) ==
  /\ \A t \in Slots : /\ Len(device[t]) \in Nat /\ Len(device'[t]) \in Nat
                      /\ Len(device[t]) <= Len(device'[t])
                      /\ \A v \in 1..Len(device[t]) : device'[t][v] = device[t][v]
  /\ \A t \in Slots : \A v \in 1..Len(device'[t]) :
       v \in 1..Len(device[t]) \/ (t = s /\ v = Len(device[s]) + 1 /\ device'[t][v] = doc)

LEMMA UpsertGrows ==
  ASSUME TypeOK, NEW q \in Pods, NEW s \in Slots, NEW doc \in Documents \cup {NoDevice},
         Upsert(q, s, doc)
  PROVE  Grows(s, doc)
<1>1. \A t \in Slots : Len(device[t]) \in Nat
  BY DeviceLength
<1>2. \A t \in Slots : t # s => device'[t] = device[t]
  BY UpsertAppends
<1>3. /\ Len(device'[s]) = Len(device[s]) + 1
      /\ \A v \in 1..Len(device[s]) : device'[s][v] = device[s][v]
      /\ device'[s][Len(device[s]) + 1] = doc
  BY UpsertAppends
<1>4. ASSUME NEW t \in Slots
      PROVE  /\ Len(device'[t]) \in Nat /\ Len(device[t]) <= Len(device'[t])
             /\ \A v \in 1..Len(device[t]) : device'[t][v] = device[t][v]
             /\ \A v \in 1..Len(device'[t]) :
                  \/ v \in 1..Len(device[t])
                  \/ t = s /\ v = Len(device[s]) + 1 /\ device'[t][v] = doc
  <2>1. CASE t = s
    BY <1>1, <1>3, <2>1
  <2>2. CASE t # s
    BY <1>1, <1>2, <2>2
  <2>. QED
    BY <2>1, <2>2
<1>. QED
  BY <1>1, <1>4 DEF Grows

LEMMA KeptGrows ==
  ASSUME TypeOK, UNCHANGED device, NEW s, NEW doc
  PROVE  Grows(s, doc)
BY DeviceLength DEF Grows

LEMMA DocsStep ==
  ASSUME RegistryInv, Steady, NEW s \in Slots, NEW doc \in Documents \cup {NoDevice},
         Grows(s, doc), doc # NoDevice => DocProven(s, doc)'
  PROVE  DocsProven'
<1>1. ASSUME NEW t \in Slots, NEW v \in 1..Len(device'[t]), device'[t][v] # NoDevice
      PROVE  \E d \in Documents : d = device'[t][v] /\ DocProven(t, d)'
  <2>1. CASE v \in 1..Len(device[t])
    <3>1. device'[t][v] = device[t][v] /\ device[t][v] \in Documents
      BY <1>1, <2>1, DeviceLength DEF Grows, RegistryInv
    <3>2. DocProven(t, device[t][v])
      BY <1>1, <2>1, <3>1 DEF RegistryInv, DocsProven
    <3>3. PICK d \in Documents : d = device[t][v]
      BY <3>1
    <3>4. DocProven(t, d)
      BY <3>2, <3>3
    <3>5. DocProven(t, d)'
      BY <3>4, ProvenStays
    <3>. QED
      BY <3>1, <3>3, <3>5
  <2>2. CASE t = s /\ device'[t][v] = doc
    <3>1. DocProven(s, doc)' /\ doc \in Documents
      BY <1>1, <2>2
    <3>. QED
      BY <2>2, <3>1
  <2>. QED
    BY <2>1, <2>2 DEF Grows
<1>. QED
  BY <1>1 DEF DocsProven, DocProven, Entitled

LEMMA ActiveStep ==
  ASSUME RegistryInv, NEW s \in Slots, NEW doc \in Documents \cup {NoDevice}, Grows(s, doc),
         doc # NoDevice /\ doc.enabled =>
           \A v \in 1..Len(device[s]) : device[s][v] # NoDevice => device[s][v].by # doc.by
  PROVE  OneActive'
<1>1. ASSUME NEW t \in Slots, NEW v \in 1..Len(device'[t]), NEW w \in 1..Len(device'[t]),
             device'[t][v] # NoDevice, device'[t][v].enabled,
             device'[t][w] # NoDevice, device'[t][w].enabled,
             device'[t][v].by = device'[t][w].by
      PROVE  v = w
  <2>1. CASE v \in 1..Len(device[t]) /\ w \in 1..Len(device[t])
    <3>1. device'[t][v] = device[t][v] /\ device'[t][w] = device[t][w]
      BY <2>1 DEF Grows
    <3>2. Enabled(t, v) /\ Enabled(t, w) /\ device[t][v].by = device[t][w].by
      BY <1>1, <2>1, <3>1 DEF Enabled
    <3>. QED
      BY <2>1, <3>2 DEF RegistryInv, OneActive
  <2>2. CASE v \notin 1..Len(device[t]) /\ w \notin 1..Len(device[t])
    BY <1>1, <2>2 DEF Grows
  <2>3. CASE v \in 1..Len(device[t]) /\ w \notin 1..Len(device[t])
    BY <1>1, <2>3 DEF Grows
  <2>4. CASE v \notin 1..Len(device[t]) /\ w \in 1..Len(device[t])
    BY <1>1, <2>4 DEF Grows
  <2>. QED
    BY <2>1, <2>2, <2>3, <2>4
<1>. QED
  BY <1>1 DEF OneActive, Enabled

LEMMA CopiesStep ==
  ASSUME RegistryInv, NEW s, NEW doc, Grows(s, doc),
         \A x \in Disables : dpc'[x] = "writing" => dpc[x] = "writing" /\ copy'[x] = copy[x]
  PROVE  CopiesRead'
<1>1. ASSUME NEW x \in Disables, dpc'[x] = "writing"
      PROVE  /\ copy'[x] \in [slot : Slots, doc : Documents]
             /\ \E v \in 1..Len(device'[copy'[x].slot]) : device'[copy'[x].slot][v] = copy'[x].doc
  <2>1. copy'[x] = copy[x] /\ copy[x] \in [slot : Slots, doc : Documents]
    BY <1>1 DEF RegistryInv, CopiesRead
  <2>2. PICK v \in 1..Len(device[copy[x].slot]) : device[copy[x].slot][v] = copy[x].doc
    BY <1>1 DEF RegistryInv, CopiesRead
  <2>3. copy[x].slot \in Slots
    BY <2>1
  <2>4. v \in 1..Len(device'[copy[x].slot]) /\ device'[copy[x].slot][v] = copy[x].doc
    BY <2>2, <2>3 DEF Grows
  <2>. QED
    BY <2>1, <2>4
<1>. QED
  BY <1>1 DEF CopiesRead

(* Whoever has spent a challenge finds it at its second version.           *)
LEMMA SpenderEntitled ==
  ASSUME RegistryInv, NEW p \in Puts, Spender(p)
  PROVE  /\ pc[p] \in {"writing", "done", "crashed"} /\ reply[p] \notin {400, 409}
         /\ Entitled(p)
<1>1. CASE pc[p] = "writing"
  <2>1. Entitled(p)
    BY <1>1 DEF RegistryInv, PutsProven, PutProven
  <2>2. reply[p] = 0
    BY <1>1 DEF RegistryInv, TypeOK
  <2>. QED
    BY <1>1, <2>1, <2>2
<1>2. CASE Wrote(p)
  BY <1>2 DEF Wrote, RegistryInv, DocsProven, DocProven
<1>. QED
  BY <1>1, <1>2 DEF Spender

LEMMA WroteStep ==
  ASSUME RegistryInv, NEW s \in Slots, NEW doc \in Documents \cup {NoDevice}, Grows(s, doc),
         NEW p \in Puts, Wrote(p)', doc # NoDevice => doc.by # p \/ Wrote(p)
  PROVE  Wrote(p)
<1>0. PICK t \in Slots :
        \E v \in 1..Len(device'[t]) : device'[t][v] # NoDevice /\ device'[t][v].by = p
  BY DEF Wrote
<1>1. PICK v \in 1..Len(device'[t]) : device'[t][v] # NoDevice /\ device'[t][v].by = p
  BY <1>0
<1>2. CASE v \in 1..Len(device[t])
  BY <1>1, <1>2 DEF Grows, Wrote
<1>3. CASE v \notin 1..Len(device[t])
  BY <1>1, <1>3 DEF Grows
<1>. QED
  BY <1>2, <1>3

LEMMA SpendersStep ==
  ASSUME RegistryInv, Steady, \A p \in Puts : Spender(p)' => Spender(p)
  PROVE  OneSpender'
<1>1. ASSUME NEW p \in Puts, Spender(p) PROVE body'[p] = body[p]
  BY <1>1, SpenderEntitled DEF Steady
<1>. QED
  BY <1>1 DEF OneSpender, RegistryInv

LEMMA PutStays ==
  ASSUME RegistryInv, Steady, NEW p \in Puts,
         pc'[p] = pc[p] \/ pc'[p] \notin {"spending", "writing"}, held'[p] = held[p]
  PROVE  PutProven(p)'
<1>1. CASE pc'[p] = pc[p] /\ pc[p] = "spending"
  <2>1. body'[p] = body[p] /\ body[p].challenge \in Challenges
    BY <1>1, Places DEF Steady, RegistryInv, TypeOK
  <2>2. /\ InPartition(body[p]) /\ SignatureVerifies(body[p])
        /\ held[p] = 1 /\ Len(challenge[body[p].challenge]) >= 1
    BY <1>1 DEF RegistryInv, PutsProven, PutProven
  <2>3. Len(challenge'[body[p].challenge]) >= 1
    <3>1. Len(challenge[body[p].challenge]) <= Len(challenge'[body[p].challenge])
      BY <2>1 DEF Steady
    <3>2. Len(challenge[body[p].challenge]) \in Nat /\ Len(challenge'[body[p].challenge]) \in Nat
      BY <2>1, ChallengeLength, ChallengeLengthNext DEF Steady, RegistryInv
    <3>. QED
      BY <2>2, <3>1, <3>2
  <2>. QED
    BY <1>1, <2>1, <2>2, <2>3 DEF PutProven
<1>2. CASE pc'[p] = pc[p] /\ pc[p] = "writing"
  BY <1>2, EntitledStays DEF RegistryInv, PutsProven, PutProven
<1>. QED
  BY <1>1, <1>2 DEF PutProven

----------------------------------------------------------------------------
(* The steps. *)

(* A step that writes no document of a device.                             *)
LEMMA DocsAlone ==
  ASSUME RegistryInv, Steady, UNCHANGED device
  PROVE  DocsProven' /\ OneActive'
<1>1. CASE Slots # {}
  BY <1>1, KeptGrows, DocsStep, ActiveStep DEF RegistryInv
<1>2. CASE Slots = {}
  BY <1>2 DEF DocsProven, OneActive
<1>. QED
  BY <1>1, <1>2

LEMMA QuietDocs ==
  ASSUME RegistryInv, Steady, UNCHANGED device,
         \A x \in Disables : dpc'[x] = "writing" => dpc[x] = "writing" /\ copy'[x] = copy[x]
  PROVE  DocsProven' /\ OneActive' /\ CopiesRead'
<1>1. \A s : Grows(s, NoDevice)
  BY KeptGrows DEF RegistryInv
<1>. QED
  BY <1>1, DocsAlone, CopiesStep

LEMMA QuietButOne ==
  ASSUME RegistryInv, Steady, UNCHANGED device,
         \A x \in Disables : dpc'[x] = "writing" => dpc[x] = "writing" /\ copy'[x] = copy[x],
         \A p \in Puts : pc'[p] = "writing" => pc[p] = "writing",
         \A p \in Puts :
           \/ /\ pc'[p] = pc[p] \/ pc'[p] \notin {"spending", "writing"}
              /\ held'[p] = held[p]
           \/ PutProven(p)'
  PROVE  RegistryInv'
<1>1. PutsProven'
  BY PutStays DEF PutsProven
<1>2. DocsProven' /\ OneActive' /\ CopiesRead'
  BY QuietDocs
<1>3. OneSpender'
  <2>1. ASSUME NEW p \in Puts, Spender(p)' PROVE Spender(p)
    BY <2>1 DEF Spender, Wrote
  <2>. QED
    BY <2>1, SpendersStep
<1>. QED
  BY <1>1, <1>2, <1>3 DEF RegistryInv, Steady

(* An action of disable_device, or a deletion: it adds a document that is  *)
(* none, or that an earlier one was but for the flag.                      *)
LEMMA UpsertStep ==
  ASSUME RegistryInv, Steady, UNCHANGED <<pc, held>>, NEW s \in Slots,
         NEW doc \in Documents \cup {NoDevice}, Grows(s, doc),
         doc # NoDevice => DocProven(s, doc) /\ Wrote(doc.by) /\ doc.enabled = FALSE,
         \A x \in Disables : dpc'[x] = "writing" => dpc[x] = "writing" /\ copy'[x] = copy[x]
  PROVE  RegistryInv'
<1>1. PutsProven'
  BY PutStays DEF PutsProven
<1>2. DocsProven'
  <2>1. doc # NoDevice => DocProven(s, doc)'
    BY ProvenStays
  <2>. QED
    BY <2>1, DocsStep
<1>3. OneActive' /\ CopiesRead'
  BY ActiveStep, CopiesStep
<1>4. OneSpender'
  <2>1. ASSUME NEW p \in Puts, Spender(p)' PROVE Spender(p)
    <3>1. CASE Wrote(p)'
      <4>1. doc # NoDevice => doc.by # p \/ Wrote(p)
        OBVIOUS
      <4>. QED
        BY <3>1, <4>1, WroteStep DEF Spender
    <3>2. CASE pc'[p] = "writing"
      BY <3>2 DEF Spender
    <3>. QED
      BY <2>1, <3>1, <3>2 DEF Spender
  <2>. QED
    BY <2>1, SpendersStep
<1>. QED
  BY <1>1, <1>2, <1>3, <1>4 DEF RegistryInv, Steady

LEMMA CheckStep ==
  ASSUME RegistryInv, Steady, NEW p \in Puts, CheckChallenge(p)
  PROVE  RegistryInv'
<1>. DEFINE c == body[p].challenge
<1>1. /\ pc[p] = "checking" /\ c \in Challenges /\ PutMoves(p) /\ PodOf[p] \in Pods
      /\ UNCHANGED <<challenge, device, dpc, copy, body>>
  BY CheckType, Places DEF CheckChallenge, RegistryInv, TypeOK
<1>2. \A q \in Puts : q # p => pc'[q] = pc[q] /\ held'[q] = held[q]
  <2>1. UNCHANGED held \/ \E v : held' = [held EXCEPT ![p] = v]
    BY DEF CheckChallenge
  <2>2. \A q \in Puts : q # p => held'[q] = held[q]
    BY <2>1 DEF RegistryInv, TypeOK
  <2>. QED
    BY <1>1, <2>2 DEF PutMoves
<1>3. CASE pc'[p] # "spending"
  <2>1. pc'[p] = "done"
    <3>1. (\E code \in {400, 409} : Answer(p, code)) \/ pc' = [pc EXCEPT ![p] = "spending"]
      BY DEF CheckChallenge
    <3>. QED
      BY <1>3, <3>1 DEF Answer, RegistryInv, TypeOK
  <2>2. PutProven(p)'
    BY <2>1 DEF PutProven
  <2>. QED
    BY <1>1, <1>2, <2>1, <2>2, QuietButOne
<1>4. CASE pc'[p] = "spending"
  <2>1. PICK v \in ReadChallengeResults(PodOf[p], c) :
          /\ v # 0 /\ ~challenge[c][v].consumed /\ held' = [held EXCEPT ![p] = v]
          /\ InPartition(body[p]) /\ SignatureVerifies(body[p])
    BY <1>1, <1>4 DEF CheckChallenge, Answer, RegistryInv, TypeOK
  <2>2. v \in 1..Len(challenge[c])
    BY <1>1, <2>1, ReadExists, ChallengeLength DEF RegistryInv
  <2>3. v = 1 /\ Len(challenge[c]) >= 1
    <3>1. Len(challenge[c]) \in Nat /\ Len(challenge[c]) <= 2
      BY <1>1, ChallengeLength DEF RegistryInv, ChallengesSpentOnce
    <3>2. ASSUME v = 2 PROVE FALSE
      <4>1. Len(challenge[c]) = 2
        <5>1. 2 <= Len(challenge[c])
          BY <2>2, <3>1, <3>2
        <5>. QED
          BY <3>1, <5>1, JustTwo
      <4>2. challenge[c][2].consumed
        BY <1>1, <4>1 DEF RegistryInv, ChallengesSpentOnce
      <4>. QED
        BY <2>1, <3>2, <4>2
    <3>. QED
      BY <2>2, <3>1, <3>2
  <2>4. held'[p] = 1
    BY <2>1, <2>3 DEF RegistryInv, TypeOK
  <2>5. PutProven(p)'
    BY <1>1, <1>4, <2>1, <2>3, <2>4 DEF PutProven
  <2>. QED
    BY <1>1, <1>2, <1>4, <2>5, QuietButOne
<1>. QED
  BY <1>3, <1>4

LEMMA ConsumeStep ==
  ASSUME RegistryInv, Steady, NEW p \in Puts, Consume(p)
  PROVE  RegistryInv'
<1>. DEFINE c == body[p].challenge
<1>1. /\ pc[p] = "spending" /\ c \in Challenges /\ PutMoves(p)
      /\ UNCHANGED <<device, dpc, copy, body, held>>
  BY ConsumeType, Places DEF Consume, RegistryInv, TypeOK
<1>2. \A q \in Puts : q # p => pc'[q] = pc[q] /\ held'[q] = held[q]
  BY <1>1 DEF PutMoves
<1>3. CASE pc'[p] # "writing"
  <2>1. pc'[p] = "done"
    <3>1. (\E code \in {503, 409} : Answer(p, code)) \/ pc' = [pc EXCEPT ![p] = "writing"]
      BY DEF Consume
    <3>. QED
      BY <1>3, <3>1 DEF Answer, RegistryInv, TypeOK
  <2>. QED
    BY <1>1, <1>2, <2>1, QuietButOne
<1>4. CASE pc'[p] = "writing"
  <2>1. Len(challenge[c]) = 1 /\ Len(challenge'[c]) = 2
    BY <1>4, SpendSteady DEF RegistryInv
  <2>2. PutProven(p)'
    <3>1. InPartition(body[p]) /\ SignatureVerifies(body[p])
      BY <1>1 DEF RegistryInv, PutsProven, PutProven
    <3>. QED
      BY <1>1, <1>4, <2>1, <3>1 DEF PutProven, Entitled
  <2>3. PutsProven'
    BY <1>1, <1>2, <2>2, PutStays DEF PutsProven
  <2>4. \A s : Grows(s, NoDevice)
    BY <1>1, KeptGrows DEF RegistryInv
  <2>5. DocsProven' /\ OneActive' /\ CopiesRead'
    BY <1>1, <2>4, QuietDocs
  <2>6. OneSpender'
    <3>1. ASSUME NEW q \in Puts, q # p, Spender(q)' PROVE Spender(q) /\ body[q].challenge # c
      <4>1. Spender(q)
        BY <1>1, <1>2, <3>1 DEF Spender, Wrote
      <4>2. Len(challenge[body[q].challenge]) = 2
        BY <4>1, SpenderEntitled DEF Entitled
      <4>. QED
        BY <2>1, <4>1, <4>2
    <3>2. ASSUME NEW q \in Puts, NEW r \in Puts, Spender(q)', Spender(r)',
                 body[q].challenge = body[r].challenge
          PROVE  q = r
      BY <3>1, <3>2 DEF RegistryInv, OneSpender
    <3>. QED
      BY <1>1, <3>2 DEF OneSpender
  <2>. QED
    BY <2>3, <2>5, <2>6 DEF RegistryInv, Steady
<1>. QED
  BY <1>3, <1>4

LEMMA WriteStep ==
  ASSUME RegistryInv, Steady, NEW p \in Puts, WriteDevice(p)
  PROVE  RegistryInv'
<1>0. PICK s \in Slots, doc \in Documents :
        s = Slot(body[p]) /\ doc = [key |-> body[p].key, by |-> p, enabled |-> TRUE]
  <2>1. body[p] \in Bodies
    BY DEF WriteDevice, RegistryInv, TypeOK
  <2>2. Slot(body[p]) \in Slots
    BY <2>1, Places
  <2>3. [key |-> body[p].key, by |-> p, enabled |-> TRUE] \in Documents
    BY WriteType DEF RegistryInv
  <2>. QED
    BY <2>2, <2>3
<1>1. /\ pc[p] = "writing" /\ body[p] \in Bodies /\ PodOf[p] \in Pods
      /\ PutMoves(p) /\ pc'[p] = "done" /\ reply'[p] \in {201, 503}
      /\ UNCHANGED <<dpc, copy, body, held, challenge>>
  BY WriteType, Places DEF WriteDevice, RegistryInv, TypeOK
<1>2. \A q \in Puts : q # p => pc'[q] = pc[q] /\ held'[q] = held[q]
  BY <1>1 DEF PutMoves
<1>3. Upsert(PodOf[p], s, doc)
  BY <1>0 DEF WriteDevice
<1>4. Entitled(p) /\ ~Wrote(p)
  <2>1. Entitled(p)
    BY <1>1 DEF RegistryInv, PutsProven, PutProven
  <2>2. ~Wrote(p)
    BY <1>1 DEF Wrote, RegistryInv, DocsProven, DocProven
  <2>. QED
    BY <2>1, <2>2
<1>5. Grows(s, doc)
  BY <1>1, <1>3, UpsertGrows DEF RegistryInv
<1>6. DocProven(s, doc)'
  <2>1. Entitled(p)'
    BY <1>1, <1>4, EntitledStays
  <2>2. s = Slot(body'[p]) /\ doc.by = p /\ doc.key = body'[p].key
    BY <1>0, <1>1
  <2>. QED
    BY <1>1, <2>1, <2>2 DEF DocProven
<1>7. DocsProven'
  BY <1>1, <1>5, <1>6, DocsStep
<1>8. OneActive'
  <2>1. \A v \in 1..Len(device[s]) : device[s][v] # NoDevice => device[s][v].by # p
    BY <1>1, <1>4 DEF Wrote
  <2>. QED
    BY <1>0, <1>5, <2>1, ActiveStep
<1>9. CopiesRead'
  BY <1>1, <1>5, CopiesStep
<1>10. PutsProven'
  BY <1>1, <1>2, PutStays DEF PutsProven
<1>11. OneSpender'
  <2>1. ASSUME NEW q \in Puts, Spender(q)' PROVE Spender(q)
    <3>1. CASE q = p
      BY <1>1, <3>1 DEF Spender
    <3>2. CASE q # p /\ Wrote(q)'
      <4>1. Wrote(q)
        BY <1>0, <1>5, <3>2, WroteStep
      <4>. QED
        BY <4>1 DEF Spender
    <3>3. CASE q # p /\ pc'[q] = "writing"
      BY <1>2, <3>3 DEF Spender
    <3>. QED
      BY <2>1, <3>1, <3>2, <3>3 DEF Spender
  <2>. QED
    BY <2>1, SpendersStep
<1>. QED
  BY <1>7, <1>8, <1>9, <1>10, <1>11 DEF RegistryInv, Steady

LEMMA DisableStep ==
  ASSUME RegistryInv, Steady, NEW x \in Disables, DisableWrite(x)
  PROVE  RegistryInv'
<1>1. PICK s \in Slots, old \in Documents : s = copy[x].slot /\ old = copy[x].doc
  BY DEF DisableWrite, RegistryInv, CopiesRead
<1>2. PICK doc \in Documents : doc = [old EXCEPT !.enabled = FALSE]
  BY DEF Documents
<1>3. Grows(s, doc)
  <2>1. PodOf[x] \in Pods /\ Upsert(PodOf[x], s, doc)
    BY <1>1, <1>2, Places DEF DisableWrite
  <2>. QED
    BY <2>1, UpsertGrows DEF RegistryInv
<1>4. DocProven(s, doc) /\ Wrote(doc.by) /\ doc.enabled = FALSE
  <2>1. PICK v \in 1..Len(device[s]) : device[s][v] = old
    BY <1>1 DEF DisableWrite, RegistryInv, CopiesRead
  <2>2. old # NoDevice
    BY Places
  <2>3. DocProven(s, old) /\ Wrote(old.by)
    BY <2>1, <2>2 DEF RegistryInv, DocsProven, Wrote
  <2>4. doc.by = old.by /\ doc.key = old.key /\ doc.enabled = FALSE
    BY <1>2 DEF Documents
  <2>. QED
    BY <2>3, <2>4 DEF DocProven
<1>5. /\ UNCHANGED <<pc, held>>
      /\ \A y \in Disables : dpc'[y] = "writing" => dpc[y] = "writing" /\ copy'[y] = copy[y]
  BY DEF DisableWrite, RegistryInv, TypeOK
<1>. QED
  BY <1>3, <1>4, <1>5, UpsertStep

LEMMA DisableReadStep ==
  ASSUME RegistryInv, Steady, NEW x \in Disables, NEW s \in Slots, DisableRead(x, s)
  PROVE  RegistryInv'
<1>1. UNCHANGED <<device, pc, held>>
  BY DEF DisableRead
<1>2. CopiesRead'
  <2>1. PICK v \in 1..Len(device[s]) :
          /\ device[s][v] \in Documents
          /\ copy' = [copy EXCEPT ![x] = [slot |-> s, doc |-> device[s][v]]]
    BY DisableReadType DEF RegistryInv
  <2>2. copy'[x] = [slot |-> s, doc |-> device[s][v]]
    BY <2>1 DEF RegistryInv, TypeOK
  <2>3. \A y \in Disables : y # x => copy'[y] = copy[y] /\ dpc'[y] = dpc[y]
    BY <2>1 DEF DisableRead, RegistryInv, TypeOK
  <2>4. ASSUME NEW y \in Disables, dpc'[y] = "writing"
        PROVE  /\ copy'[y] \in [slot : Slots, doc : Documents]
               /\ \E w \in 1..Len(device[copy'[y].slot]) :
                    device[copy'[y].slot][w] = copy'[y].doc
    <3>1. CASE y = x
      BY <2>1, <2>2, <3>1
    <3>2. CASE y # x
      BY <2>3, <2>4, <3>2 DEF RegistryInv, CopiesRead
    <3>. QED
      BY <3>1, <3>2
  <2>. QED
    BY <1>1, <2>4 DEF CopiesRead
<1>3. PutsProven'
  BY <1>1, PutStays DEF PutsProven
<1>4. DocsProven' /\ OneActive'
  BY <1>1, DocsAlone
<1>5. OneSpender'
  <2>1. \A p \in Puts : Spender(p)' => Spender(p)
    BY <1>1 DEF Spender, Wrote
  <2>. QED
    BY <2>1, SpendersStep
<1>. QED
  BY <1>2, <1>3, <1>4, <1>5 DEF RegistryInv, Steady

LEMMA RegistryNext == RegistryInv /\ [Next]_vars => RegistryInv'
<1>. SUFFICES ASSUME RegistryInv, [Next]_vars PROVE RegistryInv'
  OBVIOUS
<1>0. Steady
  BY StepSteady
<1>1. ASSUME NEW p \in Puts, NEW b \in Bodies, Receive(p, b) PROVE RegistryInv'
  <2>1. PutMoves(p) /\ pc'[p] \in {"checking", "done"}
    BY <1>1, ReceiveType DEF RegistryInv
  <2>2. UNCHANGED <<device, dpc, copy, held>>
    BY <1>1 DEF Receive
  <2>. QED
    BY <1>0, <2>1, <2>2, QuietButOne DEF PutMoves
<1>2. ASSUME NEW p \in Puts, PutFails(p) PROVE RegistryInv'
  <2>1. PutMoves(p) /\ pc'[p] = "done"
    BY <1>2, FailType DEF RegistryInv
  <2>2. UNCHANGED <<device, dpc, copy, held>>
    BY <1>2 DEF PutFails
  <2>. QED
    BY <1>0, <2>1, <2>2, QuietButOne DEF PutMoves
<1>3. ASSUME NEW p \in Puts, PutStep(p) PROVE RegistryInv'
  BY <1>0, <1>3, CheckStep, ConsumeStep, WriteStep DEF PutStep
<1>4. ASSUME NEW x \in Disables, DisableFails(x) PROVE RegistryInv'
  <2>1. /\ UNCHANGED <<device, pc, held>>
        /\ \A y \in Disables : dpc'[y] = "writing" => dpc[y] = "writing" /\ copy'[y] = copy[y]
    BY <1>4 DEF DisableFails, RegistryInv, TypeOK
  <2>. QED
    BY <1>0, <2>1, QuietButOne
<1>5. ASSUME NEW q \in Pods, Crash(q) PROVE RegistryInv'
  <2>1. UNCHANGED <<device, held, copy>>
    BY <1>5 DEF Crash
  <2>2. \A p \in Puts : pc'[p] = pc[p] \/ pc'[p] = "crashed"
    BY <1>5 DEF Crash
  <2>3. \A y \in Disables : dpc'[y] = "writing" => dpc[y] = "writing"
    BY <1>5 DEF Crash
  <2>. QED
    BY <1>0, <2>1, <2>2, <2>3, QuietButOne
<1>6. ASSUME NEW q \in Pods, NEW s \in Slots, DeleteDevice(q, s) PROVE RegistryInv'
  <2>1. Grows(s, NoDevice)
    BY <1>6, UpsertGrows DEF DeleteDevice, RegistryInv
  <2>2. UNCHANGED <<pc, held, dpc, copy>>
    BY <1>6 DEF DeleteDevice
  <2>. QED
    BY <1>0, <2>1, <2>2, UpsertStep
<1>7. ASSUME UNCHANGED <<device, pc, held, dpc, copy>> PROVE RegistryInv'
  BY <1>0, <1>7, QuietButOne
<1>8. CASE Tick \/ (\E c \in Challenges : CreateChallenge(c)) \/ UNCHANGED vars
  BY <1>7, <1>8 DEF Tick, CreateChallenge, vars
<1>. QED
  BY <1>0, <1>1, <1>2, <1>3, <1>4, <1>5, <1>6, <1>8, DisableStep, DisableReadStep DEF Next

(* The inductive invariant: whoever has written showed the key and spent   *)
(* the challenge, and no two have spent one challenge.                     *)
THEOREM RegistryInvariant == Spec => []RegistryInv
BY RegistryInit, RegistryNext, PTL DEF Spec

(* Every variable keeps its type.                                          *)
THEOREM RegistryTypeCorrect == Spec => []TypeOK
<1>1. RegistryInv => TypeOK
  BY DEF RegistryInv
<1>. QED
  BY <1>1, RegistryInvariant, PTL

(* One nonce brings one device to life, however the PUTs, replays, crashes *)
(* and deletions interleave (register_device, store.py:413).               *)
THEOREM ChallengesEnrolOnce == Spec => []ChallengeEnrolsOnce
<1>1. RegistryInv => ChallengeEnrolsOnce
  <2>. SUFFICES ASSUME RegistryInv,
                       NEW s \in Slots, NEW t \in Slots,
                       NEW v \in 1..Len(device[s]), NEW w \in 1..Len(device[t]),
                       Enabled(s, v), Enabled(t, w), By(s, v).challenge = By(t, w).challenge
                PROVE  s = t /\ v = w
    BY DEF ChallengeEnrolsOnce
  <2>. DEFINE p == device[s][v].by
              q == device[t][w].by
  <2>1. device[s][v] \in Documents /\ device[t][w] \in Documents
    BY DeviceLength DEF Enabled, RegistryInv
  <2>2. p \in Puts /\ q \in Puts
    BY <2>1 DEF Documents
  <2>3. Spender(p) /\ Spender(q)
    BY DEF Spender, Wrote, Enabled
  <2>4. p = q
    BY <2>2, <2>3 DEF RegistryInv, OneSpender, By
  <2>5. s = Slot(body[p]) /\ t = Slot(body[q])
    BY DEF RegistryInv, DocsProven, DocProven, Enabled
  <2>. QED
    BY <2>4, <2>5 DEF RegistryInv, OneActive
<1>. QED
  BY <1>1, RegistryInvariant, PTL

(* No key of which the phone has not shown possession enters an account's  *)
(* partition (put_device, mobile_api.py:97).                              *)
THEOREM KeysAreProven == Spec => []EveryKeyProven
<1>1. RegistryInv => EveryKeyProven
  <2>. SUFFICES ASSUME RegistryInv, NEW s \in Slots, NEW v \in 1..Len(device[s]),
                       device[s][v] # NoDevice
                PROVE  \E p \in Puts, c \in Challenges :
                         /\ IssuedTo[c] = s[1] /\ Len(challenge[c]) > 1
                         /\ body[p] # NoBody
                         /\ body[p].sig = [account |-> s[1], device |-> s[2], challenge |-> c,
                                           key |-> device[s][v].key]
    BY DEF EveryKeyProven
  <2>. DEFINE p == device[s][v].by
              c == body[p].challenge
  <2>1. p \in Puts
    BY DeviceLength DEF RegistryInv, Documents
  <2>2. DocProven(s, device[s][v])
    BY DEF RegistryInv, DocsProven
  <2>3. body[p] \in Bodies
    BY <2>1, <2>2 DEF DocProven, RegistryInv, TypeOK
  <2>4. c \in Challenges /\ body[p] # NoBody
    BY <2>3, Places
  <2>5. s[1] = body[p].account /\ s[2] = body[p].device /\ device[s][v].key = body[p].key
    BY <2>2 DEF DocProven, Slot
  <2>6. IssuedTo[c] = s[1] /\ Len(challenge[c]) = 2
    BY <2>2, <2>5 DEF DocProven, Entitled, InPartition
  <2>7. body[p].sig = [account |-> s[1], device |-> s[2], challenge |-> c,
                       key |-> device[s][v].key]
    BY <2>2, <2>5 DEF DocProven, Entitled, SignatureVerifies
  <2>. QED
    BY <2>1, <2>4, <2>6, <2>7
<1>. QED
  BY <1>1, RegistryInvariant, PTL

(* A phone that is refused has written no document (mobile_api.py:97).    *)
THEOREM RefusalsWriteNothing == Spec => []RefusalWritesNothing
<1>1. RegistryInv => RefusalWritesNothing
  BY DEF RegistryInv, DocsProven, DocProven, RefusalWritesNothing
<1>. QED
  BY <1>1, RegistryInvariant, PTL
=============================================================================
