----------------------- MODULE PropertyDiscoveryProofs -----------------------
(***************************************************************************)
(* Proofs about one call seen as data, from the phone's index to the tool  *)
(* result: for any handles, bounds, requests, answers and manifests.       *)
(***************************************************************************)
EXTENDS PropertyDiscovery, FiniteSetTheorems, TLAPS

(* A list is a function on an initial segment of the positive numbers.     *)
LEMMA ListIsFunction ==
  ASSUME NEW s, IsList(s)
  PROVE  /\ Len(s) \in Nat /\ DOMAIN s = 1..Len(s)
         /\ s \in [1..Len(s) -> Range(s)]
BY DEF IsList

LEMMA SeqIsList ==
  ASSUME NEW T, NEW s \in Seq(T) PROVE IsList(s)
<1>1. Len(s) \in Nat /\ DOMAIN s = 1..Len(s) /\ s = [i \in 1..Len(s) |-> s[i]]
  OBVIOUS
<1>2. \A i \in 1..Len(s) : s[i] \in Range(s)
  BY <1>1 DEF Range
<1>3. [i \in 1..Len(s) |-> s[i]] \in Seq(Range(s))
  BY <1>1, <1>2
<1>. QED
  BY <1>1, <1>3 DEF IsList

LEMMA InRange ==
  ASSUME NEW f, NEW x \in DOMAIN f PROVE f[x] \in Range(f)
BY DEF Range

----------------------------------------------------------------------------
(* tuple(key for key in requested if key in S).                            *)

(* The number of keys kept up to a position is a number, never falls, and  *)
(* rises just at the keys that are kept.                                   *)
LEMMA KeptIsFinite ==
  ASSUME NEW s, NEW S, NEW n \in Nat
  PROVE  /\ IsFiniteSet({m \in 1..n : s[m] \in S})
         /\ Cardinality({m \in 1..n : s[m] \in S}) \in 0..n
<1>1. IsFiniteSet(1..n) /\ Cardinality(1..n) = n
  BY FS_Interval
<1>2. {m \in 1..n : s[m] \in S} \in SUBSET (1..n)
  OBVIOUS
<1>3. /\ IsFiniteSet({m \in 1..n : s[m] \in S})
      /\ Cardinality({m \in 1..n : s[m] \in S}) <= n
  BY <1>1, <1>2, FS_Subset
<1>. QED
  BY <1>3, FS_CardinalityType

LEMMA KeptIsNat ==
  ASSUME NEW s, NEW S, NEW n \in Nat
  PROVE  KeptUpTo(s, S, n) \in Nat /\ KeptUpTo(s, S, n) <= n
<1>1. Cardinality({m \in 1..n : s[m] \in S}) \in 0..n
  BY KeptIsFinite
<1>. QED
  BY <1>1 DEF KeptUpTo

LEMMA KeptGrows ==
  ASSUME NEW s, NEW S, NEW m \in Nat, NEW n \in Nat, m < n, s[n] \in S
  PROVE  KeptUpTo(s, S, m) < KeptUpTo(s, S, n)
<1>. DEFINE A == {k \in 1..m : s[k] \in S}
            B == {k \in 1..n : s[k] \in S}
<1>1. A \in SUBSET B /\ n \in B /\ n \notin A
  OBVIOUS
<1>2. IsFiniteSet(B)
  BY KeptIsFinite
<1>3. Cardinality(A) <= Cardinality(B) /\ Cardinality(A) # Cardinality(B)
  <2>. HIDE DEF A, B
  <2>. QED
    BY <1>1, <1>2, FS_Subset
<1>4. Cardinality(A) \in Nat /\ Cardinality(B) \in Nat
  BY KeptIsNat DEF KeptUpTo
<1>. QED
  BY <1>3, <1>4 DEF KeptUpTo

LEMMA KeptNeverFalls ==
  ASSUME NEW s, NEW S, NEW m \in Nat, NEW n \in Nat, m <= n
  PROVE  KeptUpTo(s, S, m) <= KeptUpTo(s, S, n)
<1>. DEFINE A == {k \in 1..m : s[k] \in S}
            B == {k \in 1..n : s[k] \in S}
<1>1. A \in SUBSET B
  OBVIOUS
<1>2. IsFiniteSet(B)
  BY KeptIsFinite
<1>3. Cardinality(A) <= Cardinality(B)
  <2>. HIDE DEF A, B
  <2>. QED
    BY <1>1, <1>2, FS_Subset
<1>. QED
  BY <1>3 DEF KeptUpTo

LEMMA KeptAreCounted ==
  ASSUME NEW s, NEW S, NEW m \in Nat, NEW n \in Nat, s[m] \in S, s[n] \in S,
         KeptUpTo(s, S, m) = KeptUpTo(s, S, n)
  PROVE  m = n
<1>1. KeptUpTo(s, S, m) \in Int /\ KeptUpTo(s, S, n) \in Int
  BY KeptIsNat
<1>2. ~(m < n) /\ ~(n < m)
  BY <1>1, KeptGrows
<1>. QED
  BY <1>2

(* Every number up to the last is that of a kept key: the kept positions   *)
(* are as many, and no two of them have one number.                        *)
LEMMA EveryNumberIsKept ==
  ASSUME NEW s, IsList(s), NEW S, NEW i \in 1..KeptUpTo(s, S, Len(s))
  PROVE  \E n \in DOMAIN s : s[n] \in S /\ KeptUpTo(s, S, n) = i
<1>. DEFINE P == {n \in 1..Len(s) : s[n] \in S}
            K == KeptUpTo(s, S, Len(s))
            f == [n \in P |-> KeptUpTo(s, S, n)]
<1>1. Len(s) \in Nat /\ DOMAIN s = 1..Len(s)
  BY ListIsFunction
<1>2. IsFiniteSet(P) /\ Cardinality(P) = K /\ K \in Nat
  <2>1. IsFiniteSet(P)
    BY <1>1, KeptIsFinite
  <2>2. Cardinality(P) = K
    BY DEF KeptUpTo
  <2>3. K \in Nat
    BY <1>1, KeptIsNat
  <2>. QED
    BY <2>1, <2>2, <2>3
<1>3. ASSUME NEW n \in P PROVE f[n] \in 1..K
  <2>1. n \in Nat /\ 0 < n /\ n <= Len(s) /\ s[n] \in S
    BY <1>1
  <2>2. KeptUpTo(s, S, n) <= K
    BY <1>1, <2>1, KeptNeverFalls
  <2>3. KeptUpTo(s, S, 0) < KeptUpTo(s, S, n) /\ KeptUpTo(s, S, 0) = 0
    BY <2>1, KeptGrows, KeptIsNat
  <2>4. KeptUpTo(s, S, n) \in Int
    BY <2>1, KeptIsNat
  <2>. QED
    BY <1>2, <2>2, <2>3, <2>4
<1>4. \A m, n \in P : f[m] = f[n] => m = n
  BY <1>1, KeptAreCounted
<1>5. f \in Injection(P, 1..K)
  <2>. HIDE DEF K, P
  <2>1. f \in [P -> 1..K]
    BY <1>3
  <2>. QED
    BY <2>1, <1>4 DEF Injection, IsInjective
<1>6. IsFiniteSet(1..K) /\ Cardinality(1..K) = K
  BY <1>2, FS_Interval
<1>7. f \in Surjection(P, 1..K)
  <2>. HIDE DEF f, K, P
  <2>. QED
    BY <1>2, <1>5, <1>6, FS_Injection
<1>8. PICK n \in P : f[n] = i
  <2>. HIDE DEF P
  <2>. QED
    BY <1>7 DEF Surjection
<1>. QED
  BY <1>1, <1>8

(* So the filter is what a reader expects: a list, of the keys that are in *)
(* both, in the order of the request, and all of the request if all are.   *)
LEMMA InOrderAt ==
  ASSUME NEW s, IsList(s), NEW S, NEW i \in DOMAIN InOrder(s, S)
  PROVE  \E n \in DOMAIN s :
            s[n] \in S /\ KeptUpTo(s, S, n) = i /\ InOrder(s, S)[i] = s[n]
<1>1. i \in 1..KeptUpTo(s, S, Len(s))
  BY DEF InOrder
<1>2. \E n \in DOMAIN s : s[n] \in S /\ KeptUpTo(s, S, n) = i
  BY <1>1, EveryNumberIsKept
<1>. DEFINE p == CHOOSE n \in DOMAIN s : s[n] \in S /\ KeptUpTo(s, S, n) = i
<1>3. p \in DOMAIN s /\ s[p] \in S /\ KeptUpTo(s, S, p) = i
  BY <1>2
<1>4. InOrder(s, S)[i] = s[p]
  BY <1>1 DEF InOrder
<1>. QED
  BY <1>3, <1>4

LEMMA InOrderKeeps ==
  ASSUME NEW s, IsList(s), NEW S, NEW n \in DOMAIN s, s[n] \in S
  PROVE  /\ KeptUpTo(s, S, n) \in DOMAIN InOrder(s, S)
         /\ InOrder(s, S)[KeptUpTo(s, S, n)] = s[n]
<1>1. Len(s) \in Nat /\ DOMAIN s = 1..Len(s) /\ n \in Nat /\ 0 < n /\ n <= Len(s)
  BY ListIsFunction
<1>2. KeptUpTo(s, S, 0) < KeptUpTo(s, S, n) /\ KeptUpTo(s, S, 0) = 0
  BY <1>1, KeptGrows, KeptIsNat
<1>3. KeptUpTo(s, S, n) <= KeptUpTo(s, S, Len(s))
  BY <1>1, KeptNeverFalls
<1>4. KeptUpTo(s, S, n) \in Int /\ KeptUpTo(s, S, Len(s)) \in Int
  BY <1>1, KeptIsNat
<1>5. KeptUpTo(s, S, n) \in DOMAIN InOrder(s, S)
  BY <1>2, <1>3, <1>4 DEF InOrder
<1>6. PICK k \in DOMAIN s :
        /\ s[k] \in S /\ KeptUpTo(s, S, k) = KeptUpTo(s, S, n)
        /\ InOrder(s, S)[KeptUpTo(s, S, n)] = s[k]
  BY <1>5, InOrderAt
<1>7. k = n
  BY <1>1, <1>6, KeptAreCounted
<1>. QED
  BY <1>5, <1>6, <1>7

LEMMA InOrderSelects ==
  ASSUME NEW s, IsList(s), NEW S
  PROVE  /\ Range(InOrder(s, S)) = Range(s) \cap S
         /\ \A i, j \in DOMAIN InOrder(s, S) : i < j =>
              \E m, n \in DOMAIN s :
                m < n /\ s[m] = InOrder(s, S)[i] /\ s[n] = InOrder(s, S)[j]
<1>1. Range(InOrder(s, S)) \subseteq Range(s) \cap S
  BY InOrderAt DEF Range
<1>2. Range(s) \cap S \subseteq Range(InOrder(s, S))
  BY InOrderKeeps DEF Range
<1>3. ASSUME NEW i \in DOMAIN InOrder(s, S), NEW j \in DOMAIN InOrder(s, S), i < j
      PROVE  \E m, n \in DOMAIN s :
               m < n /\ s[m] = InOrder(s, S)[i] /\ s[n] = InOrder(s, S)[j]
  <2>1. PICK m \in DOMAIN s :
          s[m] \in S /\ KeptUpTo(s, S, m) = i /\ InOrder(s, S)[i] = s[m]
    BY InOrderAt
  <2>2. PICK n \in DOMAIN s :
          s[n] \in S /\ KeptUpTo(s, S, n) = j /\ InOrder(s, S)[j] = s[n]
    BY InOrderAt
  <2>3. m \in Nat /\ n \in Nat
    BY ListIsFunction
  <2>4. KeptUpTo(s, S, m) \in Int /\ KeptUpTo(s, S, n) \in Int
    BY <2>3, KeptIsNat
  <2>5. ~(n <= m)
    BY <1>3, <2>1, <2>2, <2>3, <2>4, KeptNeverFalls
  <2>. QED
    BY <2>1, <2>2, <2>3, <2>5
<1>. QED
  BY <1>1, <1>2, <1>3

LEMMA InOrderOfAll ==
  ASSUME NEW s, IsList(s), NEW S, Range(s) \subseteq S
  PROVE  InOrder(s, S) = s
<1>1. Len(s) \in Nat /\ DOMAIN s = 1..Len(s) /\ s \in [1..Len(s) -> Range(s)]
  BY ListIsFunction
<1>2. ASSUME NEW n \in 0..Len(s) PROVE KeptUpTo(s, S, n) = n
  <2>1. n \in Nat /\ n <= Len(s)
    BY <1>1
  <2>2. {m \in 1..n : s[m] \in S} = 1..n
    BY <1>1, <2>1
  <2>3. Cardinality(1..n) = n
    BY <2>1, FS_Interval
  <2>. QED
    BY <2>2, <2>3 DEF KeptUpTo
<1>3. DOMAIN InOrder(s, S) = 1..Len(s)
  BY <1>1, <1>2 DEF InOrder
<1>4. ASSUME NEW i \in 1..Len(s) PROVE InOrder(s, S)[i] = s[i]
  BY <1>1, <1>2, <1>4, InOrderKeeps
<1>5. InOrder(s, S) = [i \in 1..Len(s) |-> InOrder(s, S)[i]]
  BY <1>3 DEF InOrder
<1>. QED
  BY <1>1, <1>4, <1>5

----------------------------------------------------------------------------
(* What an answer that has passed validation is, after the request.        *)
Accepted(a) == a \in Answers /\ ValidateResult("request", requested, a.decision, a.result)

Combined(result) == result.approved \o result.denied \o result.unavailable

LEMMA AnswersAreWellFormed == \A a \in Answers : WellFormed(a)
BY PipelineAssumption

(* Lists without a repetition that hold the same are as long.              *)
LEMMA SameRangeSameLength ==
  ASSUME NEW s, NEW t, IsList(s), IsList(t), IsInjective(s), IsInjective(t),
         Range(s) = Range(t)
  PROVE  Len(s) = Len(t)
<1>1. /\ Len(s) \in Nat /\ s \in [1..Len(s) -> Range(s)] /\ DOMAIN s = 1..Len(s)
      /\ Len(t) \in Nat /\ t \in [1..Len(t) -> Range(s)] /\ DOMAIN t = 1..Len(t)
  BY ListIsFunction
<1>2. s \in Bijection(1..Len(s), Range(s)) /\ t \in Bijection(1..Len(t), Range(s))
  BY <1>1 DEF Bijection, Injection, Surjection, IsInjective, Range
<1>3. /\ ExistsBijection(1..Len(s), Range(s)) /\ ExistsBijection(1..Len(t), Range(s))
  BY <1>2 DEF ExistsBijection
<1>4. Cardinality(Range(s)) = Len(s) /\ Cardinality(Range(s)) = Len(t)
  BY <1>1, <1>3, FS_CountingElements
<1>. QED
  BY <1>4

LEMMA ConcatOfLists ==
  ASSUME NEW s, NEW t, IsList(s), IsList(t)
  PROVE  /\ IsList(s \o t)
         /\ Len(s \o t) = Len(s) + Len(t)
         /\ \A i \in 1..Len(s) : (s \o t)[i] = s[i]
         /\ \A i \in 1..Len(t) : (s \o t)[Len(s) + i] = t[i]
<1>1. s \in Seq(Range(s) \cup Range(t)) /\ t \in Seq(Range(s) \cup Range(t))
  BY DEF IsList
<1>2. s \o t \in Seq(Range(s) \cup Range(t)) /\ Len(s \o t) = Len(s) + Len(t)
  BY <1>1
<1>4. IsList(s \o t)
  BY <1>2, SeqIsList
<1>5. \A i \in 1..Len(s) : (s \o t)[i] = s[i]
  BY <1>1
<1>6. \A i \in 1..Len(t) : (s \o t)[Len(s) + i] = t[i]
  BY <1>1
<1>. QED
  BY <1>2, <1>4, <1>5, <1>6

LEMMA EmptyOnlyOfEmpty ==
  ASSUME NEW s, NEW t, IsList(s), IsList(t), s \o t = <<>>
  PROVE  s = <<>> /\ t = <<>>
<1>1. Len(s) \in Nat /\ Len(t) \in Nat
  BY ListIsFunction
<1>2. Len(s) + Len(t) = 0
  BY ConcatOfLists
<1>3. Len(s) = 0 /\ Len(t) = 0
  BY <1>1, <1>2
<1>. QED
  BY <1>3 DEF IsList

LEMMA ThreeLists ==
  ASSUME NEW x, NEW y, NEW z, IsList(x), IsList(y), IsList(z)
  PROVE  /\ IsList(x \o y \o z)
         /\ Len(x \o y \o z) = Len(x) + Len(y) + Len(z)
         /\ Len(x) \in Nat /\ Len(y) \in Nat /\ Len(z) \in Nat
         /\ \A i \in 1..Len(x) : (x \o y \o z)[i] = x[i]
         /\ \A i \in 1..Len(z) : (x \o y \o z)[Len(x) + Len(y) + i] = z[i]
<1>1. IsList(x \o y)
  BY ConcatOfLists
<1>2. Len(x) \in Nat /\ Len(y) \in Nat /\ Len(z) \in Nat
  BY ListIsFunction
<1>3. Len(x \o y) = Len(x) + Len(y) /\ \A i \in 1..Len(x) : (x \o y)[i] = x[i]
  BY ConcatOfLists
<1>4. /\ IsList((x \o y) \o z) /\ Len((x \o y) \o z) = Len(x \o y) + Len(z)
      /\ \A i \in 1..Len(x \o y) : ((x \o y) \o z)[i] = (x \o y)[i]
      /\ \A i \in 1..Len(z) : ((x \o y) \o z)[Len(x \o y) + i] = z[i]
  BY <1>1, ConcatOfLists
<1>. QED
  BY <1>2, <1>3, <1>4

(* In a list without repetition that is put together of three, the first   *)
(* and the last have nothing in common, and the first holds everything     *)
(* only if the others are empty.                                           *)
LEMMA PartsAreApart ==
  ASSUME NEW x, NEW y, NEW z, IsList(x), IsList(y), IsList(z),
         IsInjective(x \o y \o z)
  PROVE  /\ IsInjective(x)
         /\ Range(x) \subseteq Range(x \o y \o z)
         /\ Range(x) \cap Range(z) = {}
         /\ Range(x) = Range(x \o y \o z) => y \o z = <<>>
<1>. DEFINE c == x \o y \o z
<1>1. /\ IsList(c) /\ Len(c) = Len(x) + Len(y) + Len(z)
      /\ Len(x) \in Nat /\ Len(y) \in Nat /\ Len(z) \in Nat
      /\ \A i \in 1..Len(x) : c[i] = x[i]
      /\ \A i \in 1..Len(z) : c[Len(x) + Len(y) + i] = z[i]
  BY ThreeLists
<1>2. /\ DOMAIN x = 1..Len(x) /\ DOMAIN z = 1..Len(z)
      /\ DOMAIN c = 1..(Len(x) + Len(y) + Len(z))
  <2>. HIDE DEF c
  <2>. QED
    BY <1>1, ListIsFunction
<1>3. \A i, j \in DOMAIN c : c[i] = c[j] => i = j
  BY DEF IsInjective
<1>. HIDE DEF c
<1>4. IsInjective(x)
  BY <1>1, <1>2, <1>3 DEF IsInjective
<1>5. Range(x) \subseteq Range(c)
  BY <1>1, <1>2 DEF Range
<1>6. Range(x) \cap Range(z) = {}
  <2>1. ASSUME NEW i \in DOMAIN x, NEW j \in DOMAIN z, x[i] = z[j] PROVE FALSE
    <3>1. i \in DOMAIN c /\ c[i] = x[i]
      BY <1>1, <1>2
    <3>2. Len(x) + Len(y) + j \in DOMAIN c /\ c[Len(x) + Len(y) + j] = z[j]
      BY <1>1, <1>2
    <3>3. i = Len(x) + Len(y) + j
      BY <1>3, <2>1, <3>1, <3>2
    <3>. QED
      BY <1>1, <1>2, <3>3
  <2>. QED
    BY <2>1 DEF Range
<1>7. ASSUME Range(x) = Range(c) PROVE y \o z = <<>>
  <2>1. IsInjective(c)
    BY <1>3 DEF IsInjective
  <2>2. Len(x) = Len(c)
    BY <1>1, <1>4, <1>7, <2>1, SameRangeSameLength
  <2>3. Len(y) = 0 /\ Len(z) = 0
    BY <1>1, <2>2
  <2>4. y \in Seq(Range(y)) /\ z \in Seq(Range(z))
    BY DEF IsList
  <2>5. y = <<>> /\ z = <<>>
    BY <2>3, <2>4
  <2>. QED
    BY <2>5
<1>. QED
  BY <1>4, <1>5, <1>6, <1>7 DEF c

(* An accepted approval divides the request: it is what PartitionShape     *)
(* says, of lists.                                                         *)
LEMMA ApprovalDivides ==
  ASSUME NEW a, Accepted(a), a.decision = "approved", requested \in Seq(Handles)
  PROVE  /\ IsList(requested) /\ PartitionShape(requested, a.result)
         /\ IsList(a.result.approved) /\ IsList(a.result.denied)
         /\ IsList(a.result.unavailable)
<1>1. a \in Answers /\ ValidateResult("request", requested, "approved", a.result)
  BY DEF Accepted
<1>2. PartitionShape(requested, a.result)
  BY <1>1 DEF ValidateResult
<1>3. \A list \in KeyLists(a.result) : IsList(list)
  BY <1>1, AnswersAreWellFormed DEF WellFormed
<1>4. IsList(requested)
  BY SeqIsList
<1>. QED
  BY <1>2, <1>3, <1>4 DEF KeyLists

LEMMA DenialHasNothing ==
  ASSUME NEW a, Accepted(a), a.decision = "denied"
  PROVE  a.result.approved = <<>> /\ a.result.denied = <<>> /\ a.result.unavailable = <<>>
<1>1. DenialShape(a.result)
  BY DEF Accepted, ValidateResult
<1>2. \A list \in KeyLists(a.result) : list = <<>>
  BY <1>1 DEF DenialShape
<1>. QED
  BY <1>2 DEF KeyLists

(* Whatever is approved has metadata: it was requested, and is not among   *)
(* what is unavailable.                                                    *)
LEMMA ApprovedIsDescribed ==
  ASSUME NEW a, Accepted(a), requested \in Seq(Handles),
         a.decision \in {"approved", "denied"}
  PROVE  Range(a.result.approved) \subseteq Range(KeysOf(a.result.metadata))
<1>1. CASE a.decision = "denied"
  <2>1. a.result.approved = <<>>
    BY <1>1, DenialHasNothing
  <2>. QED
    BY <2>1 DEF Range
<1>2. CASE a.decision = "approved"
  <2>. DEFINE r == a.result
              S == Range(requested) \ Range(r.unavailable)
  <2>1. /\ IsList(requested) /\ PartitionShape(requested, r)
        /\ IsList(r.approved) /\ IsList(r.denied) /\ IsList(r.unavailable)
    BY <1>2, ApprovalDivides
  <2>2. /\ IsInjective(r.approved \o r.denied \o r.unavailable)
        /\ Range(r.approved \o r.denied \o r.unavailable) = Range(requested)
        /\ KeysOf(r.metadata) = InOrder(requested, S)
    BY <2>1 DEF PartitionShape
  <2>3. /\ Range(r.approved) \subseteq Range(requested)
        /\ Range(r.approved) \cap Range(r.unavailable) = {}
    BY <2>1, <2>2, PartsAreApart
  <2>4. Range(InOrder(requested, S)) = Range(requested) \cap S
    BY <2>1, InOrderSelects
  <2>. QED
    BY <2>2, <2>3, <2>4
<1>. QED
  BY <1>1, <1>2

(* It is what was requested exactly if nothing else is left: the order of  *)
(* the request is the only one it can have.                                *)
LEMMA AllIsApproved ==
  ASSUME NEW a, Accepted(a), a.decision = "approved", requested \in Seq(Handles)
  PROVE  a.result.approved = requested <=>
           a.result.denied \o a.result.unavailable = <<>>
<1>. DEFINE r == a.result
<1>1. /\ IsList(requested) /\ PartitionShape(requested, r)
      /\ IsList(r.approved) /\ IsList(r.denied) /\ IsList(r.unavailable)
  BY ApprovalDivides
<1>2. /\ IsInjective(r.approved \o r.denied \o r.unavailable)
      /\ Range(r.approved \o r.denied \o r.unavailable) = Range(requested)
      /\ r.approved = InOrder(requested, Range(r.approved))
  BY <1>1 DEF PartitionShape
<1>3. ASSUME r.approved = requested PROVE r.denied \o r.unavailable = <<>>
  BY <1>1, <1>2, <1>3, PartsAreApart
<1>4. ASSUME r.denied \o r.unavailable = <<>> PROVE r.approved = requested
  <2>1. r.denied = <<>> /\ r.unavailable = <<>>
    BY <1>1, <1>4, EmptyOnlyOfEmpty
  <2>2. r.approved \in Seq(Range(r.approved))
    BY <1>1 DEF IsList
  <2>3. r.approved \o r.denied \o r.unavailable = r.approved
    BY <2>1, <2>2
  <2>4. Range(requested) \subseteq Range(r.approved)
    BY <1>2, <2>3
  <2>. QED
    BY <1>1, <1>2, <2>4, InOrderOfAll
<1>. QED
  BY <1>3, <1>4

(* The tool result shows the approved list under the status word.          *)
LEMMA ResultShows ==
  ASSUME NEW status, NEW result, NEW fields, IsList(result.approved)
  PROVE  LET shown == RequestResult(status, result, fields)
         IN  /\ KeysOf(shown.properties) = result.approved
             /\ shown.status = ResultStatus(status, result)
             /\ shown.denied = result.denied
             /\ shown.unavailable = result.unavailable
<1>. DEFINE ValueOf(key) == (CHOOSE field \in Range(fields) : field.key = key).value
            properties == [i \in DOMAIN result.approved |->
                             [key   |-> result.approved[i],
                              value |-> ValueOf(result.approved[i])]]
<1>1. /\ RequestResult(status, result, fields).properties = properties
      /\ RequestResult(status, result, fields).status = ResultStatus(status, result)
      /\ RequestResult(status, result, fields).denied = result.denied
      /\ RequestResult(status, result, fields).unavailable = result.unavailable
  BY DEF RequestResult
<1>2. /\ DOMAIN properties = DOMAIN result.approved
      /\ \A i \in DOMAIN result.approved : properties[i].key = result.approved[i]
  OBVIOUS
<1>3. KeysOf(properties) = [i \in DOMAIN result.approved |-> result.approved[i]]
  <2>. HIDE DEF properties
  <2>. QED
    BY <1>2 DEF KeysOf
<1>4. result.approved = [i \in DOMAIN result.approved |-> result.approved[i]]
  BY DEF IsList
<1>. QED
  BY <1>1, <1>3, <1>4

----------------------------------------------------------------------------
(* The invariant of one call.  What was decrypted is the plaintext of the  *)
(* accepted answer, and was decryptable when it was decrypted.             *)
NothingReleased ==
  values = <<>> /\ (answer.decision = "denied" \/ answer.result.approved = <<>>)

Released ==
  /\ answer.decision # "denied"
  /\ values = answer.result.jwe.plain.fields
  /\ \E t \in Created..Expires : Decryptable(Approval, t)

PipelineInv ==
  /\ TypeOK
  /\ stage # "crashed"
  /\ stage \notin {"called", "input_error"} => ParsePropertyKeys(requested)
  /\ stage \in {"decided", "disclosed", "disclosure_invalid", "rendered"} => Accepted(answer)
  /\ IF stage \in {"disclosed", "rendered"} THEN NothingReleased \/ Released
                                           ELSE values = <<>>
  /\ output = IF stage = "rendered"
                THEN RequestResult(answer.decision, answer.result, values) ELSE NoOutput

LEMMA Times ==
  Created \in Nat /\ Expires \in Nat /\ Created <= Expires
BY PipelineAssumption

LEMMA PipelineInit == Init => PipelineInv
<1>. SUFFICES ASSUME Init PROVE PipelineInv
  OBVIOUS
<1>1. TypeOK
  BY Times DEF Init, TypeOK, NoAnswer, NoOutput
<1>. QED
  BY <1>1 DEF Init, PipelineInv, NoAnswer, NoOutput

LEMMA TickKeeps == PipelineInv /\ Tick => PipelineInv'
<1>. SUFFICES ASSUME PipelineInv, Tick PROVE PipelineInv'
  OBVIOUS
<1>1. TypeOK'
  BY Times DEF PipelineInv, TypeOK, Tick
<1>. QED
  BY <1>1 DEF PipelineInv, Tick, Accepted, NothingReleased, Released, Approval

LEMMA StutterKeeps == PipelineInv /\ UNCHANGED vars => PipelineInv'
BY DEF PipelineInv, vars, TypeOK, Accepted, NothingReleased, Released, Approval

LEMMA ParseKeeps ==
  ASSUME PipelineInv, NEW raw, IsList(raw), ParseKeys(raw)
  PROVE  PipelineInv'
<1>. USE DEF PipelineInv
<1>1. CASE ParsePropertyKeys(raw)
  <2>1. stage' = "pending" /\ requested' = raw /\ stage = "called"
    BY <1>1 DEF ParseKeys
  <2>2. raw \in Seq(Handles)
    <3>1. raw \in [1..Len(raw) -> Range(raw)] /\ Len(raw) \in Nat
      BY ListIsFunction
    <3>2. Range(raw) \subseteq Handles
      BY <1>1 DEF ParsePropertyKeys
    <3>. QED
      BY <3>2 DEF IsList
  <2>3. TypeOK'
    BY <2>1, <2>2 DEF TypeOK, ParseKeys
  <2>. QED
    BY <1>1, <2>1, <2>3 DEF ParseKeys
<1>2. CASE ~ParsePropertyKeys(raw)
  <2>1. stage' = "input_error" /\ requested' = requested /\ stage = "called"
    BY <1>2 DEF ParseKeys
  <2>2. TypeOK'
    BY <2>1 DEF TypeOK, ParseKeys
  <2>. QED
    BY <2>1, <2>2 DEF ParseKeys
<1>. QED
  BY <1>1, <1>2

LEMMA DecideKeeps ==
  ASSUME PipelineInv, NEW a \in Answers, Decide(a)
  PROVE  PipelineInv'
<1>. USE DEF PipelineInv
<1>1. a.decision \in {"approved", "denied"}
  BY AnswersAreWellFormed DEF WellFormed
<1>2. TypeOK'
  BY <1>1 DEF TypeOK, Decide
<1>3. Accepted(answer)'
  BY DEF Decide, Accepted
<1>. QED
  BY <1>2, <1>3 DEF Decide

LEMMA NothingToDecryptKeeps ==
  ASSUME PipelineInv, NothingToDecrypt
  PROVE  PipelineInv'
<1>. USE DEF PipelineInv
<1>1. TypeOK'
  BY DEF TypeOK, NothingToDecrypt
<1>. QED
  BY <1>1 DEF NothingToDecrypt, Accepted, NothingReleased

LEMMA DecryptKeeps ==
  ASSUME PipelineInv, Decrypt
  PROVE  PipelineInv'
<1>. USE DEF PipelineInv
<1>1. TypeOK'
  BY DEF TypeOK, Decrypt
<1>2. Accepted(answer)' /\ ParsePropertyKeys(requested)'
  BY DEF Decrypt, Accepted
<1>3. CASE Decryptable(Approval, now)
  <2>1. stage' = "disclosed" /\ values' = answer.result.jwe.plain.fields
    BY <1>3 DEF Decrypt
  <2>2. answer' = answer /\ Approval' = Approval /\ now \in Created..Expires
    BY DEF Decrypt, Approval, TypeOK
  <2>3. Released'
    BY <1>3, <2>1, <2>2 DEF Decrypt, Released
  <2>. QED
    BY <1>1, <1>2, <2>1, <2>3 DEF Decrypt
<1>4. CASE ~Decryptable(Approval, now)
  BY <1>1, <1>2, <1>4 DEF Decrypt
<1>. QED
  BY <1>3, <1>4

LEMMA StatusWords ==
  ASSUME NEW status, NEW result
  PROVE  ResultStatus(status, result) \in
           {"approved", "partially_approved", "denied", "unavailable"}
BY DEF ResultStatus

(* Whatever is to be shown can be looked up.                               *)
LEMMA DisclosedIsRenderable ==
  ASSUME PipelineInv, stage = "disclosed"
  PROVE  Renderable(answer.result, values)
<1>. USE DEF PipelineInv
<1>1. /\ Accepted(answer) /\ requested \in Seq(Handles)
      /\ answer.decision \in {"approved", "denied"}
  BY AnswersAreWellFormed DEF TypeOK, Accepted, WellFormed
<1>2. CASE answer.result.approved = <<>>
  BY <1>2 DEF Renderable, Range
<1>3. CASE answer.result.approved # <<>>
  <2>1. Released
    BY <1>1, <1>3, DenialHasNothing DEF NothingReleased
  <2>2. KeysOf(values) = answer.result.approved
    BY <2>1 DEF Released, Decryptable, PlaintextAccepted, Approval
  <2>3. Range(answer.result.approved) \subseteq Range(KeysOf(answer.result.metadata))
    BY <1>1, ApprovedIsDescribed
  <2>. QED
    BY <2>2, <2>3 DEF Renderable
<1>. QED
  BY <1>2, <1>3

LEMMA AcceptedIsListed ==
  ASSUME NEW a, Accepted(a)
  PROVE  IsList(a.result.approved)
<1>1. \A list \in KeyLists(a.result) : IsList(list)
  BY AnswersAreWellFormed DEF Accepted, WellFormed
<1>. QED
  BY <1>1 DEF KeyLists

LEMMA RenderKeeps ==
  ASSUME PipelineInv, Render
  PROVE  PipelineInv'
<1>. USE DEF PipelineInv
<1>1. stage = "disclosed" /\ Renderable(answer.result, values) /\ Accepted(answer)
  BY DisclosedIsRenderable DEF Render
<1>2. /\ stage' = "rendered"
      /\ output' = RequestResult(answer.decision, answer.result, values)
      /\ UNCHANGED <<requested, now, answer, values>>
  BY <1>1 DEF Render
<1>3. output'.status \in {"approved", "partially_approved", "denied", "unavailable"}
  BY <1>1, <1>2, AcceptedIsListed, ResultShows, StatusWords
<1>4. TypeOK'
  BY <1>2, <1>3 DEF TypeOK
<1>5. Accepted(answer)' /\ ParsePropertyKeys(requested)'
  BY <1>1, <1>2 DEF Accepted
<1>6. (NothingReleased \/ Released)'
  BY <1>1, <1>2 DEF NothingReleased, Released, Approval
<1>. QED
  BY <1>2, <1>4, <1>5, <1>6

(* Any step of a call, whatever list it began with. *)
LEMMA CallKeeps ==
  ASSUME PipelineInv, [Next]_vars
  PROVE  PipelineInv'
<1>1. CASE Tick
  BY <1>1, TickKeeps
<1>2. ASSUME NEW raw \in RawRequests, ParseKeys(raw) PROVE PipelineInv'
  BY <1>2, PipelineAssumption, ParseKeeps
<1>3. ASSUME NEW a \in Answers, Decide(a) PROVE PipelineInv'
  BY <1>3, DecideKeeps
<1>4. CASE NothingToDecrypt
  BY <1>4, NothingToDecryptKeeps
<1>5. CASE Decrypt
  BY <1>5, DecryptKeeps
<1>6. CASE Render
  BY <1>6, RenderKeeps
<1>7. CASE UNCHANGED vars
  BY <1>7, StutterKeeps
<1>. QED
  BY <1>1, <1>2, <1>3, <1>4, <1>5, <1>6, <1>7 DEF Next

----------------------------------------------------------------------------
(* What the invariant says of each property.                               *)
LEMMA InvPartitions == PipelineInv => OutputPartitionsRequest
<1>. SUFFICES ASSUME PipelineInv, stage = "rendered", answer.decision = "approved"
              PROVE  OutputPartitionsRequest
  BY DEF OutputPartitionsRequest
<1>. DEFINE r == answer.result
<1>1. Accepted(answer) /\ requested \in Seq(Handles) /\ ParsePropertyKeys(requested)
  BY DEF PipelineInv, TypeOK
<1>2. /\ IsList(requested) /\ PartitionShape(requested, r)
      /\ IsList(r.approved) /\ IsList(r.denied) /\ IsList(r.unavailable)
  BY <1>1, ApprovalDivides
<1>3. /\ IsInjective(r.approved \o r.denied \o r.unavailable)
      /\ Range(r.approved \o r.denied \o r.unavailable) = Range(requested)
      /\ r.approved = InOrder(requested, Range(r.approved))
  BY <1>2 DEF PartitionShape
<1>4. ShownKeys = r.approved /\ output.denied = r.denied
      /\ output.unavailable = r.unavailable
  BY <1>2, ResultShows DEF PipelineInv, ShownKeys
<1>5. Len(r.approved \o r.denied \o r.unavailable) = Len(requested)
  <2>1. IsList(r.approved \o r.denied \o r.unavailable)
    BY <1>2, ThreeLists
  <2>2. IsInjective(requested)
    BY <1>1 DEF ParsePropertyKeys
  <2>. QED
    BY <1>2, <1>3, <2>1, <2>2, SameRangeSameLength
<1>6. \A i, j \in DOMAIN r.approved : i < j =>
        \E m, n \in DOMAIN requested :
          m < n /\ requested[m] = r.approved[i] /\ requested[n] = r.approved[j]
  <2>1. \A i, j \in DOMAIN InOrder(requested, Range(r.approved)) : i < j =>
          \E m, n \in DOMAIN requested :
            /\ m < n
            /\ requested[m] = InOrder(requested, Range(r.approved))[i]
            /\ requested[n] = InOrder(requested, Range(r.approved))[j]
    BY <1>2, InOrderSelects
  <2>. QED
    BY <1>3, <2>1
<1>. QED
  BY <1>3, <1>4, <1>5, <1>6 DEF OutputPartitionsRequest

(* Only Decrypt touches the values, and it has just looked at the clock.   *)
LEMMA DecryptBinds ==
  ASSUME PipelineInv, Decrypt, values' # values
  PROVE  LET jwe == answer.result.jwe
         IN  /\ {jwe.request, jwe.plain.request} = {RequestId}
             /\ {jwe.decisionId, jwe.plain.decisionId} = {answer.decisionId}
             /\ {jwe.keys, KeysOf(values')} = {answer.result.approved}
             /\ {jwe.expires, jwe.plain.expires} \subseteq (now + 1)..Expires
<1>. DEFINE jwe == answer.result.jwe
<1>1. Decryptable(Approval, now) /\ values' = jwe.plain.fields
  BY DEF Decrypt
<1>2. /\ jwe # NoJwe /\ jwe.intact /\ HeaderAccepted(Approval, jwe, now)
      /\ PlaintextAccepted(Approval, jwe)
  BY <1>1 DEF Decryptable, Approval
<1>3. /\ jwe.request = RequestId /\ jwe.decisionId = answer.decisionId
      /\ jwe.keys = answer.result.approved /\ jwe.expires <= Expires /\ now < jwe.expires
  BY <1>2 DEF HeaderAccepted, Approval
<1>4. /\ jwe.plain.request = RequestId /\ jwe.plain.decisionId = answer.decisionId
      /\ KeysOf(values') = answer.result.approved /\ jwe.plain.expires = jwe.expires
  BY <1>1, <1>2 DEF PlaintextAccepted, Approval
<1>5. jwe.expires \in Int
  <2>1. Accepted(answer)
    BY DEF PipelineInv, Decrypt
  <2>. QED
    BY <1>2, <2>1, AnswersAreWellFormed DEF Accepted, WellFormed
<1>6. jwe.expires \in (now + 1)..Expires
  <2>1. now \in Int
    BY Times DEF PipelineInv, TypeOK
  <2>. QED
    BY <1>3, <1>5, <2>1, Times
<1>. QED
  BY <1>3, <1>4, <1>6

LEMMA InvTells == PipelineInv => StatusTellsWhatHappened
<1>. SUFFICES ASSUME PipelineInv, stage = "rendered" PROVE StatusTellsWhatHappened
  BY DEF StatusTellsWhatHappened
<1>. DEFINE r == answer.result
<1>1. /\ Accepted(answer) /\ requested \in Seq(Handles) /\ ParsePropertyKeys(requested)
      /\ answer.decision \in {"approved", "denied"}
  BY AnswersAreWellFormed DEF PipelineInv, TypeOK, Accepted, WellFormed
<1>2. ShownKeys = r.approved /\ output.status = ResultStatus(answer.decision, r)
  BY <1>1, AcceptedIsListed, ResultShows DEF PipelineInv, ShownKeys
<1>3. requested # <<>>
  BY <1>1 DEF ParsePropertyKeys
<1>4. CASE answer.decision = "denied"
  BY <1>2, <1>3, <1>1, <1>4, DenialHasNothing DEF ResultStatus, StatusTellsWhatHappened
<1>5. CASE answer.decision = "approved"
  <2>1. r.approved = requested <=> r.denied \o r.unavailable = <<>>
    BY <1>1, <1>5, AllIsApproved
  <2>. QED
    BY <1>2, <1>3, <1>5, <2>1 DEF ResultStatus, StatusTellsWhatHappened
<1>. QED
  BY <1>1, <1>4, <1>5

LEMMA InvImplies ==
  PipelineInv => /\ TypeOK /\ RenderingNeverFails /\ OutputPartitionsRequest
                 /\ StatusTellsWhatHappened
BY InvPartitions, InvTells DEF PipelineInv, RenderingNeverFails

----------------------------------------------------------------------------
(* The invariant of discovery.  Every version in a partition was accepted, *)
(* and put by the account of the partition.                                *)
IndexInv ==
  /\ index \in [Partitions -> Seq([by : Accounts, properties : Manifests])]
  /\ \A p \in Partitions : \A v \in DOMAIN index[p] :
       PartitionKey(index[p][v].by) = p /\ ManifestAccepted(index[p][v].properties)

DiscoveryInv ==
  /\ PipelineInv
  /\ IndexInv
  /\ OwnManifestIsListed
  /\ informed => stage \notin {"called", "input_error"}

LEMMA PartitionIsAccounts ==
  ASSUME NEW a \in Accounts, NEW b \in Accounts, PartitionKey(a) = PartitionKey(b)
  PROVE  a = b
<1>1. a.tenant = b.tenant /\ a.object = b.object
  BY DEF PartitionKey
<1>2. a = [tenant |-> a.tenant, object |-> a.object]
  BY DiscoveryAssumption
<1>3. b = [tenant |-> b.tenant, object |-> b.object]
  BY DiscoveryAssumption
<1>. QED
  BY <1>1, <1>2, <1>3

LEMMA LogGrows ==
  ASSUME NEW P, NEW T, NEW f \in [P -> Seq(T)], NEW q \in P, NEW x \in T
  PROVE  [f EXCEPT ![q] = Append(@, x)] \in [P -> Seq(T)]
OBVIOUS

LEMMA DiscoveryStarts == DiscoveryInit => DiscoveryInv
<1>. SUFFICES ASSUME DiscoveryInit PROVE DiscoveryInv
  OBVIOUS
<1>1. PipelineInv
  BY PipelineInit DEF DiscoveryInit
<1>2. IndexInv
  BY DEF DiscoveryInit, IndexInv
<1>. QED
  BY <1>1, <1>2 DEF DiscoveryInit, DiscoveryInv, OwnManifestIsListed

LEMMA PutKeeps ==
  ASSUME DiscoveryInv, NEW account \in Accounts, NEW properties \in Manifests,
         PutPropertyIndex(account, properties)
  PROVE  DiscoveryInv'
<1>. DEFINE k == PartitionKey(account)
            version == [by |-> account, properties |-> properties]
<1>1. /\ index' = [index EXCEPT ![k] = Append(@, version)]
      /\ ManifestAccepted(properties)
      /\ UNCHANGED vars /\ UNCHANGED <<listed, informed>>
  BY DEF PutPropertyIndex
<1>2. PipelineInv'
  BY <1>1, StutterKeeps DEF DiscoveryInv
<1>3. /\ k \in Partitions /\ version \in [by : Accounts, properties : Manifests]
      /\ version.by = account /\ version.properties = properties
  BY DEF Partitions
<1>4. index \in [Partitions -> Seq([by : Accounts, properties : Manifests])]
  BY DEF DiscoveryInv, IndexInv
<1>. HIDE DEF version
<1>5. index' \in [Partitions -> Seq([by : Accounts, properties : Manifests])]
  <2>. HIDE DEF k
  <2>. QED
    BY <1>1, <1>3, <1>4, LogGrows
<1>6. ASSUME NEW p \in Partitions
      PROVE  /\ index[p] \in Seq([by : Accounts, properties : Manifests])
             /\ \A v \in DOMAIN index[p] : v \in DOMAIN index'[p] /\ index'[p][v] = index[p][v]
             /\ \A v \in DOMAIN index'[p] :
                   v \in DOMAIN index[p] \/ (p = k /\ index'[p][v] = version)
  <2>. HIDE DEF k
  <2>1. index[p] \in Seq([by : Accounts, properties : Manifests])
    BY <1>4
  <2>2. CASE p = k
    <3>1. index'[p] = Append(index[p], version)
      BY <1>1, <1>3, <1>4, <2>2
    <3>. QED
      BY <1>3, <2>1, <2>2, <3>1
  <2>3. CASE p # k
    <3>1. index'[p] = index[p]
      BY <1>1, <1>3, <1>4, <2>3
    <3>. QED
      BY <2>1, <3>1
  <2>. QED
    BY <2>2, <2>3
<1>7. Partitions' = Partitions
  BY DEF Partitions, PartitionKey
<1>8. IndexInv'
  <2>1. ASSUME NEW p \in Partitions, NEW v \in DOMAIN index'[p]
        PROVE  /\ PartitionKey(index'[p][v].by) = p
               /\ ManifestAccepted(index'[p][v].properties)
    <3>1. CASE v \in DOMAIN index[p]
      BY <1>6, <3>1 DEF DiscoveryInv, IndexInv
    <3>2. CASE p = k /\ index'[p][v] = version
      BY <1>1, <1>3, <3>2
    <3>. QED
      BY <1>6, <2>1, <3>1, <3>2
  <2>. QED
    BY <1>5, <1>7, <2>1 DEF IndexInv, PartitionKey, ManifestAccepted
<1>9. OwnManifestIsListed'
  <2>. SUFFICES ASSUME listed # <<>>
                PROVE  \E p \in Partitions : \E v \in DOMAIN index'[p] :
                         index'[p][v] = [by |-> Caller, properties |-> listed]
    BY <1>1, <1>7 DEF OwnManifestIsListed
  <2>. QED
    BY <1>6 DEF DiscoveryInv, OwnManifestIsListed
<1>. QED
  BY <1>1, <1>2, <1>8, <1>9 DEF DiscoveryInv, vars

LEMMA ListKeeps ==
  ASSUME DiscoveryInv, ListAvailableProperties
  PROVE  DiscoveryInv'
<1>. DEFINE k == PartitionKey(Caller)
<1>1. UNCHANGED vars /\ UNCHANGED <<index, informed>>
  BY DEF ListAvailableProperties
<1>2. PipelineInv' /\ IndexInv'
  BY <1>1, StutterKeeps DEF DiscoveryInv, IndexInv, Partitions, PartitionKey, ManifestAccepted
<1>3. PICK v \in 0 .. Len(index[k]) :
        listed' = IF v = 0 THEN <<>> ELSE index[k][v].properties
  BY DEF ListAvailableProperties
<1>4. Caller \in Accounts /\ k \in Partitions
  BY DiscoveryAssumption DEF Partitions
<1>5. index[k] \in Seq([by : Accounts, properties : Manifests])
  BY <1>4 DEF DiscoveryInv, IndexInv
<1>6. ASSUME v # 0
      PROVE  v \in DOMAIN index[k] /\ index[k][v] = [by |-> Caller, properties |-> listed']
  <2>1. v \in DOMAIN index[k] /\ index[k][v] \in [by : Accounts, properties : Manifests]
    <3>1. ASSUME NEW T, NEW s \in Seq(T), NEW w \in 0..Len(s), w # 0
          PROVE  w \in DOMAIN s /\ s[w] \in T
      BY <3>1
    <3>. QED
      BY <1>5, <1>6, <3>1
  <2>2. PartitionKey(index[k][v].by) = k
    BY <1>4, <2>1 DEF DiscoveryInv, IndexInv
  <2>3. index[k][v].by = Caller
    BY <1>4, <2>1, <2>2, PartitionIsAccounts
  <2>. QED
    BY <1>3, <1>6, <2>1, <2>3
<1>7. OwnManifestIsListed'
  <2>. SUFFICES ASSUME listed' # <<>>
                PROVE  \E p \in Partitions : \E w \in DOMAIN index[p] :
                         index[p][w] = [by |-> Caller, properties |-> listed']
    BY <1>1 DEF OwnManifestIsListed, Partitions, PartitionKey
  <2>. QED
    BY <1>3, <1>4, <1>6
<1>. QED
  BY <1>1, <1>2, <1>7 DEF DiscoveryInv, vars

(* What is listed passed the checks of the route by which it was put; the  *)
(* parser asks for no more of a choice from it.                            *)
LEMMA ListedIsAccepted ==
  ASSUME DiscoveryInv PROVE Range(KeysOf(listed)) \subseteq Handles
<1>1. CASE listed = <<>>
  BY <1>1 DEF KeysOf, Range
<1>2. CASE listed # <<>>
  <2>1. PICK p \in Partitions : \E v \in DOMAIN index[p] :
          index[p][v] = [by |-> Caller, properties |-> listed]
    BY <1>2 DEF DiscoveryInv, OwnManifestIsListed
  <2>2. PICK v \in DOMAIN index[p] : index[p][v] = [by |-> Caller, properties |-> listed]
    BY <2>1
  <2>3. ManifestAccepted(index[p][v].properties) /\ index[p][v].properties = listed
    BY <2>2 DEF DiscoveryInv, IndexInv
  <2>. QED
    BY <2>3 DEF ManifestAccepted, KeysOf, Range
<1>. QED
  BY <1>1, <1>2

LEMMA ChoiceParses ==
  ASSUME DiscoveryInv, NEW choice \in ChoicesOf(KeysOf(listed))
  PROVE  IsList(choice) /\ ParsePropertyKeys(choice)
<1>. DEFINE K == Range(KeysOf(listed))
<1>1. IsInjective(choice) /\ choice # <<>> /\ choice \in SeqOf(K, MaxRequested)
  BY DEF ChoicesOf
<1>2. PICK m \in 0..MaxRequested : choice \in [1..m -> K]
  BY <1>1 DEF SeqOf
<1>3. m \in Nat /\ m <= MaxRequested
  BY <1>2, ResultAssumption
<1>. HIDE DEF K
<1>4. choice \in Seq(K) /\ Len(choice) = m
  BY <1>2, <1>3
<1>5. Len(choice) \in 1..MaxRequested
  BY <1>1, <1>3, <1>4, ResultAssumption
<1>6. Range(choice) \subseteq K
  BY <1>2 DEF Range
<1>7. K \subseteq Handles
  BY ListedIsAccepted DEF K
<1>. QED
  BY <1>1, <1>4, <1>5, <1>6, <1>7, SeqIsList DEF ParsePropertyKeys

LEMMA RequestKeeps ==
  ASSUME DiscoveryInv, RequestListed
  PROVE  DiscoveryInv'
<1>1. PICK choice \in ChoicesOf(KeysOf(listed)) : ParseKeys(choice)
  BY DEF RequestListed
<1>2. IsList(choice) /\ ParsePropertyKeys(choice)
  BY ChoiceParses
<1>3. PipelineInv'
  BY <1>1, <1>2, ParseKeeps DEF DiscoveryInv
<1>4. stage' = "pending"
  BY <1>1, <1>2 DEF ParseKeys
<1>5. UNCHANGED <<index, listed>>
  BY DEF RequestListed
<1>. QED
  BY <1>3, <1>4, <1>5 DEF DiscoveryInv, IndexInv, OwnManifestIsListed, Partitions,
     PartitionKey, ManifestAccepted

(* A call that has been made does not become one that has not.             *)
LEMMA CallGoesOn ==
  ASSUME [Next]_vars, stage \notin {"called", "input_error"}
  PROVE  stage' \notin {"called", "input_error"}
<1>1. CASE Tick \/ UNCHANGED vars
  BY <1>1 DEF Tick, vars
<1>2. ASSUME NEW raw, ParseKeys(raw) PROVE FALSE
  BY <1>2 DEF ParseKeys
<1>3. ASSUME NEW a, Decide(a) PROVE stage' = "decided"
  BY <1>3 DEF Decide
<1>4. CASE NothingToDecrypt \/ Decrypt \/ Render
  BY <1>4 DEF NothingToDecrypt, Decrypt, Render
<1>. QED
  BY <1>1, <1>2, <1>3, <1>4 DEF Next

LEMMA DiscoveryKeeps ==
  ASSUME DiscoveryInv, [DiscoveryNext]_<<vars, discoveryVars>>
  PROVE  DiscoveryInv'
<1>1. ASSUME NEW account \in Accounts, NEW m \in Manifests, PutPropertyIndex(account, m)
      PROVE  DiscoveryInv'
  BY <1>1, PutKeeps
<1>2. CASE ListAvailableProperties
  BY <1>2, ListKeeps
<1>3. CASE RequestListed
  BY <1>3, RequestKeeps
<1>4. CASE [Next]_vars /\ UNCHANGED discoveryVars
  <2>1. PipelineInv'
    BY <1>4, CallKeeps DEF DiscoveryInv
  <2>2. informed => stage' \notin {"called", "input_error"}
    BY <1>4, CallGoesOn DEF DiscoveryInv
  <2>. QED
    BY <1>4, <2>1, <2>2 DEF discoveryVars, DiscoveryInv, IndexInv, OwnManifestIsListed,
       Partitions, PartitionKey, ManifestAccepted
<1>. QED
  BY <1>1, <1>2, <1>3, <1>4 DEF DiscoveryNext

----------------------------------------------------------------------------
(* The inductive invariants: of a call with any keys (app.py:166-179), and *)
(* of one that follows the phone's index (mobile_api.py:163, app.py:146).  *)
THEOREM CallInvariant == Spec => []PipelineInv
<1>. QED
  BY PipelineInit, CallKeeps, PTL DEF Spec

THEOREM DiscoveryInvariant == DiscoverySpec => []DiscoveryInv
<1>. QED
  BY DiscoveryStarts, DiscoveryKeeps, PTL DEF DiscoverySpec

(* Every stage carries what its type says, for any answers whatever.       *)
THEOREM PipelineTypeCorrect == DiscoverySpec => []TypeOK
<1>1. DiscoveryInv => TypeOK
  BY InvImplies DEF DiscoveryInv
<1>. QED
  BY <1>1, DiscoveryInvariant, PTL

(* request_result (tools.py:76) never raises on a decision that the        *)
(* service accepted: validation and decryption supply all it looks up.     *)
THEOREM EveryDecisionRenders == DiscoverySpec => []RenderingNeverFails
<1>1. DiscoveryInv => RenderingNeverFails
  BY InvImplies DEF DiscoveryInv
<1>. QED
  BY <1>1, DiscoveryInvariant, PTL

(* Of an approved request every key comes back once, in one list, and the  *)
(* values in the order of the request (approval.py:276-284).               *)
THEOREM RequestsComeBack == DiscoverySpec => []OutputPartitionsRequest
<1>1. DiscoveryInv => OutputPartitionsRequest
  BY InvImplies DEF DiscoveryInv
<1>. QED
  BY <1>1, DiscoveryInvariant, PTL

(* Values are those of a disclosure made for this approval and decision,   *)
(* opened while it is valid and in the approval's life                     *)
(* (disclosure.py:164-194, 269-318).                                       *)
THEOREM ValuesAreBound == DiscoverySpec => ValuesBoundToDecision
<1>. DEFINE Bound == LET jwe == answer.result.jwe
                     IN  /\ {jwe.request, jwe.plain.request} = {RequestId}
                         /\ {jwe.decisionId, jwe.plain.decisionId} = {answer.decisionId}
                         /\ {jwe.keys, KeysOf(values')} = {answer.result.approved}
                         /\ {jwe.expires, jwe.plain.expires} \subseteq (now + 1)..Expires
<1>1. DiscoveryInv /\ [DiscoveryNext]_<<vars, discoveryVars>> => [values' # values => Bound]_vars
  <2>. SUFFICES ASSUME DiscoveryInv, DiscoveryNext, values' # values PROVE Bound
    BY DEF vars
  <2>1. CASE Decrypt
    BY <2>1, DecryptBinds DEF DiscoveryInv
  <2>2. ASSUME NEW raw, ParseKeys(raw) PROVE FALSE
    BY <2>2 DEF ParseKeys
  <2>3. CASE Tick \/ NothingToDecrypt \/ Render \/ ListAvailableProperties
    BY <2>3 DEF Tick, NothingToDecrypt, Render, ListAvailableProperties, vars
  <2>4. ASSUME NEW account, NEW m, PutPropertyIndex(account, m) PROVE FALSE
    BY <2>4 DEF PutPropertyIndex, vars
  <2>5. ASSUME NEW a, Decide(a) PROVE FALSE
    BY <2>5 DEF Decide
  <2>6. CASE RequestListed
    BY <2>2, <2>6 DEF RequestListed
  <2>. QED
    BY <2>1, <2>2, <2>3, <2>4, <2>5, <2>6 DEF DiscoveryNext, Next
<1>. QED
  BY <1>1, DiscoveryInvariant, PTL DEF DiscoverySpec, ValuesBoundToDecision

(* The status word (tools.py:89-96) says what the user did.                *)
THEOREM StatusIsTrue == DiscoverySpec => []StatusTellsWhatHappened
<1>1. DiscoveryInv => StatusTellsWhatHappened
  BY InvImplies DEF DiscoveryInv
<1>. QED
  BY <1>1, DiscoveryInvariant, PTL

(* What the route of the phone lets into the index (catalog.py:27) the     *)
(* parser of the tool lets into a request (catalog.py:15).                 *)
THEOREM ListedKeysParse == DiscoverySpec => []ListedKeysAreAccepted
<1>1. DiscoveryInv => ListedKeysAreAccepted
  BY DEF DiscoveryInv, ListedKeysAreAccepted
<1>. QED
  BY <1>1, DiscoveryInvariant, PTL

(* A caller lists one manifest of its own user, whole (models.py:31,       *)
(* store.py:468-490), whatever the accounts, PUTs and their order.         *)
THEOREM ListsAreOwn == DiscoverySpec => []OwnManifestIsListed
<1>1. DiscoveryInv => OwnManifestIsListed
  BY DEF DiscoveryInv
<1>. QED
  BY <1>1, DiscoveryInvariant, PTL
=============================================================================
