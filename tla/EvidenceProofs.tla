---------------------------- MODULE EvidenceProofs ---------------------------
(***************************************************************************)
(* What Resolver, Firewall, Redaction, Compare, ProxySelection and         *)
(* Resolvectl promise, for every input.                                    *)
(***************************************************************************)
EXTENDS Resolver, Firewall, Redaction, Compare, ProxySelection, Resolvectl,
        FiniteSetTheorems, SequenceTheorems, TLAPS

------------------------------------------------------------------------------
(***************************************************************************)
(* Resolver for every set of addresses, every answer and every limit.      *)
(* After n positions the loop has kept the first usable addresses among    *)
(* them, each at its rank; `seen` is what tells a first appearance from a  *)
(* later one.  The loop stops early exactly at the first usable address    *)
(* whose rank is over the limit, which shows that there are too many       *)
(* without looking at the rest.                                            *)
(***************************************************************************)
Upto(n) == {j \in FirstUsable : j <= n}

Collected(n) ==
  /\ ~ truncated
  /\ seen = {answer[j] : j \in {k \in 1..n : Allowed(answer[k])}}
  /\ Len(addresses) = Cardinality(Upto(n))
  /\ \A i \in Upto(n) : Rank(i) \in 1..Len(addresses) /\ addresses[Rank(i)] = answer[i]
  /\ \A k \in 1..Len(addresses) :
       \E i \in Upto(n) : Rank(i) = k /\ addresses[k] = answer[i]

Idle ==
  /\ answer = <<>> /\ next = 1 /\ seen = {}
  /\ addresses = <<>> /\ ~ truncated

RInv ==
  /\ ResolverTypeOK
  /\ status = "lookup" => Idle
  /\ status = "collecting" => Collected(next - 1)
  /\ ResolvedExactly

\* ResolvedExactly, of the addresses kept when the loop ends.
Exact(cut) ==
  /\ cut <=> Cardinality(FirstUsable) > MaxResolved
  /\ addresses # <<>> <=> FirstUsable # {}
  /\ Range(addresses) = {answer[i] : i \in {j \in FirstUsable : Rank(j) <= MaxResolved}}
  /\ \A i \in FirstUsable : Rank(i) <= MaxResolved => addresses[Rank(i)] = answer[i]
  /\ Len(addresses) = Cardinality(Range(addresses))

------------------------------------------------------------------------------
LEMMA AnswerIsSeq ==
  ASSUME ResolverTypeOK
  PROVE  /\ answer \in Seq(Address)
         /\ DOMAIN answer = 1..Len(answer) /\ Len(answer) \in Nat
         /\ \A i \in 1..Len(answer) : answer[i] \in Address
<1>1. answer \in Seq(Address)
  <2>1. <<>> \in Seq(Address)
    BY EmptySeq
  <2>2. QED
    BY <2>1, ResolverAssumption DEF ResolverTypeOK
<1>2. QED
  BY <1>1, LenProperties, ElementOfSeq

LEMMA UptoFinite ==
  ASSUME ResolverTypeOK
  PROVE  /\ \A i \in FirstUsable : i \in 1..Len(answer) /\ i \in Nat
         /\ IsFiniteSet(FirstUsable) /\ Cardinality(FirstUsable) \in Nat
         /\ Upto(Len(answer)) = FirstUsable
         /\ \A n \in Int : /\ IsFiniteSet(Upto(n)) /\ Cardinality(Upto(n)) \in Nat
                           /\ Cardinality(Upto(n)) <= Cardinality(FirstUsable)
         /\ \A i : Rank(i) = Cardinality(Upto(i))
<1>1. FirstUsable \subseteq 1..Len(answer) /\ Len(answer) \in Nat
  BY AnswerIsSeq DEF FirstUsable
<1>2. IsFiniteSet(FirstUsable) /\ Cardinality(FirstUsable) \in Nat
  <2>1. IsFiniteSet(1..Len(answer)) /\ FirstUsable \in SUBSET (1..Len(answer))
    BY <1>1, FS_Interval
  <2>2. QED
    BY <2>1, FS_Subset, FS_CardinalityType
<1>3. ASSUME NEW n \in Int
      PROVE  /\ IsFiniteSet(Upto(n)) /\ Cardinality(Upto(n)) \in Nat
             /\ Cardinality(Upto(n)) <= Cardinality(FirstUsable)
  <2>1. Upto(n) \in SUBSET FirstUsable
    BY DEF Upto
  <2>2. QED
    BY <1>2, <2>1, FS_Subset, FS_CardinalityType
<1>4. /\ \A i \in FirstUsable : i \in 1..Len(answer) /\ i \in Nat
      /\ Upto(Len(answer)) = FirstUsable
  <2>1. \A i \in FirstUsable : i \in 1..Len(answer) /\ i \in Nat /\ i <= Len(answer)
    BY <1>1
  <2>2. Upto(Len(answer)) = FirstUsable
    BY <2>1 DEF Upto
  <2>3. QED
    BY <2>1, <2>2
<1>5. \A i : Rank(i) = Cardinality(Upto(i))
  BY DEF Rank, Upto
<1>6. QED
  BY <1>1, <1>2, <1>3, <1>4, <1>5

\* What the loop skips is what is no first usable appearance.
LEMMA SkipsAllButFirst ==
  ASSUME ResolverTypeOK, NEW n \in 1..Len(answer), Collected(n - 1)
  PROVE  Skips(answer[n]) <=> n \notin FirstUsable
<1>1. DOMAIN answer = 1..Len(answer) /\ Len(answer) \in Nat
  BY AnswerIsSeq
<1>2. seen = {answer[j] : j \in {k \in 1..(n - 1) : Allowed(answer[k])}}
  BY DEF Collected
<1>3. Allowed(answer[n]) =>
        (answer[n] \notin seen <=> \A j \in 1..(n - 1) : answer[j] # answer[n])
  BY <1>2
<1>4. QED
  BY <1>1, <1>3 DEF Skips, FirstUsable

LEMMA UptoNext ==
  ASSUME ResolverTypeOK, NEW n \in 1..Len(answer)
  PROVE  /\ n \notin FirstUsable => Upto(n) = Upto(n - 1)
         /\ n \in FirstUsable => /\ Upto(n) = Upto(n - 1) \cup {n}
                                 /\ Rank(n) = Cardinality(Upto(n - 1)) + 1
<1>1. (\A i \in FirstUsable : i \in Nat) /\ n \in Nat
  BY UptoFinite, AnswerIsSeq
<1>2. ASSUME n \notin FirstUsable
      PROVE  Upto(n) = Upto(n - 1)
  <2>1. \A i \in FirstUsable : i <= n <=> i <= n - 1
    BY <1>1, <1>2
  <2>2. QED
    BY <2>1 DEF Upto
<1>3. ASSUME n \in FirstUsable
      PROVE  /\ Upto(n) = Upto(n - 1) \cup {n}
             /\ Rank(n) = Cardinality(Upto(n - 1)) + 1
  <2>0. (\A i \in FirstUsable : i <= n <=> i <= n - 1 \/ i = n) /\ n <= n /\ ~ n <= n - 1
    BY <1>1
  <2>1. Upto(n) = Upto(n - 1) \cup {n} /\ n \notin Upto(n - 1)
    BY <2>0, <1>3 DEF Upto
  <2>2. IsFiniteSet(Upto(n - 1)) /\ Rank(n) = Cardinality(Upto(n))
    BY <1>1, UptoFinite
  <2>3. \A T, x : IsFiniteSet(T) /\ x \notin T => Cardinality(T \cup {x}) = Cardinality(T) + 1
    BY FS_AddElement
  <2>4. Cardinality(Upto(n - 1) \cup {n}) = Cardinality(Upto(n - 1)) + 1
    BY <2>1, <2>2, <2>3, Zenon
  <2>5. QED
    BY <2>1, <2>2, <2>4, Zenon
<1>4. QED
  BY <1>2, <1>3

\* A first usable address after the n-th position ranks behind all up to it.
LEMMA RankBeyond ==
  ASSUME ResolverTypeOK, NEW n \in Nat, NEW i \in FirstUsable, i > n
  PROVE  Rank(i) > Cardinality(Upto(n))
<1>1. i \in Nat /\ \A j \in FirstUsable : j \in Nat
  BY UptoFinite
<1>2. Upto(n) \cup {i} \in SUBSET Upto(i) /\ i \notin Upto(n)
  <2>1. (\A j \in FirstUsable : j <= n => j <= i) /\ i <= i /\ ~ i <= n
    BY <1>1
  <2>2. QED
    BY <2>1 DEF Upto
<1>3. /\ IsFiniteSet(Upto(i)) /\ IsFiniteSet(Upto(n)) /\ Rank(i) = Cardinality(Upto(i))
      /\ Cardinality(Upto(i)) \in Nat /\ Cardinality(Upto(n)) \in Nat
  BY <1>1, UptoFinite
<1>4. Cardinality(Upto(n) \cup {i}) = Cardinality(Upto(n)) + 1
  BY <1>2, <1>3, FS_AddElement
<1>5. Cardinality(Upto(n) \cup {i}) <= Cardinality(Upto(i))
  BY <1>2, <1>3, FS_Subset
<1>6. QED
  BY <1>3, <1>4, <1>5

\* No address is kept twice.
LEMMA KeptOnce ==
  ASSUME ResolverTypeOK, NEW n \in Nat, Collected(n)
  PROVE  Len(addresses) = Cardinality(Range(addresses))
<1>1. addresses \in Seq(Address) /\ Len(addresses) \in Nat
  BY LenProperties DEF ResolverTypeOK
<1>2. addresses \in [1..Len(addresses) -> Range(addresses)]
      /\ Range(addresses) = {addresses[k] : k \in 1..Len(addresses)}
  BY <1>1, LenProperties, RangeEquality
<1>3. ASSUME NEW k \in 1..Len(addresses), NEW l \in 1..Len(addresses),
             addresses[k] = addresses[l]
      PROVE  k = l
  <2>1. PICK i \in Upto(n) : Rank(i) = k /\ addresses[k] = answer[i]
    BY DEF Collected
  <2>2. PICK j \in Upto(n) : Rank(j) = l /\ addresses[l] = answer[j]
    BY DEF Collected
  <2>3. /\ i \in FirstUsable /\ i \in Nat /\ i >= 1
        /\ j \in FirstUsable /\ j \in Nat /\ j >= 1
        /\ answer[i] = answer[j]
    <3>1. \A p \in FirstUsable : p \in Nat /\ p >= 1
      BY UptoFinite, AnswerIsSeq
    <3>2. i \in FirstUsable /\ j \in FirstUsable
      BY DEF Upto
    <3>3. QED
      BY <1>3, <2>1, <2>2, <3>1, <3>2
  <2>4. ~ i < j /\ ~ j < i
    BY <2>3 DEF FirstUsable
  <2>5. QED
    BY <2>1, <2>2, <2>3, <2>4
<1>4. ExistsBijection(1..Len(addresses), Range(addresses))
  BY <1>2, <1>3 DEF ExistsBijection, Bijection, Injection, Surjection, IsInjective
<1>5. QED
  BY <1>1, <1>4, FS_CountingElements

\* The two ends of the loop: every position looked at, or one too many found.
LEMMA ExhaustedIsExact ==
  ASSUME ResolverTypeOK, Collected(Len(answer))
  PROVE  Exact(FALSE)
<1>1. /\ Upto(Len(answer)) = FirstUsable /\ Len(answer) \in Nat
      /\ IsFiniteSet(FirstUsable) /\ Cardinality(FirstUsable) \in Nat
  BY UptoFinite, AnswerIsSeq
<1>2. /\ Len(addresses) = Cardinality(FirstUsable)
      /\ \A i \in FirstUsable : Rank(i) \in 1..Len(addresses) /\ addresses[Rank(i)] = answer[i]
      /\ \A k \in 1..Len(addresses) :
           \E i \in FirstUsable : Rank(i) = k /\ addresses[k] = answer[i]
  BY <1>1 DEF Collected
<1>3. /\ addresses \in Seq(Address) /\ Len(addresses) <= MaxResolved /\ Len(addresses) \in Nat
      /\ Range(addresses) = {addresses[k] : k \in 1..Len(addresses)}
      /\ MaxResolved \in Nat
  BY LenProperties, RangeEquality, ResolverAssumption DEF ResolverTypeOK
<1>4. \A i \in FirstUsable : Rank(i) <= MaxResolved
  BY <1>2, <1>3
<1>5. addresses # <<>> <=> FirstUsable # {}
  BY <1>1, <1>2, <1>3, FS_EmptySet, EmptySeq
<1>6. Range(addresses) = {answer[i] : i \in {j \in FirstUsable : Rank(j) <= MaxResolved}}
  BY <1>2, <1>3, <1>4
<1>7. QED
  BY <1>1, <1>2, <1>3, <1>5, <1>6, KeptOnce DEF Exact

LEMMA CutIsExact ==
  ASSUME ResolverTypeOK, NEW n \in FirstUsable, Collected(n - 1), Len(addresses) = MaxResolved
  PROVE  Exact(TRUE)
<1>1. /\ n \in 1..Len(answer) /\ n - 1 \in Nat /\ \A i \in FirstUsable : i \in Nat
      /\ MaxResolved \in Nat /\ MaxResolved > 0
  <2>1. \A i \in FirstUsable : i \in 1..Len(answer) /\ i \in Nat
    BY UptoFinite
  <2>2. MaxResolved \in Nat \ {0}
    BY ResolverAssumption
  <2>3. QED
    BY <2>1, <2>2
<1>2. /\ MaxResolved = Cardinality(Upto(n - 1))
      /\ \A i \in Upto(n - 1) : Rank(i) \in 1..MaxResolved /\ addresses[Rank(i)] = answer[i]
      /\ \A k \in 1..MaxResolved :
           \E i \in Upto(n - 1) : Rank(i) = k /\ addresses[k] = answer[i]
  BY DEF Collected
<1>3. Upto(n - 1) = {j \in FirstUsable : Rank(j) <= MaxResolved}
  <2>1. ASSUME NEW j \in FirstUsable, ~ j <= n - 1
        PROVE  ~ Rank(j) <= MaxResolved
    <3>1. j > n - 1 /\ j \in Int
      BY <1>1, <2>1
    <3>2. Rank(j) > MaxResolved
      BY <1>1, <1>2, <3>1, RankBeyond
    <3>3. Rank(j) \in Nat
      BY <3>1, UptoFinite
    <3>4. QED
      BY <1>1, <3>2, <3>3
  <2>2. \A j \in Upto(n - 1) : Rank(j) <= MaxResolved
    BY <1>1, <1>2
  <2>3. QED
    BY <2>1, <2>2 DEF Upto
<1>4. Cardinality(FirstUsable) > MaxResolved
  <2>1. Rank(n) = MaxResolved + 1 /\ Rank(n) = Cardinality(Upto(n))
    BY <1>1, <1>2, UptoNext, UptoFinite
  <2>2. QED
    BY <1>1, <2>1, UptoFinite
<1>5. /\ addresses \in Seq(Address)
      /\ Range(addresses) = {addresses[k] : k \in 1..MaxResolved}
  BY RangeEquality DEF ResolverTypeOK
<1>6. Range(addresses) = {answer[i] : i \in Upto(n - 1)}
  BY <1>2, <1>5
<1>7. addresses # <<>>
  BY <1>1, EmptySeq
<1>8. QED
  BY <1>1, <1>2, <1>3, <1>4, <1>6, <1>7, KeptOnce DEF Exact

LEMMA RInvInit == ResolverInit => RInv
<1> SUFFICES ASSUME ResolverInit PROVE RInv
  OBVIOUS
<1>1. Len(<<>>) = 0 /\ <<>> \in Seq(Address) /\ MaxResolved \in Nat
  BY EmptySeq, ResolverAssumption
<1>2. ResolverTypeOK
  <2>1. answer = <<>> /\ next = 1 /\ addresses = <<>> /\ Len(answer) = 0 /\ Len(addresses) = 0
    BY <1>1 DEF ResolverInit
  <2>2. next \in 1..(Len(answer) + 1) /\ Len(addresses) <= MaxResolved
    BY <1>1, <2>1
  <2>3. literal \subseteq Address
    BY DEF ResolverInit
  <2>4. QED
    BY <1>1, <2>1, <2>2, <2>3 DEF ResolverInit, ResolverTypeOK
<1>3. Idle /\ ResolvedExactly /\ status = "lookup"
  BY DEF ResolverInit, Idle, ResolvedExactly, LookupEnded
<1>4. QED
  BY <1>2, <1>3 DEF RInv

\* Before the loop nothing was collected.
LEMMA NothingCollected ==
  ResolverTypeOK /\ ~ truncated /\ seen = {} /\ addresses = <<>> => Collected(0)
<1> SUFFICES ASSUME ResolverTypeOK, ~ truncated, seen = {}, addresses = <<>>
             PROVE  Collected(0)
  OBVIOUS
<1>1. Upto(0) = {} /\ 1..0 = {}
  <2>1. \A i \in FirstUsable : i \in 1..Len(answer) /\ i \in Nat
    BY UptoFinite
  <2>2. \A i \in FirstUsable : ~ i <= 0
    BY <2>1
  <2>3. QED
    BY <2>2 DEF Upto
<1>2. Len(addresses) = 0 /\ Cardinality(Upto(0)) = 0
  BY <1>1, FS_EmptySet, EmptySeq
<1>3. 1..Len(addresses) = {} /\ Len(addresses) = Cardinality(Upto(0))
  BY <1>1, <1>2
<1>4. QED
  BY <1>1, <1>3 DEF Collected

\* One more position: skipped, or kept at the rank it has.
LEMMA SkippedIsCollected ==
  ASSUME ResolverTypeOK, NEW n \in 1..Len(answer), Collected(n - 1), Skips(answer[n])
  PROVE  /\ Upto(n) = Upto(n - 1)
         /\ {answer[j] : j \in {k \in 1..n : Allowed(answer[k])}} =
              IF Allowed(answer[n]) THEN seen \cup {answer[n]} ELSE seen
<1>1. n \notin FirstUsable
  BY SkipsAllButFirst DEF Collected
<1>2. Upto(n) = Upto(n - 1)
  BY <1>1, UptoNext
<1>3. /\ \A k \in 1..n : k \in 1..(n - 1) \/ k = n
      /\ 1..(n - 1) \subseteq 1..n /\ n \in 1..n
  BY AnswerIsSeq
<1>4. seen = {answer[j] : j \in {k \in 1..(n - 1) : Allowed(answer[k])}}
  BY DEF Collected
<1> QED
  BY <1>2, <1>3, <1>4

\* What both branches of an iteration leave alone.
LEMMA CollectFrame ==
  ASSUME ResolverTypeOK, Collect
  PROVE  /\ next \in 1..Len(answer) /\ next \in Nat /\ next' - 1 = next
         /\ answer' = answer /\ only' = only /\ FirstUsable' = FirstUsable
         /\ \A i : Rank(i)' = Rank(i)
         /\ Upto(next - 1)' = Upto(next)
<1>1. next \in 1..Len(answer) /\ next \in Nat /\ next' - 1 = next
  BY AnswerIsSeq DEF Collect, ResolverTypeOK
<1>2. answer' = answer /\ only' = only
  BY DEF Collect
<1>3. FirstUsable' = FirstUsable
  BY <1>2 DEF FirstUsable, Allowed
<1>4. \A i : Rank(i)' = Rank(i)
  BY <1>3 DEF Rank
<1>5. Upto(next - 1)' = Upto(next)
  BY <1>1, <1>3 DEF Upto
<1>6. QED
  BY <1>1, <1>2, <1>3, <1>4, <1>5

LEMMA SkipKeepsCollected ==
  ASSUME ResolverTypeOK, Collected(next - 1), Collect, Skips(answer[next])
  PROVE  Collected(next - 1)'
<1>1. /\ UNCHANGED <<addresses, truncated>>
      /\ seen' = IF Allowed(answer[next]) THEN seen \cup {answer[next]} ELSE seen
  BY DEF Collect
<1>2. /\ Upto(next) = Upto(next - 1)
      /\ seen' = {answer[j] : j \in {k \in 1..next : Allowed(answer[k])}}
  BY <1>1, CollectFrame, SkippedIsCollected
<1>3. (seen = {answer[j] : j \in {k \in 1..(next - 1) : Allowed(answer[k])}})'
  BY <1>2, CollectFrame DEF Allowed
<1>4. /\ Len(addresses') = Cardinality(Upto(next))
      /\ \A i \in Upto(next) : Rank(i) \in 1..Len(addresses') /\ addresses'[Rank(i)] = answer[i]
      /\ \A k \in 1..Len(addresses') :
           \E i \in Upto(next) : Rank(i) = k /\ addresses'[k] = answer[i]
      /\ ~ truncated'
  BY <1>1, <1>2 DEF Collected
<1>5. QED
  BY <1>3, <1>4, CollectFrame DEF Collected

LEMMA AppendKeepsCollected ==
  ASSUME ResolverTypeOK, Collected(next - 1), Collect, ~ Skips(answer[next]),
         addresses' = Append(addresses, answer[next]), UNCHANGED truncated
  PROVE  Collected(next - 1)'
<1> DEFINE n == next
           a == answer[n]
<1>1. n \in 1..Len(answer) /\ n \in Nat /\ a \in Address
  BY CollectFrame, AnswerIsSeq
<1>2. n \in FirstUsable /\ Allowed(a)
  BY <1>1, SkipsAllButFirst DEF Skips
<1>3. /\ Upto(n) = Upto(n - 1) \cup {n}
      /\ Rank(n) = Cardinality(Upto(n - 1)) + 1 /\ Rank(n) = Cardinality(Upto(n))
  BY <1>1, <1>2, UptoNext, UptoFinite
<1>4. /\ Len(addresses) = Cardinality(Upto(n - 1)) /\ Len(addresses) \in Nat
      /\ \A i \in Upto(n - 1) : Rank(i) \in 1..Len(addresses) /\ addresses[Rank(i)] = answer[i]
      /\ \A k \in 1..Len(addresses) :
           \E i \in Upto(n - 1) : Rank(i) = k /\ addresses[k] = answer[i]
  BY LenProperties DEF Collected, ResolverTypeOK
<1>5. /\ Len(addresses') = Len(addresses) + 1
      /\ \A k \in 1..Len(addresses) : addresses'[k] = addresses[k]
      /\ addresses'[Len(addresses) + 1] = a
  BY <1>1, AppendProperties DEF ResolverTypeOK
<1>6. Len(addresses') = Cardinality(Upto(n))
  BY <1>3, <1>4, <1>5
<1>7. \A i \in Upto(n) : Rank(i) \in 1..Len(addresses') /\ addresses'[Rank(i)] = answer[i]
  BY <1>3, <1>4, <1>5
<1>8. \A k \in 1..Len(addresses') :
        \E i \in Upto(n) : Rank(i) = k /\ addresses'[k] = answer[i]
  <2> SUFFICES ASSUME NEW k \in 1..Len(addresses')
               PROVE  \E i \in Upto(n) : Rank(i) = k /\ addresses'[k] = answer[i]
    OBVIOUS
  <2>1. CASE k = Len(addresses) + 1
    BY <1>3, <1>4, <1>5, <2>1
  <2>2. CASE k \in 1..Len(addresses)
    <3>1. PICK i \in Upto(n - 1) : Rank(i) = k /\ addresses[k] = answer[i]
      BY <1>4, <2>2
    <3>2. QED
      BY <1>3, <1>5, <2>2, <3>1
  <2>3. QED
    BY <1>4, <1>5, <2>1, <2>2
<1>9. (seen = {answer[j] : j \in {k \in 1..(next - 1) : Allowed(answer[k])}})'
  <2>1. seen' = seen \cup {a} /\ seen = {answer[j] : j \in {k \in 1..(n - 1) : Allowed(answer[k])}}
    BY <1>2 DEF Collect, Collected
  <2>2. \A k : k \in 1..n <=> k \in 1..(n - 1) \/ k = n
    BY <1>1
  <2>3. seen' = {answer[j] : j \in {k \in 1..n : Allowed(answer[k])}}
    BY <1>2, <2>1, <2>2
  <2>4. QED
    BY <2>3, CollectFrame DEF Allowed
<1>10. QED
  BY <1>6, <1>7, <1>8, <1>9, CollectFrame DEF Collected

------------------------------------------------------------------------------
\* The end of the loop reports what was kept.
LEMMA ExactIsReported ==
  ASSUME NEW cut \in BOOLEAN, Exact(cut), Conclude, truncated' = cut,
         UNCHANGED <<answer, only, addresses>>
  PROVE  ResolvedExactly'
<1>1. FirstUsable' = FirstUsable
  BY DEF FirstUsable, Allowed
<1>2. \A i : Rank(i)' = Rank(i)
  BY <1>1 DEF Rank
<1>3. status' = "pass" <=> addresses # <<>>
  BY DEF Conclude
<1>4. QED
  BY <1>1, <1>2, <1>3 DEF Exact, ResolvedExactly

LEMMA RInvStep == RInv /\ [ResolverNext]_resolverVars => RInv'
<1> SUFFICES ASSUME RInv, [ResolverNext]_resolverVars PROVE RInv'
  OBVIOUS
<1> USE ResolverAssumption DEF RInv
<1>1. CASE resolve_literal
  <2>1. PICK a \in literal : IF Allowed(a) THEN status' = "pass" /\ addresses' = <<a>>
                             ELSE status' = "address_family_mismatch" /\ UNCHANGED addresses
    BY <1>1 DEF resolve_literal
  <2>2. /\ a \in Address /\ literal' # {}
        /\ <<a>> \in Seq(Address) /\ Len(<<a>>) = 1 /\ MaxResolved \in Nat /\ MaxResolved >= 1
    BY <1>1, <2>1 DEF ResolverTypeOK, resolve_literal
  <2>3. ResolverTypeOK'
    BY <1>1, <2>1, <2>2 DEF ResolverTypeOK, resolve_literal
  <2>4. ResolvedExactly' /\ status' \notin {"lookup", "collecting"}
    BY <2>1, <2>2 DEF ResolvedExactly
  <2>5. QED
    BY <2>3, <2>4
<1>2. CASE resolve_lookup
  <2>0. Idle /\ answer' \in Lookups \cup {<<>>}
    BY <1>2 DEF resolve_lookup, ResolverTypeOK
  <2>1. ResolverTypeOK'
    <3>1. answer' \in Seq(Address)
      BY <2>0, EmptySeq
    <3>2. next' \in 1..(Len(answer') + 1)
      BY <1>2, <2>0, <3>1, LenProperties DEF resolve_lookup, Idle
    <3>3. QED
      BY <1>2, <2>0, <3>2 DEF ResolverTypeOK, resolve_lookup
  <2>2. CASE status' = "collecting"
    <3>1. (~ truncated /\ seen = {} /\ addresses = <<>> /\ next - 1 = 0)'
      BY <1>2, <2>0 DEF resolve_lookup, Idle
    <3>2. Collected(0)'
      BY <2>1, <3>1, NothingCollected, PTL
    <3>3. Collected(next - 1)'
      BY <3>1, <3>2
    <3>4. QED
      BY <2>1, <2>2, <3>3 DEF ResolvedExactly, LookupEnded
  <2>3. CASE status' \in {"resolver_error", "timeout"}
    BY <2>1, <2>3 DEF ResolvedExactly
  <2>4. QED
    BY <1>2, <2>2, <2>3 DEF resolve_lookup
<1>3. CASE Collect
  <2>0. /\ status = "collecting" /\ Collected(next - 1)
        /\ next \in 1..Len(answer) /\ answer[next] \in Address
    BY <1>3, CollectFrame, AnswerIsSeq DEF Collect
  <2>1. CASE Skips(answer[next])
    <3>1. status' = "collecting" /\ Collected(next - 1)'
      BY <1>3, <2>0, <2>1, SkipKeepsCollected DEF Collect
    <3>2. ResolverTypeOK'
      BY <1>3, <2>0, <2>1, AnswerIsSeq DEF ResolverTypeOK, Collect
    <3>3. QED
      BY <3>1, <3>2 DEF ResolvedExactly, LookupEnded
  <2>2. CASE ~ Skips(answer[next]) /\ Len(addresses) = MaxResolved
    <3>1. next \in FirstUsable
      BY <2>0, <2>2, SkipsAllButFirst
    <3>2. Exact(TRUE)
      BY <2>0, <2>2, <3>1, CutIsExact
    <3>3. truncated' = TRUE /\ Conclude /\ UNCHANGED <<answer, only, addresses>>
      BY <1>3, <2>2 DEF Collect
    <3>4. ResolverTypeOK'
      BY <1>3, <2>0, <3>3, AnswerIsSeq DEF ResolverTypeOK, Collect, Conclude
    <3>5. status' \notin {"lookup", "collecting"}
      BY <3>3 DEF Conclude
    <3>6. QED
      BY <3>2, <3>3, <3>4, <3>5, ExactIsReported
  <2>3. CASE ~ Skips(answer[next]) /\ Len(addresses) # MaxResolved
    <3>1. /\ addresses' = Append(addresses, answer[next])
          /\ UNCHANGED <<truncated, status>>
      BY <1>3, <2>3 DEF Collect
    <3>2. Collected(next - 1)'
      BY <1>3, <2>0, <2>3, <3>1, AppendKeepsCollected
    <3>3. /\ addresses' \in Seq(Address) /\ Len(addresses') = Len(addresses) + 1
          /\ Len(addresses) \in Nat
      BY <2>0, <3>1, AppendProperties, LenProperties DEF ResolverTypeOK
    <3>4. ResolverTypeOK'
      BY <1>3, <2>0, <2>3, <3>1, <3>3, AnswerIsSeq DEF ResolverTypeOK, Collect
    <3>5. QED
      BY <2>0, <3>1, <3>2, <3>4 DEF ResolvedExactly, LookupEnded
  <2>4. QED
    BY <2>1, <2>2, <2>3
<1>4. CASE Exhausted
  <2>0. /\ Collected(next - 1) /\ next - 1 = Len(answer) /\ Conclude
        /\ UNCHANGED <<literal, only, answer, next, seen, addresses, truncated>>
    BY <1>4, AnswerIsSeq DEF Exhausted, ResolverTypeOK
  <2>1. Exact(FALSE) /\ truncated' = FALSE
    BY <2>0, ExhaustedIsExact DEF Collected, ResolverTypeOK
  <2>2. ResolverTypeOK' /\ status' \notin {"lookup", "collecting"}
    BY <2>0 DEF ResolverTypeOK, Conclude
  <2>3. QED
    BY <2>0, <2>1, <2>2, ExactIsReported
<1>5. CASE UNCHANGED resolverVars
  <2>1. FirstUsable' = FirstUsable
    BY <1>5 DEF resolverVars, FirstUsable, Allowed
  <2>2. \A i : Rank(i)' = Rank(i)
    BY <2>1 DEF Rank
  <2>3. ResolverTypeOK' /\ ResolvedExactly'
    BY <1>5, <2>1, <2>2 DEF resolverVars, ResolverTypeOK, ResolvedExactly, LookupEnded
  <2>4. Upto(next - 1)' = Upto(next - 1)
    BY <1>5, <2>1 DEF resolverVars, Upto
  <2>5. Collected(next - 1) => Collected(next - 1)'
    BY <1>5, <2>2, <2>4 DEF resolverVars, Collected, Allowed
  <2>6. QED
    BY <1>5, <2>3, <2>5 DEF resolverVars, Idle
<1>6. QED
  BY <1>1, <1>2, <1>3, <1>4, <1>5 DEF ResolverNext

LEMMA RInvAlways == ResolverSpec => []RInv
BY RInvInit, RInvStep, PTL DEF ResolverSpec

------------------------------------------------------------------------------
\* The variables of the lookup keep their types.
THEOREM LookupTypeOK == ResolverSpec => []ResolverTypeOK
<1>1. RInv => ResolverTypeOK
  BY DEF RInv
<1>2. QED
  BY <1>1, RInvAlways, PTL

\* Whatever the system resolver answers, the first usable addresses are
\* reported, each once, and truncation exactly if there were more.
THEOREM LookupResolvedExactly == ResolverSpec => []ResolvedExactly
<1>1. RInv => ResolvedExactly
  BY DEF RInv
<1>2. QED
  BY <1>1, RInvAlways, PTL

------------------------------------------------------------------------------
(***************************************************************************)
(* The reading of a ruleset.  The pass has one entry of memory, the set of *)
(* relevant chains: since nft lists a chain once and before its rules, a   *)
(* rule finds its chain in that set exactly if sent packets enter it.      *)
(* Evidence is sound of one address although it is judged against all: a   *)
(* match that is false of the set of addresses is false of each, and one   *)
(* that is true is true of the packets to at least one.                    *)
(***************************************************************************)
\* What the pass says of a rule when it reads it.
Evidence(m) ==
  LET rule == ruleset[m.entry]
  IN ~ rule.chain =>
       /\ Hooked(rule) /\ VerdictsOf(rule) # <<>>
       /\ rule_applicability(rule) = m.confidence
       /\ m.confidence = "possible" => incomplete

Decides(i) ==
  /\ ~ ruleset[i].chain /\ Hooked(ruleset[i]) /\ VerdictsOf(ruleset[i]) # <<>>
  /\ rule_applicability(ruleset[i]) # "no"
Judged(i) == Decides(i) => \E m \in Range(matches) : m.entry = i

FirewallReading ==
  /\ \A key : key \in relevant <=>
       \E j \in 1..(entry - 1) : /\ ruleset[j].chain
                                 /\ ruleset[j].hook \in {"output", "postrouting"}
                                 /\ key = <<ruleset[j].family, ruleset[j].name>>
  /\ matches \in Seq(Range(matches))
  /\ firewall = "inspecting" => matches = <<>>
  /\ firewall = "pass" => entry = Len(ruleset) + 1
  /\ \A m \in Range(matches) : /\ m.entry \in 1..(entry - 1)
                               /\ m.confidence \in {"exact", "possible"}
                               /\ Evidence(m)
  /\ \A i \in 1..(entry - 1) : Judged(i)

FirewallInv ==
  /\ probed \in Probed /\ interfaces \in [DOMAIN probed -> Interface \cup {"none"}]
  /\ ruleset \in Rulesets
  /\ FirewallTypeOK
  /\ FirewallReading

------------------------------------------------------------------------------
LEMMA RulesetIsSeq ==
  ASSUME ruleset \in Rulesets
  PROVE  /\ IsRuleset(ruleset)
         /\ Len(ruleset) \in Nat /\ DOMAIN ruleset = 1..Len(ruleset)
         /\ \A i \in 1..Len(ruleset) : ruleset[i] \in Range(ruleset)
         /\ \A c \in Range(ruleset) : \E i \in 1..Len(ruleset) : c = ruleset[i]
<1>1. IsRuleset(ruleset) /\ ruleset \in Seq(Range(ruleset))
  BY FirewallAssumption DEF IsRuleset
<1>2. Len(ruleset) \in Nat /\ DOMAIN ruleset = 1..Len(ruleset)
  BY <1>1, LenProperties
<1> QED
  BY <1>1, <1>2 DEF Range

LEMMA RangeOfAppend ==
  ASSUME NEW s, s \in Seq(Range(s)), NEW e
  PROVE  /\ Append(s, e) \in Seq(Range(Append(s, e)))
         /\ Range(Append(s, e)) = Range(s) \cup {e}
         /\ DOMAIN Append(s, e) = 1..(Len(s) + 1) /\ Len(s) \in Nat /\ DOMAIN s = 1..Len(s)
         /\ \A i \in DOMAIN s : Append(s, e)[i] = s[i]
         /\ Append(s, e)[Len(s) + 1] = e
<1> DEFINE T == Range(s) \cup {e}
<1>1. Range(s) \subseteq T /\ e \in T
  OBVIOUS
<1>2. s \in Seq(T)
  <2> HIDE DEF T
  <2> QED
    BY <1>1, SeqMonotonic
<1>3. /\ Append(s, e) \in Seq(T) /\ Len(Append(s, e)) = Len(s) + 1
      /\ \A i \in 1..Len(s) : Append(s, e)[i] = s[i]
      /\ Append(s, e)[Len(s) + 1] = e
  <2> HIDE DEF T
  <2> QED
    BY <1>1, <1>2, AppendProperties
<1>4. Len(s) \in Nat /\ DOMAIN s = 1..Len(s) /\ DOMAIN Append(s, e) = 1..(Len(s) + 1)
  <2> HIDE DEF T
  <2> QED
    BY <1>2, <1>3, LenProperties
<1>5. Range(Append(s, e)) = T
  BY <1>3, <1>4 DEF Range
<1> QED
  BY <1>3, <1>4, <1>5

\* A chain is among the relevant ones when its rules are read, and only if
\* sent packets enter it.
LEMMA RelevantIsHooked ==
  ASSUME FirewallInv, NEW i \in 1..Len(ruleset), i = entry, ~ ruleset[i].chain
  PROVE  <<ruleset[i].family, ruleset[i].name>> \in relevant <=> Hooked(ruleset[i])
<1>1. /\ IsRuleset(ruleset) /\ Len(ruleset) \in Nat /\ DOMAIN ruleset = 1..Len(ruleset)
      /\ \A k \in 1..Len(ruleset) : ruleset[k] \in Range(ruleset)
      /\ \A c \in Range(ruleset) : \E k \in 1..Len(ruleset) : c = ruleset[k]
  BY RulesetIsSeq DEF FirewallInv
<1>2. ASSUME <<ruleset[i].family, ruleset[i].name>> \in relevant PROVE Hooked(ruleset[i])
  <2>1. PICK j \in 1..(i - 1) : /\ ruleset[j].chain
                                /\ ruleset[j].hook \in {"output", "postrouting"}
                                /\ <<ruleset[i].family, ruleset[i].name>> =
                                     <<ruleset[j].family, ruleset[j].name>>
    BY <1>2 DEF FirewallInv, FirewallReading
  <2>2. SameChain(ruleset[i], ruleset[j])
    BY <2>1 DEF SameChain
  <2>3. ruleset[j] \in Range(ruleset)
    BY <1>1, <2>1
  <2> QED
    BY <2>1, <2>2, <2>3 DEF Hooked
<1>3. ASSUME Hooked(ruleset[i]) PROVE <<ruleset[i].family, ruleset[i].name>> \in relevant
  <2>1. PICK k \in 1..Len(ruleset) : /\ SameChain(ruleset[i], ruleset[k])
                                     /\ ruleset[k].hook \in {"output", "postrouting"}
    BY <1>1, <1>3 DEF Hooked
  <2>2. PICK j \in 1..i : SameChain(ruleset[i], ruleset[j])
    BY <1>1 DEF IsRuleset
  <2>3. j = k
    <3>1. ruleset[j].chain /\ SameChain(ruleset[j], ruleset[k])
      BY <2>1, <2>2 DEF SameChain
    <3>2. j \in DOMAIN ruleset /\ k \in DOMAIN ruleset
      BY <1>1, <2>1, <2>2
    <3>3. \A m, n \in DOMAIN ruleset : ruleset[m].chain /\ SameChain(ruleset[m], ruleset[n]) => m = n
      BY <1>1, Zenon DEF IsRuleset
    <3> QED
      BY <3>1, <3>2, <3>3, Zenon
  <2>4. j \in 1..(i - 1)
    BY <2>2 DEF SameChain
  <2> QED
    BY <2>1, <2>3, <2>4 DEF FirewallInv, FirewallReading, SameChain
<1> QED
  BY <1>2, <1>3

------------------------------------------------------------------------------
\* What is said of a rule depends on nothing that changes.
LEMMA SameJudgement ==
  ASSUME probed' = probed, interfaces' = interfaces, ruleset' = ruleset
  PROVE  \A rule : /\ Hooked(rule)' = Hooked(rule)
                   /\ VerdictsOf(rule)' = VerdictsOf(rule)
                   /\ rule_applicability(rule)' = rule_applicability(rule)
<1>1. \A field, text : Named(field, text)' = Named(field, text)
  BY DEF Named
<1>2. \A x : evaluate_match(x)' = evaluate_match(x)
  BY <1>1 DEF evaluate_match
<1>3. \A f : family_applicability(f)' = family_applicability(f)
  BY DEF family_applicability, Families
<1>4. \A rule : Results(rule)' = Results(rule)
  BY <1>2 DEF Results
<1>5. \A rule : rule_applicability(rule)' = rule_applicability(rule)
  BY <1>3, <1>4 DEF rule_applicability
<1>6. \A rule : Hooked(rule)' = Hooked(rule)
  BY DEF Hooked
<1>7. \A rule : VerdictsOf(rule)' = VerdictsOf(rule)
  OBVIOUS
<1> QED
  BY <1>5, <1>6, <1>7

LEMMA FirewallInitially == FirewallInit => FirewallInv
<1> SUFFICES ASSUME FirewallInit PROVE FirewallInv
  OBVIOUS
<1>1. Len(ruleset) \in Nat
  BY RulesetIsSeq DEF FirewallInit
<1>2. matches = <<>> /\ Range(matches) = {} /\ matches \in Seq(Range(matches)) /\ DOMAIN matches = {}
  BY EmptySeq DEF FirewallInit, Range
<1>3. 1..(entry - 1) = {}
  BY DEF FirewallInit
<1>4. FirewallReading
  BY <1>2, <1>3 DEF FirewallReading, FirewallInit
<1> QED
  BY <1>1, <1>2, <1>4 DEF FirewallInit, FirewallInv, FirewallTypeOK

\* What an entry adds to the evidence, if anything.
LEMMA EntryRead ==
  ASSUME FirewallInv, firewall = "parsing", NEW i \in 1..Len(ruleset), i = entry,
         entry' = i + 1, UNCHANGED <<firewallInputs, firewall>>,
         \A key : key \in relevant' <=>
           \/ key \in relevant
           \/ /\ ruleset[i].chain /\ ruleset[i].hook \in {"output", "postrouting"}
              /\ key = <<ruleset[i].family, ruleset[i].name>>,
         incomplete' \in BOOLEAN, incomplete => incomplete',
         \/ /\ matches' = matches
            /\ ~ ruleset[i].chain => \/ ~ Hooked(ruleset[i]) \/ VerdictsOf(ruleset[i]) = <<>>
                                     \/ rule_applicability(ruleset[i]) = "no"
         \/ \E verdict, confidence :
              /\ Matched(verdict, confidence)
              /\ confidence \in {"exact", "possible"}
              /\ confidence = "possible" => incomplete'
              /\ ~ ruleset[i].chain => /\ Hooked(ruleset[i]) /\ VerdictsOf(ruleset[i]) # <<>>
                                       /\ rule_applicability(ruleset[i]) = confidence
  PROVE  FirewallInv'
<1>0. /\ Len(ruleset) \in Nat /\ DOMAIN ruleset = 1..Len(ruleset)
      /\ \A k \in 1..Len(ruleset) : ruleset[k] \in Range(ruleset)
  BY RulesetIsSeq DEF FirewallInv
<1>1. probed' = probed /\ interfaces' = interfaces /\ ruleset' = ruleset /\ firewall' = firewall
  BY DEF firewallInputs
<1>2. \A rule : /\ Hooked(rule)' = Hooked(rule)
                /\ VerdictsOf(rule)' = VerdictsOf(rule)
                /\ rule_applicability(rule)' = rule_applicability(rule)
  BY <1>1, SameJudgement
<1>3. /\ \A key : key \in relevant <=>
           \E j \in 1..(i - 1) : /\ ruleset[j].chain
                                 /\ ruleset[j].hook \in {"output", "postrouting"}
                                 /\ key = <<ruleset[j].family, ruleset[j].name>>
      /\ matches \in Seq(Range(matches))
      /\ \A m \in Range(matches) : /\ m.entry \in 1..(i - 1)
                                    /\ m.confidence \in {"exact", "possible"}
                                    /\ Evidence(m)
      /\ \A k \in 1..(i - 1) : Judged(k)
  BY DEF FirewallInv, FirewallReading
<1>4. 1..(i - 1) \subseteq 1..i /\ i \in 1..i /\ i \notin 1..(i - 1)
      /\ (\A j \in 1..i : j \in 1..(i - 1) \/ j = i)
      /\ entry' - 1 = i
  OBVIOUS
<1>5. \A key : key \in relevant' <=>
        \E j \in 1..i : /\ ruleset[j].chain
                        /\ ruleset[j].hook \in {"output", "postrouting"}
                        /\ key = <<ruleset[j].family, ruleset[j].name>>
  BY <1>3, <1>4
<1>6. \A m : Evidence(m) => Evidence(m)'
  BY <1>1, <1>2 DEF Evidence
<1>7. /\ matches' \in Seq(Range(matches'))
      /\ Range(matches) \subseteq Range(matches')
      /\ \A m \in Range(matches') :
           \/ m \in Range(matches)
           \/ /\ m.entry = i /\ m.confidence \in {"exact", "possible"} /\ Evidence(m)'
      /\ Decides(i) => \E m \in Range(matches') : m.entry = i
  <2>1. CASE /\ matches' = matches
             /\ ~ ruleset[i].chain => \/ ~ Hooked(ruleset[i]) \/ VerdictsOf(ruleset[i]) = <<>>
                                      \/ rule_applicability(ruleset[i]) = "no"
    BY <1>3, <2>1 DEF Decides
  <2>2. ASSUME NEW verdict, NEW confidence, Matched(verdict, confidence),
               confidence \in {"exact", "possible"}, confidence = "possible" => incomplete',
               ~ ruleset[i].chain => /\ Hooked(ruleset[i]) /\ VerdictsOf(ruleset[i]) # <<>>
                                     /\ rule_applicability(ruleset[i]) = confidence
        PROVE  /\ matches' \in Seq(Range(matches'))
               /\ Range(matches) \subseteq Range(matches')
               /\ \A m \in Range(matches') :
                    \/ m \in Range(matches)
                    \/ /\ m.entry = i /\ m.confidence \in {"exact", "possible"} /\ Evidence(m)'
               /\ \E m \in Range(matches') : m.entry = i
    <3> DEFINE e == [entry |-> i, verdict |-> verdict, confidence |-> confidence]
    <3>1. e.entry = i /\ e.confidence = confidence
      OBVIOUS
    <3>2. matches' = Append(matches, e)
      BY <2>2 DEF Matched
    <3>3. Evidence(e)'
      <4>1. /\ ~ ruleset[i].chain => /\ Hooked(ruleset[i]) /\ VerdictsOf(ruleset[i]) # <<>>
                                     /\ rule_applicability(ruleset[i]) = confidence
            /\ confidence = "possible" => incomplete'
        BY <2>2, Zenon
      <4> HIDE DEF e
      <4> QED
        BY <1>1, <1>2, <3>1, <4>1 DEF Evidence
    <3> HIDE DEF e
    <3>4. /\ matches' \in Seq(Range(matches')) /\ Range(matches') = Range(matches) \cup {e}
      BY <1>3, <3>2, RangeOfAppend
    <3> QED
      BY <2>2, <3>1, <3>3, <3>4
  <2> QED
    BY <2>1, <2>2
<1>8. \A k \in 1..i : Judged(k)'
  <2> SUFFICES ASSUME NEW k \in 1..i, Decides(k)
               PROVE  \E m \in Range(matches') : m.entry = k
    BY <1>1, <1>2 DEF Judged, Decides
  <2>1. CASE k = i
    BY <1>7, <2>1
  <2>2. CASE k \in 1..(i - 1)
    <3>1. \E m \in Range(matches) : m.entry = k
      BY <1>3, <2>2 DEF Judged
    <3> QED
      BY <1>7, <3>1
  <2> QED
    BY <1>4, <2>1, <2>2
<1>9. FirewallTypeOK'
  <2>1. entry' \in 1..(Len(ruleset') + 1)
    BY <1>0, <1>1
  <2>2. relevant' \subseteq {<<c.family, c.name>> : c \in Range(ruleset')}
    BY <1>0, <1>1, <1>5
  <2>3. \A k \in DOMAIN matches' : matches'[k] \in Range(matches')
    BY DEF Range
  <2>4. \A k \in DOMAIN matches' : /\ matches'[k].entry \in 1..(entry' - 1)
                                   /\ matches'[k].confidence \in {"exact", "possible"}
    BY <1>3, <1>4, <1>7, <2>3
  <2> QED
    BY <2>1, <2>2, <2>4 DEF FirewallTypeOK
<1>10. FirewallReading'
  <2>1. \A m \in Range(matches') : /\ m.entry \in 1..(entry' - 1)
                                   /\ m.confidence \in {"exact", "possible"}
                                   /\ Evidence(m)'
    BY <1>3, <1>4, <1>6, <1>7
  <2>2. \A k \in 1..(entry' - 1) : Judged(k)'
    BY <1>4, <1>8
  <2>3. /\ firewall' # "inspecting" /\ firewall' # "pass"
    BY <1>1
  <2>4. \A key : key \in relevant' <=>
          \E j \in 1..(entry' - 1) : /\ ruleset'[j].chain
                                    /\ ruleset'[j].hook \in {"output", "postrouting"}
                                    /\ key = <<ruleset'[j].family, ruleset'[j].name>>
    BY <1>1, <1>4, <1>5
  <2>5. matches' \in Seq(Range(matches'))
    BY <1>7
  <2> QED
    BY <2>1, <2>2, <2>3, <2>4, <2>5, Zenon DEF FirewallReading
<1> QED
  BY <1>1, <1>9, <1>10 DEF FirewallInv

LEMMA FirewallStep == FirewallInv /\ [FirewallNext]_firewallVars => FirewallInv'
<1> SUFFICES ASSUME FirewallInv, [FirewallNext]_firewallVars PROVE FirewallInv'
  OBVIOUS
<1>2. CASE ReadChain
  <2>0. Len(ruleset) \in Nat
    BY RulesetIsSeq DEF FirewallInv
  <2>1. PICK i \in 1..Len(ruleset) : i = entry
    BY <1>2, <2>0 DEF ReadChain, FirewallInv, FirewallTypeOK
  <2> DEFINE enters == ruleset[i].hook \in {"output", "postrouting"}
  <2>2. /\ firewall = "parsing" /\ ruleset[i].chain /\ entry' = i + 1
        /\ UNCHANGED <<firewallInputs, firewall>>
        /\ relevant' = IF enters THEN relevant \cup {<<ruleset[i].family, ruleset[i].name>>}
                               ELSE relevant
        /\ \/ incomplete' = TRUE /\ Matched("policy", "possible")
           \/ UNCHANGED <<incomplete, matches>>
    BY <1>2, <2>1 DEF ReadChain
  <2>3. incomplete' \in BOOLEAN /\ (incomplete => incomplete')
    <3>1. incomplete' = TRUE \/ incomplete' = incomplete
      BY <2>2
    <3>2. incomplete \in BOOLEAN
      BY DEF FirewallInv, FirewallTypeOK
    <3>3. CASE incomplete' = TRUE
      BY <3>3
    <3>4. CASE incomplete' = incomplete
      BY <3>2, <3>4, Zenon
    <3> QED
      BY <3>1, <3>3, <3>4, Zenon
  <2>4. \A key : key \in relevant' <=>
           \/ key \in relevant
           \/ /\ ruleset[i].chain /\ ruleset[i].hook \in {"output", "postrouting"}
              /\ key = <<ruleset[i].family, ruleset[i].name>>
    BY <2>2
  <2>5. \/ /\ matches' = matches
           /\ ~ ruleset[i].chain => \/ ~ Hooked(ruleset[i]) \/ VerdictsOf(ruleset[i]) = <<>>
                                    \/ rule_applicability(ruleset[i]) = "no"
        \/ \E verdict, confidence :
             /\ Matched(verdict, confidence)
             /\ confidence \in {"exact", "possible"}
             /\ confidence = "possible" => incomplete'
             /\ ~ ruleset[i].chain => /\ Hooked(ruleset[i]) /\ VerdictsOf(ruleset[i]) # <<>>
                                      /\ rule_applicability(ruleset[i]) = confidence
    BY <2>2
  <2>6. /\ firewall = "parsing" /\ entry' = i + 1 /\ UNCHANGED <<firewallInputs, firewall>>
    BY <2>2
  <2> QED
    BY <2>1, <2>3, <2>4, <2>5, <2>6, EntryRead, Zenon
<1>3. CASE ReadRule
  <2>0. Len(ruleset) \in Nat
    BY RulesetIsSeq DEF FirewallInv
  <2>1. PICK i \in 1..Len(ruleset) : i = entry
    BY <1>3, <2>0 DEF ReadRule, FirewallInv, FirewallTypeOK
  <2>2. PICK rule : rule = ruleset[i]
    OBVIOUS
  <2>3. PICK applies : applies = rule_applicability(rule)
    OBVIOUS
  <2>4. /\ firewall = "parsing" /\ ~ rule.chain /\ entry' = i + 1
        /\ UNCHANGED <<firewallInputs, firewall, relevant>>
        /\ \/ /\ \/ <<rule.family, rule.name>> \notin relevant
                 \/ VerdictsOf(rule) = <<>>
                 \/ applies = "no"
              /\ UNCHANGED <<incomplete, matches>>
           \/ /\ <<rule.family, rule.name>> \in relevant /\ VerdictsOf(rule) # <<>>
              /\ applies # "no"
              /\ \E verdict : /\ Matched(verdict, applies)
                              /\ incomplete' \in BOOLEAN
                              /\ incomplete => incomplete'
                              /\ applies = "possible" => incomplete'
    <3> DEFINE verdict == Head(VerdictsOf(rule)).field
    <3>1. /\ firewall = "parsing" /\ ~ rule.chain /\ entry' = i + 1
          /\ UNCHANGED <<firewallInputs, firewall, relevant>>
          /\ IF \/ <<rule.family, rule.name>> \notin relevant
                \/ VerdictsOf(rule) = <<>>
                \/ applies = "no"
               THEN UNCHANGED <<incomplete, matches>>
               ELSE /\ Matched(verdict, applies)
                    /\ incomplete' = \/ incomplete
                                     \/ applies = "possible"
                                     \/ verdict \in {"jump", "goto", "return", "continue"}
      BY <1>3, <2>1, <2>2, <2>3 DEF ReadRule
    <3> HIDE DEF verdict
    <3>2. incomplete \in BOOLEAN
      BY DEF FirewallInv, FirewallTypeOK
    <3> QED
      BY <3>1, <3>2
  <2>5. applies \in {"no", "possible", "exact"}
    BY <2>3 DEF rule_applicability
  <2>6. <<rule.family, rule.name>> \in relevant <=> Hooked(rule)
    BY <2>1, <2>2, <2>4, RelevantIsHooked
  <2>7. incomplete' \in BOOLEAN /\ (incomplete => incomplete')
    BY <2>4 DEF FirewallInv, FirewallTypeOK
  <2>8. \A key : key \in relevant' <=>
           \/ key \in relevant
           \/ /\ ruleset[i].chain /\ ruleset[i].hook \in {"output", "postrouting"}
              /\ key = <<ruleset[i].family, ruleset[i].name>>
    BY <2>2, <2>4
  <2>9. \/ /\ matches' = matches
           /\ ~ ruleset[i].chain => \/ ~ Hooked(ruleset[i]) \/ VerdictsOf(ruleset[i]) = <<>>
                                    \/ rule_applicability(ruleset[i]) = "no"
        \/ \E verdict, confidence :
             /\ Matched(verdict, confidence)
             /\ confidence \in {"exact", "possible"}
             /\ confidence = "possible" => incomplete'
             /\ ~ ruleset[i].chain => /\ Hooked(ruleset[i]) /\ VerdictsOf(ruleset[i]) # <<>>
                                      /\ rule_applicability(ruleset[i]) = confidence
    BY <2>2, <2>3, <2>4, <2>5, <2>6
  <2>10. /\ firewall = "parsing" /\ entry' = i + 1 /\ UNCHANGED <<firewallInputs, firewall>>
    BY <2>4
  <2> QED
    BY <2>1, <2>7, <2>8, <2>9, <2>10, EntryRead, Zenon
<1>4. CASE AllRead \/ inspect_firewall \/ UNCHANGED firewallVars
  <2>1. Len(ruleset) \in Nat
    BY RulesetIsSeq DEF FirewallInv
  <2>2. /\ probed' = probed /\ interfaces' = interfaces /\ ruleset' = ruleset
        /\ entry' = entry /\ relevant' = relevant /\ matches' = matches
    BY <1>4 DEF AllRead, inspect_firewall, Skipped, firewallVars, firewallInputs
  <2>3. /\ incomplete' = incomplete \/ (incomplete' = FALSE /\ firewall = "inspecting")
        /\ firewall' = "inspecting" => firewall = "inspecting"
        /\ firewall' = "pass" => firewall = "pass" \/ entry > Len(ruleset)
    BY <1>4 DEF AllRead, inspect_firewall, Skipped, firewallVars, firewallInputs
  <2>4. \A rule : /\ Hooked(rule)' = Hooked(rule)
                  /\ VerdictsOf(rule)' = VerdictsOf(rule)
                  /\ rule_applicability(rule)' = rule_applicability(rule)
    BY <2>2, SameJudgement
  <2>5. firewall' = "pass" => entry' = Len(ruleset') + 1
    BY <2>1, <2>2, <2>3 DEF FirewallInv, FirewallTypeOK, FirewallReading
  <2>6. \A m \in Range(matches') : Evidence(m)'
    <3>1. CASE firewall = "inspecting"
      BY <2>2, <3>1 DEF FirewallInv, FirewallReading, Range
    <3>2. CASE incomplete' = incomplete
      BY <2>2, <2>4, <3>2 DEF FirewallInv, FirewallReading, Evidence
    <3> QED
      BY <2>3, <3>1, <3>2
  <2>7. \A k : Judged(k) => Judged(k)'
    BY <2>2, <2>4 DEF Judged, Decides
  <2>8. FirewallReading'
    BY <2>2, <2>3, <2>4, <2>5, <2>6, <2>7 DEF FirewallInv, FirewallReading
  <2>9. FirewallTypeOK'
    BY <2>2, <2>3 DEF FirewallInv, FirewallTypeOK
  <2> QED
    BY <2>2, <2>8, <2>9 DEF FirewallInv
<1> QED
  BY <1>2, <1>3, <1>4 DEF FirewallNext

------------------------------------------------------------------------------
LEMMA ProtocolIs ==
  /\ DOMAIN Protocol = {"ip.daddr", "ip6.daddr"}
  /\ Protocol["ip.daddr"] = "ipv4" /\ Protocol["ip6.daddr"] = "ipv6"
  /\ Understood = {"ip.daddr", "ip6.daddr", "tcp.dport", "udp.dport", "oifname"}
BY DEF Protocol, Understood

\* A match that is called false is false of the packets to every address...
LEMMA FalseIsFalse ==
  ASSUME FirewallInv, NEW x, x.is = "match", evaluate_match(x) = "false",
         NEW a \in DOMAIN probed,
         x.field = "oifname" => x.right \in Interface \cup {"set"} /\ interfaces[a] # "none"
  PROVE  Holds(x, a) = "false"
<1>1. /\ x.op = "==" /\ x.right # "set" /\ x.field \in Understood
      /\ ~ Named(x.field, x.right)
  BY DEF evaluate_match
<1>2. CASE x.field \in DOMAIN Protocol
  <2>1. ~ (x.right \in DOMAIN probed /\ probed[x.right] = Protocol[x.field])
    BY <1>1, <1>2, ProtocolIs DEF Named
  <2>2. CASE probed[a] # Protocol[x.field]
    BY <1>2, <2>2, ProtocolIs DEF Holds, Equals
  <2>3. CASE probed[a] = Protocol[x.field]
    <3>1. x.right # a
      BY <2>1, <2>3
    <3> QED
      BY <1>1, <1>2, <2>3, <3>1, ProtocolIs DEF Holds, Equals
  <2> QED
    BY <2>2, <2>3
<1>3. CASE x.field = "tcp.dport"
  <2>1. x.right # "443"
    BY <1>1, <1>3, ProtocolIs DEF Named
  <2> QED
    BY <1>1, <1>3, <2>1, ProtocolIs DEF Holds, Equals
<1>4. CASE x.field = "udp.dport"
  BY <1>4, ProtocolIs DEF Holds, Equals
<1>5. CASE x.field = "oifname"
  <2>1. x.right \in Interface /\ interfaces[a] # "none" /\ interfaces[a] # x.right
    BY <1>1, <1>5, ProtocolIs DEF Named
  <2>2. Stands[x.right] = {x.right}
    BY <2>1, FirewallAssumption
  <2>3. interfaces[a] \notin Stands[x.right]
    BY <2>1, <2>2
  <2> QED
    BY <1>1, <1>5, <2>1, <2>3, ProtocolIs DEF Holds, Equals
<1> QED
  BY <1>1, <1>2, <1>3, <1>4, <1>5, ProtocolIs

\* ... and one that is called true is true of the packets to some address.
LEMMA TrueIsTrue ==
  ASSUME FirewallInv, NEW x, x.is = "match", x.right # "none", evaluate_match(x) = "true",
         DOMAIN probed # {}
  PROVE  \E a \in DOMAIN probed : Holds(x, a) = "true"
<1>1. /\ x.op = "==" /\ x.right # "set" /\ x.field \in Understood
      /\ Named(x.field, x.right)
  BY DEF evaluate_match
<1>2. CASE x.field \in DOMAIN Protocol
  <2>1. x.right \in DOMAIN probed /\ probed[x.right] = Protocol[x.field]
    BY <1>1, <1>2, ProtocolIs DEF Named
  <2>2. Holds(x, x.right) = "true"
    BY <1>1, <1>2, <2>1, ProtocolIs DEF Holds, Equals
  <2> QED
    BY <2>1, <2>2
<1>3. CASE x.field = "tcp.dport"
  <2>1. PICK a \in DOMAIN probed : TRUE
    OBVIOUS
  <2>2. x.right = "443"
    BY <1>1, <1>3, ProtocolIs DEF Named
  <2>3. Holds(x, a) = "true"
    BY <1>1, <1>3, <2>2, ProtocolIs DEF Holds, Equals
  <2> QED
    BY <2>3
<1>4. x.field # "udp.dport"
  BY <1>1, ProtocolIs DEF Named
<1>5. CASE x.field = "oifname"
  <2>1. PICK a \in DOMAIN probed : interfaces[a] = x.right
    BY <1>1, <1>5, ProtocolIs DEF Named
  <2>2. x.right \in Interface
    BY <2>1 DEF FirewallInv
  <2>3. interfaces[a] \in Stands[x.right]
    BY <2>1, <2>2, FirewallAssumption
  <2>4. Holds(x, a) = "true"
    BY <1>1, <1>5, <2>1, <2>3, ProtocolIs DEF Holds, Equals
  <2> QED
    BY <2>4
<1> QED
  BY <1>1, <1>2, <1>3, <1>4, <1>5, ProtocolIs

LEMMA FirewallSoundAtTheEnd == FirewallInv => FirewallSound
<1> SUFFICES ASSUME FirewallInv, firewall = "pass",
                    NEW i \in DOMAIN ruleset, ~ ruleset[i].chain,
                    NEW rule, rule = ruleset[i]
             PROVE  /\ Listed(i) # {} => Hooked(rule) /\ VerdictsOf(rule) # <<>>
                    /\ /\ Hooked(rule) /\ VerdictsOf(rule) # <<>> /\ Plain(rule)
                       /\ \E a \in DOMAIN probed : MayHit(rule, a)
                       => Listed(i) # {}
                    /\ \A m \in Listed(i) :
                         IF m.confidence = "exact"
                           THEN \A x \in Range(rule.exprs) :
                                  \E a \in DOMAIN probed : Holds(x, a) = "true"
                           ELSE incomplete
  BY DEF FirewallSound
<1>1. /\ IsRuleset(ruleset) /\ Len(ruleset) \in Nat /\ DOMAIN ruleset = 1..Len(ruleset)
      /\ ruleset[i] \in Range(ruleset)
  BY RulesetIsSeq DEF FirewallInv
<1>2. i \in 1..(entry - 1)
  BY <1>1 DEF FirewallInv, FirewallReading
<1>3. \A m \in Listed(i) :
        /\ Hooked(rule) /\ VerdictsOf(rule) # <<>>
        /\ rule_applicability(rule) = m.confidence
        /\ m.confidence \in {"exact", "possible"}
        /\ m.confidence = "possible" => incomplete
  BY DEF FirewallInv, FirewallReading, Listed, Evidence
<1>4. ASSUME Hooked(rule), VerdictsOf(rule) # <<>>, Plain(rule),
             NEW a \in DOMAIN probed, MayHit(rule, a)
      PROVE  Listed(i) # {}
  <2>1. \A x \in Range(rule.exprs) : x.is = "match" => evaluate_match(x) # "false"
    <3> SUFFICES ASSUME NEW x \in Range(rule.exprs), x.is = "match", evaluate_match(x) = "false"
                 PROVE  FALSE
      OBVIOUS
    <3>1. x.field = "oifname" => x.right \in Interface \cup {"set"} /\ interfaces[a] # "none"
      BY <1>4 DEF Plain
    <3>2. Holds(x, a) = "false"
      BY <3>1, FalseIsFalse
    <3> QED
      BY <1>4, <3>2 DEF MayHit
  <2>2. "false" \notin Results(rule)
    BY <2>1 DEF Results
  <2>3. family_applicability(rule.family) # "no"
    <3>1. rule.family \notin DOMAIN FamilyOf \/ FamilyOf[rule.family] = probed[a]
      BY <1>4 DEF MayHit, MaySee
    <3> QED
      BY <3>1 DEF family_applicability, Families
  <2>4. rule_applicability(rule) # "no"
    BY <2>2, <2>3 DEF rule_applicability
  <2>5. Decides(i)
    BY <1>4, <2>4 DEF Decides
  <2> QED
    BY <1>2, <2>5 DEF FirewallInv, FirewallReading, Judged, Listed
<1>5. ASSUME rule_applicability(rule) = "exact", NEW x \in Range(rule.exprs)
      PROVE  \E a \in DOMAIN probed : Holds(x, a) = "true"
  <2>1. /\ family_applicability(rule.family) # "no"
        /\ "false" \notin Results(rule) /\ "unknown" \notin Results(rule)
        /\ x.is # "other"
    BY <1>5 DEF rule_applicability
  <2>2. DOMAIN probed # {}
    BY <2>1 DEF family_applicability
  <2>3. CASE x.is = "match"
    <3>1. evaluate_match(x) \in Results(rule)
      BY <2>3 DEF Results
    <3>2. evaluate_match(x) \in {"true", "false", "unknown"}
      BY DEF evaluate_match
    <3>3. evaluate_match(x) = "true"
      BY <2>1, <3>1, <3>2
    <3>4. x \in Expressions(ruleset)
      BY <1>1 DEF Expressions
    <3>5. x.right # "none"
      BY <1>1, <2>3, <3>4 DEF IsRuleset
    <3> QED
      BY <2>2, <2>3, <3>3, <3>5, TrueIsTrue
  <2>4. CASE x.is # "match"
    <3>1. \A a : Holds(x, a) = "true"
      BY <2>1, <2>4 DEF Holds, Equals
    <3> QED
      BY <2>2, <3>1
  <2> QED
    BY <2>3, <2>4
<1> QED
  BY <1>3, <1>4, <1>5

LEMMA FirewallInvariant == FirewallSpec => []FirewallInv
<1> QED
  BY FirewallInitially, FirewallStep, PTL DEF FirewallSpec

\* The type invariant of the reading of a ruleset: whatever nft lists, an
\* entry is listed at most while it is read, and no chain is relevant that the
\* ruleset does not have.
THEOREM FirewallTypes == FirewallSpec => []FirewallTypeOK
<1>1. FirewallInv => FirewallTypeOK
  BY DEF FirewallInv
<1> QED
  BY <1>1, FirewallInvariant, PTL

\* inspect_firewall: for every ruleset in which a chain comes before its rules,
\* all sets of probed addresses and all their routes, the evidence taken from
\* all addresses at once is sound of the packets to each.
THEOREM FirewallEvidence == FirewallSpec => []FirewallSound
<1> QED
  BY FirewallSoundAtTheEnd, FirewallInvariant, PTL

------------------------------------------------------------------------------
(***************************************************************************)
(* The strict redaction.  A report has the same fields at every step, and  *)
(* each field is replaced once, in the section whose table has it: the     *)
(* tables are disjoint.  So at the end every field holds the pseudonym of  *)
(* what it held at first, and two fields of one kind the same pseudonym of *)
(* the same thing.                                                         *)
(***************************************************************************)
LEMMA TreatmentsOf ==
  /\ DOMAIN Identity = {"container", "REDACTED"}
  /\ DOMAIN Network = {"socket", "address", "interface", "subject", "issuer", "serial", "hash",
                       "dns", "REDACTED"}
  /\ DOMAIN Proxy = {"proxy", "socket", "REDACTED"}
  /\ DOMAIN Path = {"table", "chain", "socket", "address", "domain", "interface", "connection",
                    "REDACTED"}
  /\ DOMAIN PluginsAndDiagnosis = {"plugin", "REDACTED"}
BY DEF Identity, Network, Proxy, Path, PluginsAndDiagnosis

LEMMA FieldsOf ==
  /\ Fields(Identity) = Identity.container \cup Identity.REDACTED
  /\ Fields(Network) = Network.socket \cup Network.address \cup Network.interface
       \cup Network.subject \cup Network.issuer \cup Network.serial \cup Network.hash
       \cup Network.dns \cup Network.REDACTED
  /\ Fields(Proxy) = Proxy.proxy \cup Proxy.socket \cup Proxy.REDACTED
  /\ Fields(Path) = Path.table \cup Path.chain \cup Path.socket \cup Path.address
       \cup Path.domain \cup Path.interface \cup Path.connection \cup Path.REDACTED
  /\ Fields(PluginsAndDiagnosis) = PluginsAndDiagnosis.plugin \cup PluginsAndDiagnosis.REDACTED
BY TreatmentsOf DEF Fields

LEMMA SectionsAre ==
  /\ Sections[1] = Identity /\ Sections[2] = Network /\ Sections[3] = Proxy
  /\ Sections[4] = Path /\ Sections[5] = PluginsAndDiagnosis
  /\ DOMAIN Sections = 1..5
BY DEF Sections

LEMMA SectionsApart ==
  ASSUME NEW s \in 1..5, NEW t \in 1..5, s # t
  PROVE  /\ Fields(Sections[s]) \cap Fields(Sections[t]) = {}
         /\ Names \cap Fields(Sections[s]) = {}
<1>1. /\ Fields(Identity) \cap Fields(Network) = {}
      /\ Fields(Identity) \cap Fields(Proxy) = {}
      /\ Fields(Identity) \cap Fields(Path) = {}
      /\ Fields(Identity) \cap Fields(PluginsAndDiagnosis) = {}
  BY FieldsOf DEF Identity, Network, Proxy, Path, PluginsAndDiagnosis, PathErrors
<1>2. /\ Fields(Network) \cap Fields(Proxy) = {}
      /\ Fields(Network) \cap Fields(Path) = {}
      /\ Fields(Network) \cap Fields(PluginsAndDiagnosis) = {}
  BY FieldsOf DEF Network, Proxy, Path, PluginsAndDiagnosis, PathErrors
<1>3. /\ Fields(Proxy) \cap Fields(Path) = {}
      /\ Fields(Proxy) \cap Fields(PluginsAndDiagnosis) = {}
      /\ Fields(Path) \cap Fields(PluginsAndDiagnosis) = {}
  BY FieldsOf DEF Proxy, Path, PluginsAndDiagnosis, PathErrors
<1>4. /\ Names \cap Fields(Identity) = {}
      /\ Names \cap Fields(Network) = {}
      /\ Names \cap Fields(Proxy) = {}
      /\ Names \cap Fields(Path) = {}
      /\ Names \cap Fields(PluginsAndDiagnosis) = {}
  BY FieldsOf DEF Identity, Network, Proxy, Path, PluginsAndDiagnosis, PathErrors, Names
<1>5. 1..5 = {1, 2, 3, 4, 5}
  OBVIOUS
<1>6. \A x \in {Identity, Network, Proxy, Path, PluginsAndDiagnosis} :
        Names \cap Fields(x) = {}
  BY <1>4
<1>7. Sections[s] \in {Identity, Network, Proxy, Path, PluginsAndDiagnosis}
  BY <1>5, SectionsAre
<1>8. \A A, B : A \cap B = {} => B \cap A = {}
  OBVIOUS
<1> DEFINE F(n) == Fields(Sections[n])
<1>9. /\ F(1) \cap F(2) = {} /\ F(1) \cap F(3) = {} /\ F(1) \cap F(4) = {} /\ F(1) \cap F(5) = {}
      /\ F(2) \cap F(3) = {} /\ F(2) \cap F(4) = {} /\ F(2) \cap F(5) = {}
      /\ F(3) \cap F(4) = {} /\ F(3) \cap F(5) = {} /\ F(4) \cap F(5) = {}
  BY <1>1, <1>2, <1>3, SectionsAre
<1>10. F(s) \cap F(t) = {}
  <2> HIDE DEF F
  <2> QED
    BY <1>5, <1>8, <1>9, Zenon
<1> QED
  BY <1>6, <1>7, <1>10

\* Every kind of a pseudonym is that of its section's table.
LEMMA TreatmentKinds ==
  ASSUME NEW s \in 1..5, NEW f \in Fields(Sections[s])
  PROVE  /\ Treatment(Sections[s], f) \in DOMAIN Sections[s]
         /\ f \in Sections[s][Treatment(Sections[s], f)]
         /\ Treatment(Sections[s], f) \notin {"v4", "v6", "text", "absent"}
<1>1. \E t \in DOMAIN Sections[s] : f \in Sections[s][t]
  BY DEF Fields
<1>2. /\ Treatment(Sections[s], f) \in DOMAIN Sections[s]
      /\ f \in Sections[s][Treatment(Sections[s], f)]
  BY <1>1 DEF Treatment
<1>3. Sections[s] \in {Identity, Network, Proxy, Path, PluginsAndDiagnosis}
  <2>1. 1..5 = {1, 2, 3, 4, 5}
    OBVIOUS
  <2> QED
    BY <2>1, SectionsAre
<1>4. \A x \in {Identity, Network, Proxy, Path, PluginsAndDiagnosis} :
        \A t \in DOMAIN x : t \notin {"v4", "v6", "text", "absent"}
  BY TreatmentsOf
<1> QED
  BY <1>2, <1>3, <1>4

\* The treatment of what may be named in several places.
LEMMA SharedTreatments ==
  /\ \A f \in Network.socket : f \in Fields(Network) /\ Treatment(Network, f) = "socket"
  /\ \A f \in Network.address : f \in Fields(Network) /\ Treatment(Network, f) = "address"
  /\ \A f \in Network.interface : f \in Fields(Network) /\ Treatment(Network, f) = "interface"
  /\ \A f \in Proxy.socket : f \in Fields(Proxy) /\ Treatment(Proxy, f) = "socket"
  /\ \A f \in Proxy.proxy : f \in Fields(Proxy) /\ Treatment(Proxy, f) = "proxy"
  /\ \A f \in Path.socket : f \in Fields(Path) /\ Treatment(Path, f) = "socket"
  /\ \A f \in Path.address : f \in Fields(Path) /\ Treatment(Path, f) = "address"
  /\ \A f \in Path.domain : f \in Fields(Path) /\ Treatment(Path, f) = "domain"
  /\ \A f \in Path.interface : f \in Fields(Path) /\ Treatment(Path, f) = "interface"
<1>1. \A t, u \in DOMAIN Network : t # u => Network[t] \cap Network[u] = {}
  BY TreatmentsOf DEF Network
<1>2. \A t, u \in DOMAIN Proxy : t # u => Proxy[t] \cap Proxy[u] = {}
  BY TreatmentsOf DEF Proxy
<1>3. \A t, u \in DOMAIN Path : t # u => Path[t] \cap Path[u] = {}
  BY TreatmentsOf DEF Path, PathErrors
<1>4. ASSUME NEW x, \A t, u \in DOMAIN x : t # u => x[t] \cap x[u] = {},
             NEW t \in DOMAIN x, NEW f \in x[t]
      PROVE  f \in Fields(x) /\ Treatment(x, f) = t
  <2>1. f \in Fields(x)
    BY DEF Fields
  <2>2. Treatment(x, f) \in DOMAIN x /\ f \in x[Treatment(x, f)]
    BY DEF Treatment
  <2> QED
    BY <1>4, <2>1, <2>2
<1>5. \A t \in DOMAIN Network : \A f \in Network[t] :
        f \in Fields(Network) /\ Treatment(Network, f) = t
  BY <1>1, <1>4, Zenon
<1>6. \A t \in DOMAIN Proxy : \A f \in Proxy[t] : f \in Fields(Proxy) /\ Treatment(Proxy, f) = t
  BY <1>2, <1>4, Zenon
<1>7. \A t \in DOMAIN Path : \A f \in Path[t] : f \in Fields(Path) /\ Treatment(Path, f) = t
  BY <1>3, <1>4, Zenon
<1> QED
  BY <1>5, <1>6, <1>7, TreatmentsOf

------------------------------------------------------------------------------
\* Sections before this one are redacted from what they held, later ones not
\* yet, and the names are built from the host since the first.
Progress ==
  /\ \A s \in 1..5 : \A f \in Fields(Sections[s]) :
       report[f] = IF s < section THEN Replaced(Treatment(Sections[s], f), original[f])
                                  ELSE original[f]
  /\ \A f \in Names :
       report[f] = IF section = 1 \/ original[f] = Absent
                     THEN original[f] ELSE pseudonym("host", original["target.host"])

RedactionInv ==
  /\ original \in Originals /\ level \in {"standard", "strict"}
  /\ RedactionTypeOK
  /\ Progress

LEMMA RedactionInitially == RedactionInit => RedactionInv
<1> SUFFICES ASSUME RedactionInit PROVE RedactionInv
  OBVIOUS
<1>1. DOMAIN report = ReportField
  BY RedactionAssumption DEF RedactionInit
<1> QED
  BY <1>1 DEF RedactionInit, RedactionInv, RedactionTypeOK, Progress

LEMMA FieldsAreReported ==
  \A s \in 1..5 : Fields(Sections[s]) \subseteq ReportField
BY SectionsAre DEF ReportField

\* One section, whichever it is: its fields are replaced, no other field is.
LEMMA SectionRedacted ==
  ASSUME RedactionInv, NEW k \in 1..5, section = k, NEW s \in 1..5,
         NEW f \in Fields(Sections[s])
  PROVE  redact(Sections[k])[f] = IF s < k + 1 THEN Replaced(Treatment(Sections[s], f), original[f])
                                               ELSE original[f]
<1>1. f \in ReportField
  BY FieldsAreReported
<1>2. report[f] = IF s < k THEN Replaced(Treatment(Sections[s], f), original[f]) ELSE original[f]
  BY DEF RedactionInv, Progress
<1>3. CASE s = k
  BY <1>1, <1>2, <1>3 DEF redact
<1>4. CASE s # k
  <2>1. f \notin Fields(Sections[k])
    BY <1>4, SectionsApart
  <2>2. redact(Sections[k])[f] = report[f]
    BY <1>1, <2>1 DEF redact
  <2> QED
    BY <1>2, <1>4, <2>2
<1> QED
  BY <1>3, <1>4

LEMMA RedactionStep == RedactionInv /\ [RedactionNext]_redactionVars => RedactionInv'
<1> SUFFICES ASSUME RedactionInv, [RedactionNext]_redactionVars PROVE RedactionInv'
  OBVIOUS
<1>1. CASE RedactIdentity
  <2> DEFINE host == pseudonym("host", report["target.host"])
  <2>1. /\ section = 1 /\ section' = 2 /\ original' = original /\ level' = level
        /\ level = "strict"
    BY <1>1 DEF RedactIdentity
  <2>2. DOMAIN redact(Identity) = ReportField
    BY DEF redact
  <2>3. Names \subseteq ReportField
    BY DEF ReportField
  <2>4. /\ report'["target.host"] = host
        /\ report'["target.original"] = host
        /\ report'["target.url"] = IF redact(Identity)["target.url"] = Absent THEN Absent ELSE host
        /\ DOMAIN report' = ReportField
        /\ \A f \in ReportField \ Names : report'[f] = redact(Identity)[f]
    BY <1>1, <2>2, <2>3 DEF RedactIdentity, Names
  <2>5. \A f \in Names : f \in ReportField /\ redact(Identity)[f] = original[f]
                          /\ report[f] = original[f]
    BY <2>1, <2>3, SectionsAre, SectionsApart DEF redact, RedactionInv, Progress
  <2>6. original["target.host"] # Absent /\ original["target.original"] # Absent
    BY RedactionAssumption DEF RedactionInv
  <2>7. \A f \in Names : report'[f] = IF original[f] = Absent THEN original[f] ELSE host
    BY <2>4, <2>5, <2>6 DEF Names
  <2>8. \A s \in 1..5 : \A f \in Fields(Sections[s]) :
          report'[f] = IF s < 2 THEN Replaced(Treatment(Sections[s], f), original[f])
                                ELSE original[f]
    <3> SUFFICES ASSUME NEW s \in 1..5, NEW f \in Fields(Sections[s])
                 PROVE  report'[f] = IF s < 2 THEN Replaced(Treatment(Sections[s], f), original[f])
                                              ELSE original[f]
      OBVIOUS
    <3>1. f \in ReportField \ Names
      <4>1. \E t \in 1..5 : s # t
        OBVIOUS
      <4> QED
        BY <4>1, FieldsAreReported, SectionsApart
    <3>2. report'[f] = redact(Sections[1])[f]
      BY <2>4, <3>1, SectionsAre
    <3> QED
      BY <2>1, <3>2, SectionRedacted
  <2>9. Progress'
    BY <2>1, <2>5, <2>7, <2>8 DEF Progress, Names
  <2> QED
    BY <2>1, <2>4, <2>9 DEF RedactionInv, RedactionTypeOK
<1>2. CASE RedactSection
  <2>1. PICK k \in 2..5 : k = section
    BY <1>2 DEF RedactSection
  <2>2. /\ section' = k + 1 /\ original' = original /\ level' = level /\ level = "strict"
        /\ report' = redact(Sections[k])
    BY <1>2, <2>1 DEF RedactSection
  <2>3. \A s \in 1..5 : \A f \in Fields(Sections[s]) :
          report'[f] = IF s < section' THEN Replaced(Treatment(Sections[s], f), original'[f])
                                       ELSE original'[f]
    BY <2>1, <2>2, SectionRedacted
  <2>4. \A f \in Names : report'[f] = report[f]
    BY <2>1, <2>2, SectionsApart DEF redact, ReportField
  <2>5. DOMAIN report' = ReportField
    BY <2>2 DEF redact
  <2>6. Progress'
    BY <2>1, <2>2, <2>3, <2>4 DEF Progress, RedactionInv
  <2> QED
    BY <2>1, <2>2, <2>5, <2>6 DEF RedactionInv, RedactionTypeOK
<1>3. CASE UNCHANGED redactionVars
  BY <1>3 DEF redactionVars, RedactionInv, RedactionTypeOK, Progress
<1> QED
  BY <1>1, <1>2, <1>3 DEF RedactionNext

------------------------------------------------------------------------------
\* What a replaced value is of.
LEMMA ReplacedKind ==
  ASSUME NEW t, t \notin {"v4", "v6", "text", "absent"}, NEW v
  PROVE  /\ v = Absent => Replaced(t, v) = Absent
         /\ v # Absent => Replaced(t, v).is \notin {"v4", "v6", "text", "absent"}
<1>1. \A u : /\ redact_ip(u).is \notin {"v4", "v6", "text", "absent"}
              /\ redact_address_text(u).is \notin {"v4", "v6", "text", "absent"}
              /\ Redacted.is \notin {"v4", "v6", "text", "absent"}
              /\ pseudonym(t, u).is \notin {"v4", "v6", "text", "absent"}
  BY DEF redact_ip, redact_address_text, pseudonym, Redacted
<1>2. CASE t = "socket"
  BY <1>1, <1>2 DEF Replaced
<1>3. CASE t = "address"
  BY <1>1, <1>3 DEF Replaced
<1>4. CASE t = "REDACTED"
  BY <1>1, <1>4 DEF Replaced
<1>5. CASE t \notin {"socket", "address", "REDACTED"}
  BY <1>1, <1>5 DEF Replaced
<1> QED
  BY <1>2, <1>3, <1>4, <1>5

LEMMA AddressTextsDiffer ==
  ASSUME RedactionAssumption, NEW v \in Value, NEW w \in Value,
         v.is \in {"v4", "v6", "text"}, w.is \in {"v4", "v6", "text"},
         redact_address_text(v) = redact_address_text(w)
  PROVE  Collide(v, w)
<1>1. Hash[v] \in Nat /\ Hash[w] \in Nat /\ Slots["v4"] \in Nat \ {0} /\ Slots["v6"] \in Nat \ {0}
      /\ DOMAIN Slots = {"v4", "v6"}
  BY DEF RedactionAssumption
<1>2. redact_address_text(v).is = redact_address_text(w).is
      /\ redact_address_text(v).id = redact_address_text(w).id
  OBVIOUS
<1>3. v.is = w.is
  BY <1>2 DEF redact_address_text, redact_ip, pseudonym
<1>4. CASE v.is = "text"
  BY <1>2, <1>3, <1>4 DEF redact_address_text, pseudonym, Collide
<1>5. CASE v.is = "v4"
  <2>1. (Hash[v] % Slots["v4"]) + 1 = (Hash[w] % Slots["v4"]) + 1
    BY <1>2, <1>3, <1>5 DEF redact_address_text, redact_ip
  <2>2. Hash[v] % Slots["v4"] \in Nat /\ Hash[w] % Slots["v4"] \in Nat
    BY <1>1
  <2>3. Hash[v] % Slots["v4"] = Hash[w] % Slots["v4"]
    BY <2>1, <2>2
  <2> QED
    BY <1>1, <1>3, <1>5, <2>3 DEF Collide
<1>6. CASE v.is = "v6"
  <2>1. Hash[v] % Slots["v6"] = Hash[w] % Slots["v6"]
    BY <1>2, <1>3, <1>6 DEF redact_address_text, redact_ip
  <2> QED
    BY <1>1, <1>3, <1>6, <2>1 DEF Collide
<1> QED
  BY <1>4, <1>5, <1>6

\* Each group of fields that may name one thing is replaced alike.
LEMMA NamedAlike ==
  ASSUME RedactionInv, section = 6, NEW fields \in SameThing \ {Names}
  PROVE  \E t \in {"address", "interface", "domain", "proxy"} : \A f \in fields :
           /\ f \in ReportField
           /\ t # "address" => f \notin Addresses
           /\ report[f] = Replaced(t, original[f])
<1>1. \A s \in 1..5 : \A f \in Fields(Sections[s]) :
        f \in ReportField /\ report[f] = Replaced(Treatment(Sections[s], f), original[f])
  BY FieldsAreReported DEF RedactionInv, Progress
<1>2. /\ \A f \in Fields(Network) :
           f \in ReportField /\ report[f] = Replaced(Treatment(Network, f), original[f])
      /\ \A f \in Fields(Proxy) :
           f \in ReportField /\ report[f] = Replaced(Treatment(Proxy, f), original[f])
      /\ \A f \in Fields(Path) :
           f \in ReportField /\ report[f] = Replaced(Treatment(Path, f), original[f])
  BY <1>1, SectionsAre
<1>3. CASE fields = Addresses
  <2>1. \A f \in Addresses : \/ f \in Sockets /\ report[f] = Replaced("socket", original[f])
                             \/ report[f] = Replaced("address", original[f])
    BY <1>2, SharedTreatments DEF Addresses, Sockets
  <2>2. \A f \in Addresses : f \in ReportField
    BY <1>2, SharedTreatments DEF Addresses, Sockets
  <2>3. \A f \in Sockets : Replaced("socket", original[f]) = Replaced("address", original[f])
    <3> SUFFICES ASSUME NEW f \in Sockets
                 PROVE  Replaced("socket", original[f]) = Replaced("address", original[f])
      OBVIOUS
    <3>1. original[f] # Absent => original[f].is \in {"v4", "v6"}
      BY <2>2, RedactionAssumption DEF RedactionInv, KindsOf, Addresses
    <3> QED
      BY <3>1 DEF Replaced, redact_address_text
  <2> QED
    BY <1>3, <2>1, <2>2, <2>3
<1>4. CASE fields = {"routes.interface", "links.name", "connections.device"}
  <2>1. fields \subseteq Network.interface \cup Path.interface
    BY <1>4 DEF Network, Path
  <2>2. \A f \in fields : f \in ReportField /\ report[f] = Replaced("interface", original[f])
    BY <1>2, <2>1, SharedTreatments
  <2>3. fields \cap Addresses = {}
    BY <1>4 DEF Addresses, Sockets, Network, Proxy, Path
  <2> QED
    BY <2>2, <2>3
<1>5. CASE fields = {"resolver.global_domains", "links.domains"}
  <2>1. fields \subseteq Path.domain
    BY <1>5 DEF Path
  <2>2. \A f \in fields : f \in ReportField /\ report[f] = Replaced("domain", original[f])
    BY <1>2, <2>1, SharedTreatments
  <2>3. fields \cap Addresses = {}
    BY <1>5 DEF Addresses, Sockets, Network, Proxy, Path
  <2> QED
    BY <2>2, <2>3
<1>6. CASE fields = {"proxies.value", "proxy_transport.selected_proxy"}
  <2>1. fields \subseteq Proxy.proxy
    BY <1>6 DEF Proxy
  <2>2. \A f \in fields : f \in ReportField /\ report[f] = Replaced("proxy", original[f])
    BY <1>2, <2>1, SharedTreatments
  <2>3. fields \cap Addresses = {}
    BY <1>6 DEF Addresses, Sockets, Network, Proxy, Path
  <2> QED
    BY <2>2, <2>3
<1> QED
  BY <1>3, <1>4, <1>5, <1>6 DEF SameThing

LEMMA ComparableAtTheEnd == RedactionInv => StrictComparable
<1> SUFFICES ASSUME RedactionInv, section = 6 PROVE StrictComparable
  BY DEF StrictComparable
<1>1. \A f \in ReportField : f \in Names \/ \E s \in 1..5 : f \in Fields(Sections[s])
  BY SectionsAre DEF ReportField
<1>2. /\ original["target.host"] # Absent
      /\ \A f \in ReportField : original[f] # Absent =>
           original[f] \in Value /\ original[f].is \in KindsOf(f)
  BY RedactionAssumption DEF RedactionInv
<1>3. \A f \in Names : report[f] = IF original[f] = Absent THEN Absent
                                    ELSE pseudonym("host", original["target.host"])
  BY DEF RedactionInv, Progress
<1>4. \A f \in ReportField :
        IF original[f] = Absent THEN report[f] = Absent
                                ELSE report[f].is \notin {"v4", "v6", "text", "absent"}
  <2> SUFFICES ASSUME NEW f \in ReportField
               PROVE  IF original[f] = Absent
                        THEN report[f] = Absent
                        ELSE report[f].is \notin {"v4", "v6", "text", "absent"}
    OBVIOUS
  <2>1. CASE f \in Names
    BY <1>3, <2>1 DEF pseudonym
  <2>2. ASSUME NEW s \in 1..5, f \in Fields(Sections[s])
        PROVE  IF original[f] = Absent
                 THEN report[f] = Absent
                 ELSE report[f].is \notin {"v4", "v6", "text", "absent"}
    <3>1. report[f] = Replaced(Treatment(Sections[s], f), original[f])
      BY <2>2 DEF RedactionInv, Progress
    <3>2. PICK t : t = Treatment(Sections[s], f)
      OBVIOUS
    <3>3. t \notin {"v4", "v6", "text", "absent"}
      BY <2>2, <3>2, TreatmentKinds
    <3> QED
      BY <3>1, <3>2, <3>3, ReplacedKind
  <2> QED
    BY <1>1, <2>1, <2>2
<1>5. ASSUME NEW fields \in SameThing \ {Names}, NEW f \in fields, NEW g \in fields,
             original[f] # Absent, original[g] # Absent
      PROVE  /\ original[f] = original[g] => report[f] = report[g]
             /\ report[f] = report[g] => original[f] = original[g] \/ Collide(original[f], original[g])
  <2>1. PICK t \in {"address", "interface", "domain", "proxy"} : \A e \in fields :
          /\ e \in ReportField
          /\ t # "address" => e \notin Addresses
          /\ report[e] = Replaced(t, original[e])
    BY NamedAlike
  <2>2. original[f] = original[g] => report[f] = report[g]
    BY <2>1
  <2>3. /\ original[f] \in Value /\ original[f].is \in KindsOf(f)
        /\ original[g] \in Value /\ original[g].is \in KindsOf(g)
    BY <1>2, <1>5, <2>1
  <2>4. CASE t = "address"
    <3>1. report[f] = redact_address_text(original[f]) /\ report[g] = redact_address_text(original[g])
      BY <1>5, <2>1, <2>4 DEF Replaced
    <3>2. original[f].is \in {"v4", "v6", "text"} /\ original[g].is \in {"v4", "v6", "text"}
      BY <2>3 DEF KindsOf
    <3> QED
      BY <2>2, <2>3, <3>1, <3>2, RedactionAssumption, AddressTextsDiffer
  <2>5. CASE t # "address"
    <3>1. report[f] = pseudonym(t, original[f]) /\ report[g] = pseudonym(t, original[g])
      BY <1>5, <2>1, <2>5 DEF Replaced
    <3>2. original[f].is = "text" /\ original[g].is = "text"
      BY <2>1, <2>3, <2>5 DEF KindsOf, Addresses
    <3> QED
      BY <2>2, <3>1, <3>2 DEF pseudonym, Collide
  <2> QED
    BY <2>4, <2>5
<1>6. \A f \in Names : report[f] \in {Absent, report["target.host"]}
  BY <1>2, <1>3 DEF Names
<1> QED
  BY <1>4, <1>5, <1>6 DEF StrictComparable

LEMMA RedactionInvariant == RedactionSpec => []RedactionInv
<1> QED
  BY RedactionInitially, RedactionStep, PTL DEF RedactionSpec

\* The type invariant of the redaction: whatever a report holds, redacting it
\* neither adds nor loses a field, and under the standard level changes none.
THEOREM RedactionTypes == RedactionSpec => []RedactionTypeOK
<1>1. RedactionInv => RedactionTypeOK
  BY DEF RedactionInv
<1> QED
  BY <1>1, RedactionInvariant, PTL

\* redaction::apply: for every report, every hash and every number of slots,
\* no field that the tables treat holds what it held, and what a strict report
\* calls one thing in one section it calls the same in every other.
THEOREM RedactedComparably == RedactionSpec => []StrictComparable
<1> QED
  BY ComparableAtTheEnd, RedactionInvariant, PTL

------------------------------------------------------------------------------
(***************************************************************************)
(* Prefixes of a sequence, the order of paths, and the elements that Nth   *)
(* and Picked find.                                                        *)
(***************************************************************************)
LEMMA FirstElements ==
  ASSUME NEW S, NEW s \in Seq(S), NEW n \in 0..Len(s)
  PROVE  /\ SubSeq(s, 1, n) \in Seq(S) /\ Len(SubSeq(s, 1, n)) = n
         /\ \A i \in 1..n : SubSeq(s, 1, n)[i] = s[i]
<1>1. Len(s) \in Nat /\ n \in Nat /\ n <= Len(s)
  BY LenProperties
<1>2. \A i \in 1..n : i \in 1..Len(s)
  BY <1>1
<1>3. \A i \in 1..n : s[i] \in S
  BY <1>2, ElementOfSeq
<1>4. /\ SubSeq(s, 1, n) \in Seq(S)
      /\ Len(SubSeq(s, 1, n)) = IF 1 <= n THEN n - 1 + 1 ELSE 0
      /\ \A i \in 1..(n - 1 + 1) : SubSeq(s, 1, n)[i] = s[1 + i - 1]
  BY <1>1, <1>3, SubSeqProperties
<1> QED
  BY <1>1, <1>4

LEMMA PrefixElements ==
  ASSUME NEW S, NEW s \in Seq(S), NEW t \in Seq(S)
  PROVE  /\ IsPrefix(s, t) <=> Len(s) <= Len(t) /\ \A i \in 1..Len(s) : s[i] = t[i]
         /\ s \in Prefixes(t) <=> IsPrefix(s, t)
<1>1. Len(s) \in Nat /\ Len(t) \in Nat
  BY LenProperties
<1>2. ASSUME Len(s) <= Len(t)
      PROVE  /\ SubSeq(s, 1, Len(s)) = s
             /\ SubSeq(t, 1, Len(s)) \in Seq(S) /\ Len(SubSeq(t, 1, Len(s))) = Len(s)
             /\ \A i \in 1..Len(s) : SubSeq(t, 1, Len(s))[i] = t[i]
  BY <1>1, <1>2, SubSeqFull, FirstElements
<1>3. IsPrefix(s, t) => Len(s) <= Len(t) /\ \A i \in 1..Len(s) : s[i] = t[i]
  <2> SUFFICES ASSUME IsPrefix(s, t) PROVE Len(s) <= Len(t) /\ \A i \in 1..Len(s) : s[i] = t[i]
    OBVIOUS
  <2>1. Len(s) <= Len(t) /\ SubSeq(s, 1, Len(s)) = SubSeq(t, 1, Len(s))
    BY DEF IsPrefix
  <2> QED
    BY <1>2, <2>1
<1>4. ASSUME Len(s) <= Len(t), \A i \in 1..Len(s) : s[i] = t[i]
      PROVE  IsPrefix(s, t)
  <2>1. s = SubSeq(t, 1, Len(s))
    BY <1>2, <1>4, SeqEqual
  <2> QED
    BY <1>2, <1>4, <2>1 DEF IsPrefix
<1>5. ASSUME s \in Prefixes(t) PROVE IsPrefix(s, t)
  <2>1. PICK n \in 0..Len(t) : s = SubSeq(t, 1, n)
    BY <1>5 DEF Prefixes
  <2>2. Len(s) = n /\ \A i \in 1..n : s[i] = t[i]
    BY <2>1, FirstElements
  <2> QED
    BY <1>1, <1>4, <2>1, <2>2
<1>6. ASSUME IsPrefix(s, t) PROVE s \in Prefixes(t)
  <2>1. Len(s) <= Len(t) /\ s = SubSeq(t, 1, Len(s))
    BY <1>2, <1>6 DEF IsPrefix
  <2>2. Len(s) \in 0..Len(t)
    BY <1>1, <2>1
  <2>3. \E l \in 0..Len(t) : s = SubSeq(t, 1, l)
    BY <2>1, <2>2, Zenon
  <2> QED
    BY <2>3, Zenon DEF Prefixes
<1> QED
  BY <1>3, <1>4, <1>5, <1>6

\* Before, element by element.
LEMMA BeforeElements ==
  ASSUME NEW S, NEW p \in Seq(S), NEW q \in Seq(S)
  PROVE  Before(p, q) <=> \E n \in 1..Len(p) :
           n <= Len(q) /\ (\A i \in 1..(n - 1) : p[i] = q[i]) /\ Position(p[n]) < Position(q[n])
<1>1. /\ Len(p) \in Nat /\ DOMAIN p = 1..Len(p)
      /\ Len(q) \in Nat /\ DOMAIN q = 1..Len(q)
  BY LenProperties
<1>2. ASSUME NEW n \in 1..Len(p), n <= Len(q)
      PROVE  SubSeq(p, 1, n - 1) = SubSeq(q, 1, n - 1) <=> \A i \in 1..(n - 1) : p[i] = q[i]
  <2>1. n - 1 \in 0..Len(p) /\ n - 1 \in 0..Len(q)
    BY <1>1, <1>2
  <2> DEFINE P == SubSeq(p, 1, n - 1)
             Q == SubSeq(q, 1, n - 1)
  <2>2. /\ P \in Seq(S) /\ Len(P) = n - 1 /\ \A i \in 1..(n - 1) : P[i] = p[i]
        /\ Q \in Seq(S) /\ Len(Q) = n - 1 /\ \A i \in 1..(n - 1) : Q[i] = q[i]
    BY <2>1, FirstElements
  <2> HIDE DEF P, Q
  <2>3. P = Q <=> \A i \in 1..(n - 1) : p[i] = q[i]
    BY <2>2, SeqEqual
  <2> QED
    BY <2>3 DEF P, Q
<1>3. \A n : n \in DOMAIN p \cap DOMAIN q <=> n \in 1..Len(p) /\ n <= Len(q)
  BY <1>1
<1> QED
  BY <1>2, <1>3 DEF Before

\* The order of paths, of which the tree walk needs: it is asymmetric, it
\* passes to longer paths, and no path is before one that continues it.
LEMMA BeforeFacts ==
  ASSUME NEW S, NEW p \in Seq(S), NEW q \in Seq(S), \A k \in S : Position(k) \in Nat
  PROVE  /\ Before(p, q) => ~ Before(q, p) /\ ~ IsPrefix(p, q) /\ ~ IsPrefix(q, p)
         /\ \A r \in Seq(S) : Before(p, q) /\ IsPrefix(p, r) => Before(r, q)
         /\ \A r \in Seq(S) : Before(p, q) /\ IsPrefix(q, r) => Before(p, r)
<1>1. /\ Len(p) \in Nat /\ \A i \in 1..Len(p) : Position(p[i]) \in Nat
      /\ Len(q) \in Nat /\ \A i \in 1..Len(q) : Position(q[i]) \in Nat
  BY LenProperties, ElementOfSeq
<1>0. \A s, t \in Seq(S) :
        IsPrefix(s, t) <=> Len(s) <= Len(t) /\ \A i \in 1..Len(s) : s[i] = t[i]
  BY PrefixElements
<1> SUFFICES ASSUME Before(p, q)
             PROVE  /\ ~ Before(q, p) /\ ~ IsPrefix(p, q) /\ ~ IsPrefix(q, p)
                    /\ \A r \in Seq(S) : IsPrefix(p, r) => Before(r, q)
                    /\ \A r \in Seq(S) : IsPrefix(q, r) => Before(p, r)
  OBVIOUS
<1>2. PICK n \in 1..Len(p) :
        n <= Len(q) /\ (\A i \in 1..(n - 1) : p[i] = q[i]) /\ Position(p[n]) < Position(q[n])
  BY BeforeElements
<1>3. n \in Nat \ {0} /\ n \in 1..Len(q)
  BY <1>1, <1>2
<1>4. ~ Before(q, p)
  <2> SUFFICES ASSUME NEW m \in 1..Len(q), m <= Len(p), \A i \in 1..(m - 1) : q[i] = p[i],
                      Position(q[m]) < Position(p[m])
               PROVE  FALSE
    BY BeforeElements
  <2>1. m \in Nat \ {0} /\ m \in 1..Len(p)
    BY <1>1
  <2>2. CASE m = n
    BY <1>1, <1>2, <1>3, <2>1, <2>2
  <2>3. CASE m < n
    <3>1. m \in 1..(n - 1)
      BY <1>3, <2>1, <2>3
    <3>2. p[m] = q[m]
      BY <1>2, <3>1
    <3> QED
      BY <1>1, <2>1, <3>2
  <2>4. CASE m > n
    <3>1. n \in 1..(m - 1)
      BY <1>3, <2>1, <2>4
    <3>2. p[n] = q[n]
      BY <3>1
    <3> QED
      BY <1>1, <1>2, <1>3, <3>2
  <2> QED
    BY <1>3, <2>1, <2>2, <2>3, <2>4
<1>5. ~ IsPrefix(p, q) /\ ~ IsPrefix(q, p)
  <2>1. p[n] # q[n]
    BY <1>1, <1>2, <1>3
  <2> QED
    BY <1>2, <1>3, <2>1, <1>0
<1>6. ASSUME NEW r \in Seq(S), IsPrefix(p, r) PROVE Before(r, q)
  <2>1. Len(p) <= Len(r) /\ \A i \in 1..Len(p) : p[i] = r[i]
    BY <1>6, <1>0
  <2>2. Len(r) \in Nat
    BY LenProperties
  <2>3. n \in 1..Len(r) /\ (\A i \in 1..(n - 1) : i \in 1..Len(p))
    BY <1>1, <1>3, <2>1, <2>2
  <2>4. (\A i \in 1..(n - 1) : r[i] = q[i]) /\ r[n] = p[n]
    BY <1>2, <2>1, <2>3
  <2>5. n <= Len(q) /\ Position(r[n]) < Position(q[n])
    BY <1>2, <2>4
  <2>6. \E m \in 1..Len(r) : m <= Len(q) /\ (\A i \in 1..(m - 1) : r[i] = q[i])
                              /\ Position(r[m]) < Position(q[m])
    BY <2>3, <2>4, <2>5, Zenon
  <2> QED
    BY <2>6, BeforeElements, Zenon
<1>7. ASSUME NEW r \in Seq(S), IsPrefix(q, r) PROVE Before(p, r)
  <2>1. Len(q) <= Len(r) /\ \A i \in 1..Len(q) : q[i] = r[i]
    BY <1>7, <1>0
  <2>2. Len(r) \in Nat
    BY LenProperties
  <2>3. n <= Len(r) /\ (\A i \in 1..(n - 1) : i \in 1..Len(q))
    <3>1. Len(q) \in Nat /\ Len(q) <= Len(r) /\ n \in Nat /\ n <= Len(q)
      BY <1>1, <1>3, <2>1
    <3> QED
      BY <2>2, <3>1
  <2>4. (\A i \in 1..(n - 1) : p[i] = r[i]) /\ r[n] = q[n]
    BY <1>2, <1>3, <2>1, <2>3
  <2>5. Position(p[n]) < Position(r[n])
    BY <1>2, <2>4
  <2>6. \E m \in 1..Len(p) : m <= Len(r) /\ (\A i \in 1..(m - 1) : p[i] = r[i])
                              /\ Position(p[m]) < Position(r[m])
    BY <2>3, <2>4, <2>5, Zenon
  <2> QED
    BY <2>6, BeforeElements, Zenon
<1> QED
  BY <1>4, <1>5, <1>6, <1>7

LEMMA PrefixFacts ==
  ASSUME NEW S, NEW p \in Seq(S)
  PROVE  /\ IsPrefix(p, p)
         /\ IsPrefix(<<>>, p)
         /\ \A q, r \in Seq(S) : IsPrefix(p, q) /\ IsPrefix(q, r) => IsPrefix(p, r)
         /\ \A k \in S : /\ Append(p, k) \in Seq(S) /\ IsPrefix(p, Append(p, k))
                         /\ Append(p, k) # p /\ ~ IsPrefix(Append(p, k), p)
         /\ \A q \in Seq(S) : IsPrefix(p, q) /\ q # p =>
              \E k \in S : IsPrefix(Append(p, k), q)
         /\ \A k \in S : \A q \in Seq(S) :
              IsPrefix(q, Append(p, k)) => q = Append(p, k) \/ IsPrefix(q, p)
         /\ \A k, l \in S : Position(k) < Position(l) => Before(Append(p, k), Append(p, l))
<1>1. Len(p) \in Nat
  BY LenProperties
<1>2. IsPrefix(p, p)
  BY <1>1, PrefixElements
<1>3. IsPrefix(<<>>, p)
  <2> DEFINE e == <<>>
  <2>1. e \in Seq(S) /\ Len(e) = 0
    BY EmptySeq
  <2> HIDE DEF e
  <2>2. Len(e) <= Len(p) /\ \A i \in 1..Len(e) : e[i] = p[i]
    BY <1>1, <2>1
  <2>3. IsPrefix(e, p)
    BY <2>1, <2>2, PrefixElements
  <2> QED
    BY <2>3 DEF e
<1>4. ASSUME NEW q \in Seq(S), NEW r \in Seq(S), IsPrefix(p, q), IsPrefix(q, r)
      PROVE  IsPrefix(p, r)
  <2>1. Len(p) <= Len(q) /\ (\A i \in 1..Len(p) : p[i] = q[i])
    BY <1>4, PrefixElements
  <2>2. Len(q) <= Len(r) /\ (\A i \in 1..Len(q) : q[i] = r[i])
    BY <1>4, PrefixElements
  <2>3. Len(q) \in Nat /\ Len(r) \in Nat
    BY LenProperties
  <2>4. Len(p) <= Len(r) /\ (\A i \in 1..Len(p) : p[i] = r[i])
    BY <1>1, <2>1, <2>2, <2>3
  <2> QED
    BY <2>4, PrefixElements
<1>5. ASSUME NEW k \in S
      PROVE  /\ Append(p, k) \in Seq(S) /\ Len(Append(p, k)) = Len(p) + 1
             /\ \A i \in 1..Len(p) : Append(p, k)[i] = p[i]
             /\ Append(p, k)[Len(p) + 1] = k
  BY AppendProperties
<1>6. ASSUME NEW k \in S
      PROVE  IsPrefix(p, Append(p, k)) /\ Append(p, k) # p /\ ~ IsPrefix(Append(p, k), p)
  <2> DEFINE c == Append(p, k)
  <2>1. c \in Seq(S) /\ Len(c) = Len(p) + 1 /\ \A i \in 1..Len(p) : c[i] = p[i]
    BY <1>5
  <2> HIDE DEF c
  <2>2. IsPrefix(p, c) /\ c # p /\ ~ IsPrefix(c, p)
    BY <1>1, <2>1, PrefixElements
  <2> QED
    BY <2>2 DEF c
<1>7. ASSUME NEW q \in Seq(S), IsPrefix(p, q), q # p
      PROVE  \E k \in S : IsPrefix(Append(p, k), q)
  <2>1. Len(p) <= Len(q) /\ (\A i \in 1..Len(p) : p[i] = q[i]) /\ Len(q) \in Nat
    BY <1>7, PrefixElements, LenProperties
  <2>2. Len(p) # Len(q)
    BY <1>7, <2>1, SeqEqual
  <2>3. Len(p) + 1 \in 1..Len(q)
    BY <1>1, <2>1, <2>2
  <2> DEFINE k == q[Len(p) + 1]
             c == Append(p, k)
  <2>4. k \in S
    BY <2>3, ElementOfSeq
  <2> HIDE DEF k
  <2>5. /\ c \in Seq(S) /\ Len(c) = Len(p) + 1 /\ (\A i \in 1..Len(p) : c[i] = p[i])
        /\ c[Len(p) + 1] = k
    BY <1>5, <2>4
  <2> HIDE DEF c
  <2>6. \A i \in 1..(Len(p) + 1) : i \in 1..Len(p) \/ i = Len(p) + 1
    BY <1>1
  <2>7. \A i \in 1..Len(c) : c[i] = q[i]
    BY <2>1, <2>5, <2>6 DEF k
  <2>8. IsPrefix(c, q)
    BY <1>1, <2>1, <2>3, <2>5, <2>7, PrefixElements
  <2> QED
    BY <2>4, <2>8 DEF c
<1>8. ASSUME NEW k \in S, NEW q \in Seq(S), IsPrefix(q, Append(p, k))
      PROVE  q = Append(p, k) \/ IsPrefix(q, p)
  <2> DEFINE c == Append(p, k)
  <2>1. c \in Seq(S) /\ Len(c) = Len(p) + 1 /\ \A i \in 1..Len(p) : c[i] = p[i]
    BY <1>5
  <2> HIDE DEF c
  <2>2. IsPrefix(q, c)
    BY <1>8 DEF c
  <2>5. Len(q) <= Len(c) /\ (\A i \in 1..Len(q) : q[i] = c[i]) /\ Len(q) \in Nat
    BY <2>1, <2>2, PrefixElements, LenProperties
  <2>3. CASE Len(q) = Len(c)
    BY <2>1, <2>5, <2>3, SeqEqual DEF c
  <2>4. CASE Len(q) <= Len(p)
    <3>1. \A i \in 1..Len(q) : q[i] = p[i]
      BY <1>1, <2>1, <2>5, <2>4
    <3> QED
      BY <2>4, <3>1, PrefixElements
  <2> QED
    BY <1>1, <2>1, <2>5, <2>3, <2>4
<1>9. ASSUME NEW k \in S, NEW l \in S, Position(k) < Position(l)
      PROVE  Before(Append(p, k), Append(p, l))
  <2> DEFINE c == Append(p, k)
             d == Append(p, l)
  <2>1. /\ c \in Seq(S) /\ Len(c) = Len(p) + 1 /\ (\A i \in 1..Len(p) : c[i] = p[i])
        /\ c[Len(p) + 1] = k
        /\ d \in Seq(S) /\ Len(d) = Len(p) + 1 /\ (\A i \in 1..Len(p) : d[i] = p[i])
        /\ d[Len(p) + 1] = l
    BY <1>5
  <2> HIDE DEF c, d
  <2>2. Len(p) + 1 \in 1..Len(c) /\ Len(p) + 1 - 1 = Len(p)
    BY <1>1, <2>1
  <2>4. Len(p) + 1 <= Len(d) /\ (\A i \in 1..Len(p) : c[i] = d[i])
        /\ Position(c[Len(p) + 1]) < Position(d[Len(p) + 1])
    BY <1>1, <1>9, <2>1
  <2>3. Before(c, d)
    <3> DEFINE m == Len(p) + 1
    <3>2. m \in 1..Len(c) /\ m - 1 = Len(p) /\ m <= Len(d)
          /\ Position(c[m]) < Position(d[m])
      BY <2>2, <2>4
    <3> HIDE DEF m
    <3>3. \A i \in 1..(m - 1) : c[i] = d[i]
      BY <2>4, <3>2, Zenon
    <3>1. \E n \in 1..Len(c) : n <= Len(d) /\ (\A i \in 1..(n - 1) : c[i] = d[i])
                              /\ Position(c[n]) < Position(d[n])
      BY <3>2, <3>3, Zenon
    <3> QED
      BY <2>1, <3>1, BeforeElements, Zenon
  <2> QED
    BY <2>3 DEF c, d
<1> QED
  BY <1>2, <1>3, <1>4, <1>5, <1>6, <1>7, <1>8, <1>9, Zenon

------------------------------------------------------------------------------
\* Positions: the elements at the places of a finite set, in their order.
LEMMA NthElements ==
  ASSUME NEW S, IsFiniteSet(S), S \subseteq Nat
  PROVE  /\ Cardinality(S) \in Nat
         /\ \A n \in 1..Cardinality(S) : Nth(S, n) \in S
         /\ \A i \in S : \E n \in 1..Cardinality(S) : Nth(S, n) = i
         /\ \A m, n \in 1..Cardinality(S) : m < n => Nth(S, m) < Nth(S, n)
         /\ \A n \in 1..Cardinality(S) : Cardinality({j \in S : j <= Nth(S, n)}) = n
<1> DEFINE Upward(i) == {j \in S : j <= i}
           f == [i \in S |-> Cardinality(Upward(i))]
           N == Cardinality(S)
<1>1. N \in Nat
  BY FS_CardinalityType
<1>2. \A i \in S : f[i] \in 1..N
  <2> SUFFICES ASSUME NEW i \in S PROVE Cardinality(Upward(i)) \in 1..N
    OBVIOUS
  <2>1. Upward(i) \in SUBSET S /\ i \in Upward(i)
    OBVIOUS
  <2> HIDE DEF Upward
  <2>2. IsFiniteSet(Upward(i)) /\ Cardinality(Upward(i)) <= N
    BY <2>1, FS_Subset
  <2>3. Cardinality(Upward(i)) \in Nat /\ Cardinality(Upward(i)) # 0
    BY <2>1, <2>2, FS_CardinalityType, FS_EmptySet
  <2> QED
    BY <1>1, <2>2, <2>3
<1>3. \A i, j \in S : i < j => f[i] < f[j]
  <2> SUFFICES ASSUME NEW i \in S, NEW j \in S, i < j
               PROVE  Cardinality(Upward(i)) < Cardinality(Upward(j))
    OBVIOUS
  <2>1. Upward(i) \in SUBSET Upward(j) /\ Upward(j) \in SUBSET S
    <3>1. \A l \in S : l <= i => l <= j
      OBVIOUS
    <3> QED
      BY <3>1
  <2>2. j \in Upward(j) /\ j \notin Upward(i)
    OBVIOUS
  <2> HIDE DEF Upward
  <2>3. IsFiniteSet(Upward(j))
    BY <2>1, FS_Subset
  <2>4. IsFiniteSet(Upward(i)) /\ Cardinality(Upward(i)) <= Cardinality(Upward(j))
        /\ Cardinality(Upward(i)) # Cardinality(Upward(j))
    BY <2>1, <2>2, <2>3, FS_Subset
  <2>5. Cardinality(Upward(i)) \in Nat /\ Cardinality(Upward(j)) \in Nat
    BY <2>3, <2>4, FS_CardinalityType
  <2> QED
    BY <2>4, <2>5
<1>4. f \in [S -> 1..N]
  <2> HIDE DEF N
  <2> QED
    BY <1>2
<1> HIDE DEF f
<1>5. \A i, j \in S : f[i] = f[j] => i = j
  <2> SUFFICES ASSUME NEW i \in S, NEW j \in S, f[i] = f[j], i # j PROVE FALSE
    OBVIOUS
  <2>1. i < j \/ j < i
    OBVIOUS
  <2>2. f[i] \in Nat /\ f[j] \in Nat
    BY <1>1, <1>2
  <2> QED
    BY <1>3, <2>1, <2>2
<1>6. \A n \in 1..N : \E i \in S : f[i] = n
  <2>1. f \in Injection(S, 1..N)
    BY <1>4, <1>5 DEF Injection, IsInjective
  <2>2. IsFiniteSet(1..N) /\ Cardinality(1..N) = N
    BY <1>1, FS_Interval
  <2>3. f \in Surjection(S, 1..N)
    BY <2>1, <2>2, FS_Injection
  <2> QED
    BY <2>3 DEF Surjection
<1>7. ASSUME NEW n \in 1..N PROVE Nth(S, n) \in S /\ f[Nth(S, n)] = n
  <2>1. PICK i \in S : f[i] = n
    BY <1>6
  <2>2. \E x \in S : Cardinality({j \in S : j <= x}) = n
    BY <2>1 DEF f
  <2>3. Nth(S, n) \in S /\ Cardinality({j \in S : j <= Nth(S, n)}) = n
    BY <2>2 DEF Nth
  <2> QED
    BY <2>3 DEF f
<1>8. ASSUME NEW i \in S PROVE \E n \in 1..N : Nth(S, n) = i
  <2>1. f[i] \in 1..N
    BY <1>2
  <2>2. Nth(S, f[i]) = i
    BY <1>5, <1>7, <2>1
  <2> QED
    BY <2>1, <2>2
<1>9. ASSUME NEW m \in 1..N, NEW n \in 1..N, m < n PROVE Nth(S, m) < Nth(S, n)
  <2>1. /\ Nth(S, m) \in S /\ f[Nth(S, m)] = m /\ Nth(S, n) \in S /\ f[Nth(S, n)] = n
    BY <1>7
  <2>2. Nth(S, m) \in Nat /\ Nth(S, n) \in Nat
    BY <2>1
  <2>3. m \in Nat /\ n \in Nat /\ m # n /\ ~ (n < m)
    BY <1>1, <1>9
  <2>4. Nth(S, m) # Nth(S, n)
    BY <2>1, <2>3
  <2>5. ~ (Nth(S, n) < Nth(S, m))
    <3> DEFINE x == Nth(S, m)
               y == Nth(S, n)
    <3>1. x \in S /\ f[x] = m /\ y \in S /\ f[y] = n
      BY <2>1
    <3> HIDE DEF x, y
    <3>2. ~ (y < x)
      BY <1>3, <2>3, <3>1
    <3> QED
      BY <3>2 DEF x, y
  <2> QED
    BY <2>2, <2>4, <2>5
<1>10. ASSUME NEW n \in 1..N PROVE Cardinality({j \in S : j <= Nth(S, n)}) = n
  BY <1>7 DEF f
<1> QED
  BY <1>1, <1>7, <1>8, <1>9, <1>10

LEMMA PickedElements ==
  ASSUME NEW T, NEW s \in Seq(T), NEW S, S \subseteq DOMAIN s
  PROVE  /\ IsFiniteSet(S) /\ S \subseteq Nat
         /\ Picked(s, S) \in Seq(T) /\ Len(Picked(s, S)) = Cardinality(S)
         /\ \A n \in 1..Cardinality(S) : Picked(s, S)[n] = s[Nth(S, n)]
         /\ Range(Picked(s, S)) = {s[i] : i \in S}
<1>1. DOMAIN s = 1..Len(s) /\ Len(s) \in Nat /\ \A i \in 1..Len(s) : s[i] \in T
  BY LenProperties, ElementOfSeq
<1>2. IsFiniteSet(S) /\ S \subseteq Nat
  <2>1. IsFiniteSet(1..Len(s)) /\ S \in SUBSET (1..Len(s))
    BY <1>1, FS_Interval
  <2> QED
    BY <2>1, FS_Subset
<1> DEFINE N == Cardinality(S)
           picked == Picked(s, S)
<1>3. N \in Nat /\ (\A n \in 1..N : Nth(S, n) \in S)
      /\ (\A i \in S : \E n \in 1..N : Nth(S, n) = i)
  BY <1>2, NthElements
<1>4. picked = [n \in 1..N |-> s[Nth(S, n)]]
  BY DEF Picked
<1> HIDE DEF N, picked
<1>5. \A n \in 1..N : s[Nth(S, n)] \in T
  BY <1>1, <1>3
<1>6. picked \in Seq(T) /\ Len(picked) = N /\ DOMAIN picked = 1..N
  <2>1. picked \in Seq(T)
    BY <1>3, <1>4, <1>5, IsASeq
  <2> QED
    BY <1>3, <1>4, <2>1, LenProperties
<1>7. Range(picked) = {s[i] : i \in S}
  <2>1. \A x \in Range(picked) : \E i \in S : x = s[i]
    BY <1>3, <1>4, <1>6 DEF Range
  <2>2. \A i \in S : s[i] \in Range(picked)
    BY <1>3, <1>4, <1>6 DEF Range
  <2> QED
    BY <2>1, <2>2
<1> QED
  BY <1>2, <1>4, <1>6, <1>7 DEF N, picked

------------------------------------------------------------------------------
(***************************************************************************)
(* Compare, for every two reports and every limit.  The walk has passed    *)
(* the differences that are within no path it still has to visit.  They    *)
(* are before all it has to visit, so they are listed in the order of the  *)
(* document; those that are not listed were met at the limit, after all    *)
(* those that are.                                                         *)
(***************************************************************************)
Key == Range(Sorted)
Paths == DOMAIN left \cup DOMAIN right

Reached(p) == \A q \in Prefixes(p) \ {p} : Descends(q) /\ ~ is_volatile_path(q)

Passed(stack) == {p \in Differences : \A n \in 1..Len(stack) : ~ IsPrefix(stack[n], p)}

Walked(stack, listed, cut) ==
  /\ \A n \in 1..Len(stack) : Reached(stack[n])
  /\ \A m, n \in 1..Len(stack) : m < n => Before(stack[m], stack[n])
  /\ \A p \in Passed(stack) : \A n \in 1..Len(stack) : Before(p, stack[n])
  /\ \A k \in 1..Len(listed) : listed[k] \in Passed(stack)
  /\ \A k, l \in 1..Len(listed) : k < l => Before(listed[k], listed[l])
  /\ \A p \in Passed(stack) :
       \/ \E k \in 1..Len(listed) : listed[k] = p
       \/ cut /\ Len(listed) = MaxChanges /\ \A k \in 1..Len(listed) : Before(listed[k], p)

WalkInv ==
  /\ left \in Reports /\ right \in Reports
  /\ visits \in Seq(Paths) /\ changes \in Seq(Paths) /\ Len(changes) <= MaxChanges
  /\ more \in BOOLEAN
  /\ comparison \in {"reading", "comparing", "pass", "warn", "refused"}
  /\ comparison \in {"reading", "refused"} => visits = <<>> /\ changes = <<>>
  /\ comparison \in {"comparing", "pass", "warn"} => Walked(visits, changes, more)
  /\ WalkEnded => visits = <<>> /\ (comparison = "pass" <=> changes = <<>>)

LEMMA KeyFacts ==
  /\ Sorted \in Seq(Key) /\ DOMAIN Sorted = 1..Len(Sorted) /\ Len(Sorted) \in Nat
  /\ \A i \in DOMAIN Sorted : Sorted[i] \in Key /\ Position(Sorted[i]) = i
  /\ \A k \in Key : Position(k) \in DOMAIN Sorted /\ Sorted[Position(k)] = k
  /\ \A k \in Key : Position(k) \in Nat
<1>1. Sorted \in Seq(Key) /\ IsInjective(Sorted)
  BY CompareAssumption DEF Key
<1>2. DOMAIN Sorted = 1..Len(Sorted) /\ Len(Sorted) \in Nat
  BY <1>1, LenProperties
<1>3. \A i \in DOMAIN Sorted : Sorted[i] \in Key
  BY DEF Key, Range
<1>4. \A k \in Key : Position(k) \in DOMAIN Sorted /\ Sorted[Position(k)] = k
  BY DEF Key, Range, Position
<1>5. \A i \in DOMAIN Sorted : Position(Sorted[i]) = i
  BY <1>1, <1>3, <1>4 DEF IsInjective
<1> QED
  BY <1>1, <1>2, <1>3, <1>4, <1>5

LEMMA PathFacts ==
  ASSUME left \in Reports, right \in Reports
  PROVE  /\ IsFiniteSet(Paths) /\ Paths \subseteq Seq(Key)
         /\ <<>> \in Paths
         /\ Differences \subseteq Paths /\ IsFiniteSet(Differences)
<1>1. \A r \in Reports : IsFiniteSet(DOMAIN r) /\ DOMAIN r \subseteq Seq(Key) /\ <<>> \in DOMAIN r
  BY CompareAssumption DEF Key
<1>2. IsFiniteSet(Paths)
  BY <1>1, FS_Union DEF Paths
<1>3. Paths \subseteq Seq(Key) /\ <<>> \in Paths
  BY <1>1 DEF Paths
<1>4. Differences \in SUBSET Paths
  BY DEF Differences, Paths
<1>5. IsFiniteSet(Differences)
  BY <1>2, <1>4, FS_Subset
<1> QED
  BY <1>2, <1>3, <1>4, <1>5

\* The order of paths: what BeforeFacts and PrefixFacts say of them.
LEMMA PathOrder ==
  ASSUME NEW p \in Seq(Key), NEW q \in Seq(Key), Before(p, q)
  PROVE  /\ ~ Before(q, p) /\ p # q /\ ~ IsPrefix(p, q) /\ ~ IsPrefix(q, p)
         /\ \A r \in Seq(Key) : IsPrefix(p, r) => Before(r, q)
         /\ \A r \in Seq(Key) : IsPrefix(q, r) => Before(p, r)
<1>1. \A k \in Key : Position(k) \in Nat
  BY KeyFacts
<1>2. /\ Before(p, q) => ~ Before(q, p) /\ ~ IsPrefix(p, q) /\ ~ IsPrefix(q, p)
      /\ \A r \in Seq(Key) : Before(p, q) /\ IsPrefix(p, r) => Before(r, q)
      /\ \A r \in Seq(Key) : Before(p, q) /\ IsPrefix(q, r) => Before(p, r)
  BY <1>1, BeforeFacts
<1> QED
  BY <1>2

LEMMA PathPrefixes ==
  ASSUME NEW p \in Seq(Key)
  PROVE  /\ IsPrefix(p, p) /\ IsPrefix(<<>>, p)
         /\ \A q \in Seq(Key) : q \in Prefixes(p) <=> IsPrefix(q, p)
         /\ Prefixes(p) \subseteq Seq(Key)
<1>1. IsPrefix(p, p) /\ IsPrefix(<<>>, p)
  BY PrefixFacts
<1>2. \A q \in Seq(Key) : q \in Prefixes(p) <=> IsPrefix(q, p)
  BY PrefixElements
<1>3. \A n \in 0..Len(p) : SubSeq(p, 1, n) \in Seq(Key)
  BY FirstElements
<1>4. Prefixes(p) \subseteq Seq(Key)
  BY <1>3 DEF Prefixes
<1> QED
  BY <1>1, <1>2, <1>4

\* A path under one that the walk reached and that differs is no difference
\* unless the path is one that is walked down.
LEMMA WithinDifference ==
  ASSUME left \in Reports, right \in Reports, NEW d \in Differences,
         NEW p \in Seq(Key), IsPrefix(p, d)
  PROVE  ~ is_volatile_path(p) /\ (p # d => Descends(p))
<1>1. d \in Seq(Key)
  BY PathFacts
<1>2. p \in Prefixes(d)
  BY <1>1, PathPrefixes
<1> QED
  BY <1>2 DEF Differences

LEMMA NoneWithinEqual ==
  ASSUME left \in Reports, right \in Reports, NEW p \in Paths, At(left, p) = At(right, p),
         NEW d \in Differences
  PROVE  ~ IsPrefix(p, d)
<1> SUFFICES ASSUME IsPrefix(p, d) PROVE FALSE
  OBVIOUS
<1>1. d \in DOMAIN left \/ d \in DOMAIN right
  BY DEF Differences
<1>2. /\ DOMAIN At(left, p) = {s \in DOMAIN left : IsPrefix(p, s)}
      /\ DOMAIN At(right, p) = {s \in DOMAIN right : IsPrefix(p, s)}
  BY Zenon DEF At
<1>3. d \in DOMAIN left /\ d \in DOMAIN right
  BY <1>1, <1>2
<1>4. At(left, p)[d] = left[d] /\ At(right, p)[d] = right[d]
  BY <1>3 DEF At
<1>5. left[d] = right[d] /\ InBoth(d)
  BY <1>3, <1>4 DEF InBoth
<1> QED
  BY <1>5 DEF Differences

LEMMA DifferingIsDifference ==
  ASSUME left \in Reports, right \in Reports, NEW p \in Paths, Reached(p),
         ~ is_volatile_path(p), At(left, p) # At(right, p), ~ Descends(p)
  PROVE  p \in Differences
<1>1. p \in Seq(Key)
  BY PathFacts
<1>2. ~ (InBoth(p) /\ left[p] = right[p])
  <2> SUFFICES ASSUME InBoth(p), left[p] = right[p] PROVE FALSE
    OBVIOUS
  <2>1. left[p] \notin Container /\ right[p] \notin Container
    BY DEF Descends
  <2>2. ASSUME NEW r \in Reports, p \in DOMAIN r, r[p] \notin Container
        PROVE  At(r, p) = [q \in {p} |-> r[q]]
    <3>1. ASSUME NEW s \in DOMAIN r, IsPrefix(p, s) PROVE s = p
      <4>1. s \in Seq(Key)
        BY CompareAssumption DEF Key
      <4>2. p \in Prefixes(s)
        BY <1>1, <3>1, <4>1, PathPrefixes
      <4> QED
        BY <2>2, <4>2, CompareAssumption
    <3>2. {s \in DOMAIN r : IsPrefix(p, s)} = {p}
      BY <1>1, <2>2, <3>1, PathPrefixes
    <3> QED
      BY <3>2 DEF At
  <2>3. p \in DOMAIN left /\ p \in DOMAIN right
    BY DEF InBoth
  <2>4. At(left, p) = [q \in {p} |-> left[q]] /\ At(right, p) = [q \in {p} |-> right[q]]
    BY <2>1, <2>2, <2>3
  <2>5. [q \in {p} |-> left[q]] = [q \in {p} |-> right[q]]
    OBVIOUS
  <2> QED
    BY <2>4, <2>5
<1>3. \A q \in Prefixes(p) : ~ is_volatile_path(q)
  BY DEF Reached
<1>4. \A q \in Prefixes(p) \ {p} : Descends(q)
  BY DEF Reached
<1> QED
  BY <1>2, <1>3, <1>4 DEF Differences, Paths

\* What is left when the first path has been visited.
LEMMA TailWalk ==
  ASSUME left \in Reports, right \in Reports,
         NEW stack \in Seq(Paths), stack # <<>>, NEW listed, NEW cut, Walked(stack, listed, cut)
  PROVE  /\ Head(stack) \in Paths /\ Reached(Head(stack))
         /\ Tail(stack) \in Seq(Paths) /\ Len(Tail(stack)) \in Nat
         /\ \A n \in 1..Len(Tail(stack)) :
              /\ Tail(stack)[n] \in Paths /\ Reached(Tail(stack)[n])
              /\ Before(Head(stack), Tail(stack)[n])
         /\ \A m, n \in 1..Len(Tail(stack)) : m < n => Before(Tail(stack)[m], Tail(stack)[n])
         /\ \A d \in Passed(Tail(stack)) :
              /\ d \in Passed(stack) \/ IsPrefix(Head(stack), d)
              /\ \A n \in 1..Len(Tail(stack)) : Before(d, Tail(stack)[n])
         /\ Passed(stack) \subseteq Passed(Tail(stack))
         /\ Head(stack) \in Differences => Head(stack) \in Passed(Tail(stack)) \ Passed(stack)
         /\ \A d \in Passed(stack) : Before(d, Head(stack))
<1> DEFINE p == Head(stack)
           tail == Tail(stack)
<1>1. /\ Len(stack) \in Nat /\ 1 \in 1..Len(stack)
      /\ \A n \in 1..Len(stack) : stack[n] \in Paths
  BY LenProperties, EmptySeq, ElementOfSeq
<1>2. /\ p \in Paths /\ tail \in Seq(Paths) /\ Len(tail) = Len(stack) - 1
      /\ \A n \in 1..Len(tail) : tail[n] = stack[n + 1]
  BY HeadTailProperties
<1>3. p = stack[1]
  OBVIOUS
<1> HIDE DEF p, tail
<1>4. \A n \in 1..Len(tail) : n + 1 \in 1..Len(stack) /\ 1 < n + 1
  BY <1>1, <1>2
<1>5. \A n \in 1..Len(stack) : n = 1 \/ \E m \in 1..Len(tail) : n = m + 1
  <2> SUFFICES ASSUME NEW n \in 1..Len(stack), n # 1 PROVE n - 1 \in 1..Len(tail) /\ n = n - 1 + 1
    OBVIOUS
  <2> QED
    BY <1>1, <1>2
<1>6. Reached(p)
  BY <1>1, <1>3 DEF Walked
<1>7. ASSUME NEW n \in 1..Len(tail)
      PROVE  tail[n] \in Paths /\ Reached(tail[n]) /\ Before(p, tail[n])
  BY <1>1, <1>2, <1>3, <1>4 DEF Walked
<1>8. ASSUME NEW m \in 1..Len(tail), NEW n \in 1..Len(tail), m < n
      PROVE  Before(tail[m], tail[n])
  <2>1. m + 1 < n + 1
    BY <1>1, <1>2, <1>8
  <2> QED
    BY <1>2, <1>4, <2>1 DEF Walked
<1>9. ASSUME NEW d \in Passed(tail)
      PROVE  /\ d \in Passed(stack) \/ IsPrefix(p, d)
             /\ \A n \in 1..Len(tail) : Before(d, tail[n])
  <2>1. d \in Differences /\ d \in Seq(Key)
    BY PathFacts DEF Passed
  <2>2. d \in Passed(stack) \/ IsPrefix(p, d)
    BY <1>2, <1>3, <1>5, <1>9 DEF Passed
  <2>3. CASE d \in Passed(stack)
    BY <1>2, <1>4, <2>2, <2>3 DEF Walked
  <2>4. CASE IsPrefix(p, d)
    <3>1. ASSUME NEW n \in 1..Len(tail) PROVE Before(d, tail[n])
      <4>1. p \in Seq(Key) /\ tail[n] \in Seq(Key) /\ Before(p, tail[n])
        BY <1>2, <1>7, PathFacts
      <4> QED
        BY <2>1, <2>4, <4>1, PathOrder
    <3> QED
      BY <2>4, <3>1
  <2> QED
    BY <2>2, <2>3, <2>4
<1>10. Passed(stack) \subseteq Passed(tail)
  BY <1>2, <1>4 DEF Passed
<1>11. ASSUME p \in Differences PROVE p \in Passed(tail) \ Passed(stack)
  <2>1. p \in Seq(Key)
    BY <1>2, PathFacts
  <2>2. \A n \in 1..Len(tail) : ~ IsPrefix(tail[n], p)
    BY <1>7, <2>1, PathFacts, PathOrder
  <2>3. IsPrefix(stack[1], p)
    BY <1>3, <2>1, PathPrefixes
  <2> QED
    BY <1>1, <1>11, <2>2, <2>3 DEF Passed
<1>12. \A d \in Passed(stack) : Before(d, p)
  BY <1>1, <1>3 DEF Walked
<1>13. Len(tail) \in Nat
  BY <1>1, <1>2, LenProperties
<1> QED
  BY <1>2, <1>6, <1>7, <1>8, <1>9, <1>10, <1>11, <1>12, <1>13 DEF p, tail

\* Nothing to list, and at the limit nothing more.
LEMMA PassWalk ==
  ASSUME left \in Reports, right \in Reports,
         NEW stack \in Seq(Paths), stack # <<>>, NEW listed \in Seq(Paths), NEW cut \in BOOLEAN,
         NEW later \in BOOLEAN, Walked(stack, listed, cut), cut => later,
         \/ \A d \in Differences : ~ IsPrefix(Head(stack), d)
         \/ later /\ Len(listed) = MaxChanges
  PROVE  Walked(Tail(stack), listed, later)
<1> DEFINE p == Head(stack)
           tail == Tail(stack)
<1>1. /\ p \in Paths
      /\ \A n \in 1..Len(tail) : Reached(tail[n])
      /\ \A m, n \in 1..Len(tail) : m < n => Before(tail[m], tail[n])
      /\ \A d \in Passed(tail) : /\ d \in Passed(stack) \/ IsPrefix(p, d)
                                /\ \A n \in 1..Len(tail) : Before(d, tail[n])
      /\ Passed(stack) \subseteq Passed(tail)
      /\ \A d \in Passed(stack) : Before(d, p)
  BY TailWalk
<1> HIDE DEF p, tail
<1>2. \A k \in 1..Len(listed) : listed[k] \in Passed(stack)
  BY DEF Walked
<1>3. \A k, l \in 1..Len(listed) : k < l => Before(listed[k], listed[l])
  BY DEF Walked
<1>4. ASSUME NEW d \in Passed(tail)
      PROVE  \/ \E k \in 1..Len(listed) : listed[k] = d
             \/ /\ later /\ Len(listed) = MaxChanges
                /\ \A k \in 1..Len(listed) : Before(listed[k], d)
  <2>1. CASE d \in Passed(stack)
    BY <2>1 DEF Walked
  <2>2. CASE IsPrefix(p, d)
    <3>1. d \in Differences
      BY DEF Passed
    <3>2. later /\ Len(listed) = MaxChanges
      BY <2>2, <3>1 DEF p
    <3>3. ASSUME NEW k \in 1..Len(listed) PROVE Before(listed[k], d)
      <4>1. listed[k] \in Paths /\ Before(listed[k], p)
        BY <1>1, <1>2, ElementOfSeq
      <4>2. listed[k] \in Seq(Key) /\ p \in Seq(Key) /\ d \in Seq(Key)
        BY <1>1, <3>1, <4>1, PathFacts
      <4> QED
        BY <2>2, <4>1, <4>2, PathOrder
    <3> QED
      BY <3>2, <3>3
  <2> QED
    BY <1>1, <2>1, <2>2
<1>5. Walked(tail, listed, later)
  BY <1>1, <1>2, <1>3, <1>4 DEF Walked
<1> QED
  BY <1>5 DEF tail

\* A difference is listed after those that are before it.
LEMMA ListWalk ==
  ASSUME left \in Reports, right \in Reports,
         NEW stack \in Seq(Paths), stack # <<>>, NEW listed \in Seq(Paths), NEW cut \in BOOLEAN,
         Walked(stack, listed, cut), Len(listed) < MaxChanges,
         Head(stack) \in Differences, ~ Descends(Head(stack))
  PROVE  Walked(Tail(stack), Append(listed, Head(stack)), cut)
<1> DEFINE p == Head(stack)
           tail == Tail(stack)
           longer == Append(listed, p)
<1>1. /\ p \in Paths /\ p \in Differences /\ ~ Descends(p)
      /\ \A n \in 1..Len(tail) : Reached(tail[n])
      /\ \A m, n \in 1..Len(tail) : m < n => Before(tail[m], tail[n])
      /\ \A d \in Passed(tail) : /\ d \in Passed(stack) \/ IsPrefix(p, d)
                                /\ \A n \in 1..Len(tail) : Before(d, tail[n])
      /\ Passed(stack) \subseteq Passed(tail)
      /\ p \in Passed(tail)
      /\ \A d \in Passed(stack) : Before(d, p)
  BY TailWalk
<1>2. Len(listed) \in Nat /\ MaxChanges \in Nat
  BY LenProperties, CompareAssumption
<1> HIDE DEF p, tail
<1>3. /\ Len(longer) = Len(listed) + 1 /\ longer[Len(listed) + 1] = p
      /\ \A k \in 1..Len(listed) : longer[k] = listed[k]
  BY <1>1, AppendProperties
<1> HIDE DEF longer
<1>4. \A k \in 1..Len(longer) : k \in 1..Len(listed) \/ k = Len(listed) + 1
  BY <1>2, <1>3
<1>5. \A k \in 1..Len(listed) : k \in 1..Len(longer) /\ Len(listed) + 1 \in 1..Len(longer)
  BY <1>2, <1>3
<1>6. Len(listed) + 1 \in 1..Len(longer)
  BY <1>2, <1>3
<1>7. \A k \in 1..Len(listed) : listed[k] \in Passed(stack) /\ Before(listed[k], p)
  BY <1>1 DEF Walked
<1>8. \A k \in 1..Len(longer) : longer[k] \in Passed(tail)
  BY <1>1, <1>3, <1>4, <1>7
<1>9. ASSUME NEW k \in 1..Len(longer), NEW l \in 1..Len(longer), k < l
      PROVE  Before(longer[k], longer[l])
  <2>1. k \in 1..Len(listed)
    BY <1>2, <1>3, <1>9
  <2>2. CASE l \in 1..Len(listed)
    BY <1>3, <1>9, <2>1, <2>2 DEF Walked
  <2>3. CASE l = Len(listed) + 1
    BY <1>3, <1>7, <2>1, <2>3
  <2> QED
    BY <1>4, <2>2, <2>3
<1>10. ASSUME NEW d \in Passed(tail)
       PROVE  \E k \in 1..Len(longer) : longer[k] = d
  <2>1. CASE d \in Passed(stack)
    <3>1. \E k \in 1..Len(listed) : listed[k] = d
      BY <1>2, <2>1 DEF Walked
    <3> QED
      BY <1>3, <1>5, <3>1
  <2>2. CASE IsPrefix(p, d)
    <3>1. p \in Seq(Key) /\ d \in Differences
      BY <1>1, PathFacts DEF Passed
    <3>2. p = d
      BY <1>1, <2>2, <3>1, WithinDifference
    <3> QED
      BY <1>3, <1>6, <3>2
  <2> QED
    BY <1>1, <2>1, <2>2
<1>11. Walked(tail, longer, cut)
  BY <1>1, <1>8, <1>9, <1>10 DEF Walked
<1> QED
  BY <1>11 DEF tail, p, longer

LEMMA ChildFacts ==
  ASSUME left \in Reports, right \in Reports, NEW p \in Paths, Descends(p)
  PROVE  /\ Children(p) \in Seq(Paths) /\ Len(Children(p)) \in Nat
         /\ \A n \in 1..Len(Children(p)) : \E k \in Key : Children(p)[n] = Append(p, k)
         /\ \A m, n \in 1..Len(Children(p)) : m < n => Before(Children(p)[m], Children(p)[n])
         /\ \A k \in Key : Append(p, k) \in Paths =>
              \E n \in 1..Len(Children(p)) : Children(p)[n] = Append(p, k)
<1> DEFINE present == {i \in DOMAIN Sorted : Append(p, Sorted[i]) \in Paths}
           keys == Picked(Sorted, present)
           N == Cardinality(present)
           children == [n \in 1..N |-> Append(p, keys[n])]
<1>1. p \in Seq(Key)
  BY PathFacts
<1>2. present \subseteq DOMAIN Sorted
  OBVIOUS
<1>3. \A i \in present : Append(p, Sorted[i]) \in Paths /\ Sorted[i] \in Key /\ Position(Sorted[i]) = i
  BY KeyFacts
<1>4. \A k \in Key : Append(p, k) \in Paths => \E i \in present : Sorted[i] = k
  BY KeyFacts
<1>5. Children(p) = [n \in DOMAIN keys |-> Append(p, keys[n])]
  BY DEF Children, Paths
<1> HIDE DEF present
<1>6. /\ IsFiniteSet(present) /\ present \subseteq Nat
      /\ keys \in Seq(Key) /\ Len(keys) = N
      /\ \A n \in 1..N : keys[n] = Sorted[Nth(present, n)]
  BY <1>2, KeyFacts, PickedElements
<1>7. /\ N \in Nat
      /\ \A n \in 1..N : Nth(present, n) \in present
      /\ \A i \in present : \E n \in 1..N : Nth(present, n) = i
      /\ \A m, n \in 1..N : m < n => Nth(present, m) < Nth(present, n)
  BY <1>6, NthElements
<1> HIDE DEF keys, N
<1>8. Children(p) = children
  BY <1>5, <1>6, LenProperties
<1>9. \A n \in 1..N : Append(p, keys[n]) \in Paths /\ keys[n] \in Key
  BY <1>3, <1>6, <1>7
<1>10. children \in Seq(Paths)
  BY <1>7, <1>9, IsASeq
<1>11. Len(children) = N
  BY <1>7, <1>10, LenProperties
<1>12. \A n \in 1..N : children[n] = Append(p, keys[n])
  OBVIOUS
<1> HIDE DEF children
<1>13. \A n \in 1..N : \E k \in Key : children[n] = Append(p, k)
  BY <1>9, <1>12
<1>14. ASSUME NEW m \in 1..N, NEW n \in 1..N, m < n PROVE Before(children[m], children[n])
  <2>1. Position(keys[m]) = Nth(present, m) /\ Position(keys[n]) = Nth(present, n)
    BY <1>3, <1>6, <1>7
  <2>2. Position(keys[m]) < Position(keys[n])
    BY <1>7, <1>14, <2>1
  <2>3. Before(Append(p, keys[m]), Append(p, keys[n]))
    BY <1>1, <1>9, <2>2, PrefixFacts
  <2> QED
    BY <1>12, <2>3
<1>15. ASSUME NEW k \in Key, Append(p, k) \in Paths
       PROVE  \E n \in 1..N : children[n] = Append(p, k)
  <2>1. PICK i \in present : Sorted[i] = k
    BY <1>4, <1>15
  <2>2. PICK n \in 1..N : Nth(present, n) = i
    BY <1>7
  <2> QED
    BY <1>6, <1>12, <2>1, <2>2
<1>16. /\ children \in Seq(Paths) /\ Len(children) \in Nat
       /\ \A n \in 1..Len(children) : \E k \in Key : children[n] = Append(p, k)
       /\ \A m, n \in 1..Len(children) : m < n => Before(children[m], children[n])
       /\ \A k \in Key : Append(p, k) \in Paths =>
            \E n \in 1..Len(children) : children[n] = Append(p, k)
  BY <1>7, <1>10, <1>11, <1>13, <1>14, <1>15
<1> QED
  BY <1>8, <1>16

\* The paths under a container take its place.
LEMMA DescendWalk ==
  ASSUME left \in Reports, right \in Reports,
         NEW stack \in Seq(Paths), stack # <<>>, NEW listed \in Seq(Paths), NEW cut \in BOOLEAN,
         Walked(stack, listed, cut), Descends(Head(stack)), ~ is_volatile_path(Head(stack))
  PROVE  /\ Children(Head(stack)) \o Tail(stack) \in Seq(Paths)
         /\ Walked(Children(Head(stack)) \o Tail(stack), listed, cut)
<1> DEFINE p == Head(stack)
           tail == Tail(stack)
           children == Children(p)
           next_stack == children \o tail
<1>1. /\ p \in Paths /\ Descends(p) /\ ~ is_volatile_path(p) /\ Reached(p)
      /\ tail \in Seq(Paths) /\ Len(tail) \in Nat
      /\ \A n \in 1..Len(tail) : tail[n] \in Paths /\ Reached(tail[n]) /\ Before(p, tail[n])
      /\ \A m, n \in 1..Len(tail) : m < n => Before(tail[m], tail[n])
      /\ \A d \in Passed(tail) : /\ d \in Passed(stack) \/ IsPrefix(p, d)
                                /\ \A n \in 1..Len(tail) : Before(d, tail[n])
      /\ Passed(stack) \subseteq Passed(tail)
      /\ \A d \in Passed(stack) : Before(d, p)
  BY TailWalk
<1> HIDE DEF p, tail
<1>2. /\ children \in Seq(Paths) /\ Len(children) \in Nat
      /\ \A n \in 1..Len(children) : \E k \in Key : children[n] = Append(p, k)
      /\ \A m, n \in 1..Len(children) : m < n => Before(children[m], children[n])
      /\ \A k \in Key : Append(p, k) \in Paths =>
           \E n \in 1..Len(children) : children[n] = Append(p, k)
  BY <1>1, ChildFacts
<1> HIDE DEF children
<1>3. /\ next_stack \in Seq(Paths) /\ Len(next_stack) = Len(children) + Len(tail)
      /\ \A n \in 1..Len(children) + Len(tail) :
           next_stack[n] = IF n <= Len(children) THEN children[n] ELSE tail[n - Len(children)]
  BY <1>1, <1>2, ConcatProperties
<1> HIDE DEF next_stack
<1>4. p \in Seq(Key)
  BY <1>1, PathFacts
<1>5. ASSUME NEW n \in 1..Len(children)
      PROVE  children[n] \in Seq(Key) /\ IsPrefix(p, children[n]) /\ Reached(children[n])
  <2>1. PICK k \in Key : children[n] = Append(p, k)
    BY <1>2
  <2>2. children[n] \in Seq(Key) /\ IsPrefix(p, children[n])
    BY <1>4, <2>1, PrefixFacts
  <2>3. ASSUME NEW q \in Prefixes(children[n]) \ {children[n]}
        PROVE  Descends(q) /\ ~ is_volatile_path(q)
    <3>1. q \in Seq(Key) /\ IsPrefix(q, children[n])
      BY <2>2, <2>3, PathPrefixes
    <3>2. IsPrefix(q, p)
      BY <1>4, <2>1, <2>3, <3>1, PrefixFacts
    <3>3. q \in Prefixes(p)
      BY <1>4, <3>1, <3>2, PathPrefixes
    <3> QED
      BY <1>1, <3>3 DEF Reached
  <2> QED
    BY <2>2, <2>3 DEF Reached
<1>6. ASSUME NEW n \in 1..Len(next_stack)
      PROVE  \/ n \in 1..Len(children) /\ next_stack[n] = children[n]
             \/ \E m \in 1..Len(tail) : n = Len(children) + m /\ next_stack[n] = tail[m]
  <2>1. CASE n <= Len(children)
    BY <1>1, <1>2, <1>3, <2>1
  <2>2. CASE ~ (n <= Len(children))
    <3> DEFINE m == n - Len(children)
    <3>1. m \in 1..Len(tail) /\ n = Len(children) + m
      BY <1>1, <1>2, <1>3, <2>2
    <3>2. next_stack[n] = tail[m]
      BY <1>3, <2>2
    <3> QED
      BY <3>1, <3>2
  <2> QED
    BY <2>1, <2>2
<1>7. /\ \A n \in 1..Len(children) : n \in 1..Len(next_stack) /\ next_stack[n] = children[n]
      /\ \A m \in 1..Len(tail) : /\ Len(children) + m \in 1..Len(next_stack)
                                 /\ next_stack[Len(children) + m] = tail[m]
  <2>1. \A m \in 1..Len(tail) : /\ Len(children) + m \in 1..Len(next_stack)
                                /\ ~ (Len(children) + m <= Len(children))
                                /\ Len(children) + m - Len(children) = m
    BY <1>1, <1>2, <1>3
  <2>2. \A n \in 1..Len(children) : n \in 1..Len(next_stack) /\ n <= Len(children)
    BY <1>1, <1>2, <1>3
  <2> QED
    BY <1>3, <2>1, <2>2
<1>8. \A n \in 1..Len(next_stack) : Reached(next_stack[n])
  BY <1>1, <1>5, <1>6
<1>9. ASSUME NEW m \in 1..Len(next_stack), NEW n \in 1..Len(next_stack), m < n
      PROVE  Before(next_stack[m], next_stack[n])
  <2>1. CASE n \in 1..Len(children) /\ next_stack[n] = children[n]
    <3>1. m \in 1..Len(children)
      BY <1>2, <1>9, <2>1
    <3> QED
      BY <1>2, <1>7, <1>9, <2>1, <3>1
  <2>2. ASSUME NEW j \in 1..Len(tail), n = Len(children) + j, next_stack[n] = tail[j]
        PROVE  Before(next_stack[m], next_stack[n])
    <3>1. CASE m \in 1..Len(children) /\ next_stack[m] = children[m]
      <4>1. /\ children[m] \in Seq(Key) /\ IsPrefix(p, children[m])
            /\ tail[j] \in Seq(Key) /\ Before(p, tail[j])
        BY <1>1, <1>5, <3>1, PathFacts
      <4>2. Before(children[m], tail[j])
        BY <1>4, <4>1, PathOrder
      <4> QED
        BY <2>2, <3>1, <4>2
    <3>2. ASSUME NEW i \in 1..Len(tail), m = Len(children) + i, next_stack[m] = tail[i]
          PROVE  Before(next_stack[m], next_stack[n])
      <4>1. i < j
        BY <1>2, <1>9, <2>2, <3>2
      <4> QED
        BY <1>1, <2>2, <3>2, <4>1
    <3> QED
      BY <1>6, <3>1, <3>2
  <2> QED
    BY <1>6, <2>1, <2>2
<1>10. Passed(next_stack) = Passed(stack)
  <2>1. ASSUME NEW d \in Passed(next_stack) PROVE d \in Passed(stack)
    <3>1. d \in Differences /\ d \in Seq(Key)
      BY PathFacts DEF Passed
    <3>2. d \in Passed(tail)
      BY <1>7, <2>1 DEF Passed
    <3>3. CASE IsPrefix(p, d)
      <4>1. p # d
        BY <1>1, <3>1 DEF Descends, Differences
      <4>2. PICK k \in Key : IsPrefix(Append(p, k), d)
        BY <1>4, <3>1, <3>3, <4>1, PrefixFacts
      <4>3. Append(p, k) \in Seq(Key)
        BY <1>4, PrefixFacts
      <4>4. Append(p, k) \in Paths
        <5>1. CASE Append(p, k) = d
          BY <3>1, <5>1, PathFacts
        <5>2. CASE Append(p, k) # d
          <6>1. InBoth(Append(p, k))
            BY <3>1, <4>2, <4>3, <5>2, WithinDifference DEF Descends
          <6> QED
            BY <6>1 DEF InBoth, Paths
        <5> QED
          BY <5>1, <5>2
      <4>5. PICK n \in 1..Len(children) : children[n] = Append(p, k)
        BY <1>2, <4>4
      <4>6. ~ IsPrefix(next_stack[n], d) /\ next_stack[n] = children[n]
        BY <1>7, <2>1 DEF Passed
      <4> QED
        BY <4>2, <4>5, <4>6
    <3> QED
      BY <1>1, <3>2, <3>3
  <2>2. ASSUME NEW d \in Passed(stack) PROVE d \in Passed(next_stack)
    <3>1. d \in Differences /\ d \in Seq(Key) /\ d \in Passed(tail)
      BY <1>1, <2>2, PathFacts DEF Passed
    <3>2. ~ IsPrefix(p, d)
      BY <1>1, <1>4, <2>2, <3>1, PathOrder
    <3>3. \A n \in 1..Len(children) : ~ IsPrefix(children[n], d)
      BY <1>4, <1>5, <3>1, <3>2, PrefixFacts
    <3>4. \A n \in 1..Len(next_stack) : ~ IsPrefix(next_stack[n], d)
      BY <1>6, <3>1, <3>3 DEF Passed
    <3> QED
      BY <3>1, <3>4 DEF Passed
  <2> QED
    BY <2>1, <2>2
<1>11. ASSUME NEW d \in Passed(next_stack), NEW n \in 1..Len(next_stack)
       PROVE  Before(d, next_stack[n])
  <2>1. d \in Passed(stack) /\ d \in Passed(tail) /\ Before(d, p) /\ d \in Seq(Key)
    BY <1>1, <1>10, PathFacts DEF Passed
  <2>2. CASE n \in 1..Len(children) /\ next_stack[n] = children[n]
    BY <1>4, <1>5, <2>1, <2>2, PathOrder
  <2> QED
    BY <1>1, <1>6, <2>1, <2>2
<1>12. Walked(next_stack, listed, cut)
  BY <1>8, <1>9, <1>10, <1>11 DEF Walked
<1> QED
  BY <1>3, <1>12 DEF p, tail, children, next_stack

LEMMA WalkFrame ==
  ASSUME UNCHANGED <<left, right>>, Walked(visits', changes', more')
  PROVE  Walked(visits, changes, more)'
BY DEF Walked, Passed, Reached, Differences, Descends, InBoth

LEMMA WalkInitially == CompareInit => WalkInv
<1> SUFFICES ASSUME CompareInit PROVE WalkInv
  OBVIOUS
<1> DEFINE none == <<>>
<1>1. none \in Seq(Paths) /\ Len(none) = 0
  BY EmptySeq
<1>2. left \in Reports /\ right \in Reports /\ visits = none /\ changes = none
      /\ more = FALSE /\ comparison = "reading"
  BY DEF CompareInit
<1>3. MaxChanges \in Nat
  BY CompareAssumption
<1>4. comparison \in {"reading", "refused"} => visits = <<>> /\ changes = <<>>
  BY <1>2
<1> HIDE DEF none
<1>5. visits \in Seq(Paths) /\ changes \in Seq(Paths) /\ Len(changes) <= MaxChanges
  BY <1>1, <1>2, <1>3
<1>6. comparison = "reading" /\ ~ WalkEnded
  BY <1>2 DEF WalkEnded
<1> QED
  BY <1>2, <1>4, <1>5, <1>6, Zenon DEF WalkInv

LEMMA WalkStep == WalkInv /\ [CompareNext]_compareVars => WalkInv'
<1> SUFFICES ASSUME WalkInv, [CompareNext]_compareVars PROVE WalkInv'
  OBVIOUS
<1>1. /\ left \in Reports /\ right \in Reports
      /\ visits \in Seq(Paths) /\ changes \in Seq(Paths) /\ Len(changes) <= MaxChanges
      /\ more \in BOOLEAN
      /\ comparison \in {"reading", "comparing", "pass", "warn", "refused"}
  BY DEF WalkInv
<1>2. left' = left /\ right' = right
  BY DEF CompareNext, ReadReports, Visit, Compared, compareVars
<1>3. Paths' = Paths
  BY <1>2 DEF Paths
<1>4. CASE ReadReports
  <2>1. visits = <<>> /\ changes = <<>> /\ UNCHANGED <<left, right, changes, more>>
    BY <1>4 DEF ReadReports, WalkInv
  <2>2. CASE comparison' = "refused" /\ UNCHANGED visits
    BY <1>1, <1>2, <1>3, <2>1, <2>2 DEF WalkInv, WalkEnded
  <2>3. CASE comparison' = "comparing" /\ visits' = << <<>> >>
    <3>1. <<>> \in Paths
      BY <1>1, PathFacts
    <3> DEFINE stack == << <<>> >>
               none == <<>>
    <3>2. stack \in Seq(Paths) /\ Len(stack) = 1 /\ stack[1] = <<>> /\ Len(none) = 0
      <4>1. \A x \in Paths : << x >> \in Seq(Paths) /\ Len(<< x >>) = 1 /\ << x >>[1] = x
        OBVIOUS
      <4>2. stack \in Seq(Paths) /\ Len(stack) = 1 /\ stack[1] = <<>>
        BY <3>1, <4>1, Zenon
      <4> QED
        BY <4>2, EmptySeq
    <3>3. \A d \in Differences : IsPrefix(<<>>, d)
      BY <1>1, PathFacts, PathPrefixes
    <3> HIDE DEF stack, none
    <3>4. Passed(stack) = {}
      BY <3>2, <3>3 DEF Passed
    <3>5. Prefixes(<<>>) = {<<>>}
      <4>1. <<>> \in Seq(Key)
        BY EmptySeq
      <4>2. \A q \in Prefixes(<<>>) : q = <<>>
        BY DEF Prefixes
      <4>3. <<>> \in Prefixes(<<>>)
        BY <4>1, PathPrefixes
      <4> QED
        BY <4>2, <4>3
    <3>6. Reached(<<>>)
      BY <3>5 DEF Reached
    <3>7. /\ \A n \in 1..Len(stack) : n = 1
          /\ \A n \in 1..Len(none) : FALSE
      BY <3>2
    <3>8. Walked(stack, none, more)
      BY <3>2, <3>4, <3>6, <3>7 DEF Walked
    <3>9. visits' = stack /\ changes' = none /\ more' = more
      BY <2>1, <2>3 DEF stack, none
    <3>10. Walked(visits, changes, more)'
      BY <1>2, <3>8, <3>9, WalkFrame
    <3> QED
      BY <1>1, <1>2, <1>3, <2>1, <2>3, <3>2, <3>9, <3>10 DEF WalkInv, WalkEnded
  <2> QED
    BY <1>4, <2>2, <2>3 DEF ReadReports
<1>5. CASE Visit
  <2> DEFINE p == Head(visits)
  <2>1. /\ comparison = "comparing" /\ comparison' = comparison /\ visits # <<>>
        /\ Walked(visits, changes, more)
    BY <1>5 DEF Visit, WalkInv
  <2>2. p \in Paths /\ Reached(p) /\ Tail(visits) \in Seq(Paths)
    BY <1>1, <2>1, TailWalk
  <2>3. \/ /\ is_volatile_path(p) \/ At(left, p) = At(right, p)
           /\ visits' = Tail(visits) /\ UNCHANGED <<changes, more>>
        \/ /\ Len(changes) >= MaxChanges
           /\ visits' = Tail(visits) /\ more' = TRUE /\ UNCHANGED changes
        \/ /\ ~ is_volatile_path(p) /\ Descends(p)
           /\ visits' = Children(p) \o Tail(visits) /\ UNCHANGED <<changes, more>>
        \/ /\ ~ is_volatile_path(p) /\ At(left, p) # At(right, p) /\ ~ Descends(p)
           /\ ~ (Len(changes) >= MaxChanges)
           /\ visits' = Tail(visits) /\ changes' = Append(changes, p) /\ UNCHANGED more
    BY <1>5, Zenon DEF Visit
  <2> HIDE DEF p
  <2>4. SUFFICES /\ visits' \in Seq(Paths) /\ changes' \in Seq(Paths)
                 /\ Len(changes') <= MaxChanges /\ more' \in BOOLEAN
                 /\ Walked(visits', changes', more')
    <3>1. Walked(visits, changes, more)'
      BY <1>2, <2>4, WalkFrame
    <3> QED
      BY <1>1, <1>2, <1>3, <2>1, <2>4, <3>1 DEF WalkInv, WalkEnded
  <2>5. CASE /\ is_volatile_path(p) \/ At(left, p) = At(right, p)
             /\ visits' = Tail(visits) /\ UNCHANGED <<changes, more>>
    <3>1. \A d \in Differences : ~ IsPrefix(p, d)
      <4>1. p \in Seq(Key)
        BY <1>1, <2>2, PathFacts
      <4> QED
        BY <1>1, <2>2, <2>5, <4>1, WithinDifference, NoneWithinEqual
    <3>2. Walked(Tail(visits), changes, more)
      BY <1>1, <2>1, <3>1, PassWalk DEF p
    <3> QED
      BY <1>1, <2>2, <2>5, <3>2
  <2>6. CASE /\ Len(changes) >= MaxChanges
             /\ visits' = Tail(visits) /\ more' = TRUE /\ UNCHANGED changes
    <3>1. Len(changes) = MaxChanges
      <4>1. Len(changes) \in Nat /\ MaxChanges \in Nat
        BY <1>1, LenProperties, CompareAssumption
      <4> QED
        BY <1>1, <2>6, <4>1
    <3>2. Walked(Tail(visits), changes, TRUE)
      BY <1>1, <2>1, <3>1, PassWalk
    <3> QED
      BY <1>1, <2>2, <2>6, <3>2
  <2>7. CASE /\ ~ is_volatile_path(p) /\ Descends(p)
             /\ visits' = Children(p) \o Tail(visits) /\ UNCHANGED <<changes, more>>
    <3>1. /\ Children(p) \o Tail(visits) \in Seq(Paths)
          /\ Walked(Children(p) \o Tail(visits), changes, more)
      BY <1>1, <2>1, <2>7, DescendWalk DEF p
    <3> QED
      BY <1>1, <2>7, <3>1
  <2>8. CASE /\ ~ is_volatile_path(p) /\ At(left, p) # At(right, p) /\ ~ Descends(p)
             /\ ~ (Len(changes) >= MaxChanges)
             /\ visits' = Tail(visits) /\ changes' = Append(changes, p) /\ UNCHANGED more
    <3>1. Len(changes) \in Nat /\ MaxChanges \in Nat
      BY <1>1, LenProperties, CompareAssumption
    <3>2. Len(changes) < MaxChanges
      BY <2>8, <3>1
    <3>3. p \in Differences
      BY <1>1, <2>2, <2>8, DifferingIsDifference
    <3>4. Walked(Tail(visits), Append(changes, p), more)
      BY <1>1, <2>1, <2>8, <3>2, <3>3, ListWalk DEF p
    <3>5. Append(changes, p) \in Seq(Paths) /\ Len(Append(changes, p)) = Len(changes) + 1
      BY <1>1, <2>2, AppendProperties
    <3> QED
      BY <1>1, <2>2, <2>8, <3>1, <3>2, <3>4, <3>5
  <2> QED
    BY <2>3, <2>5, <2>6, <2>7, <2>8
<1>6. CASE Compared
  <2>1. /\ comparison = "comparing" /\ visits = <<>>
        /\ comparison' = IF changes = <<>> THEN "pass" ELSE "warn"
        /\ visits' = visits /\ changes' = changes /\ more' = more
        /\ Walked(visits, changes, more)
    BY <1>6 DEF Compared, WalkInv
  <2>2. Walked(visits, changes, more)'
    BY <1>2, <2>1, WalkFrame
  <2> QED
    BY <1>1, <1>2, <1>3, <2>1, <2>2 DEF WalkInv, WalkEnded
<1>7. CASE UNCHANGED compareVars
  <2>1. UNCHANGED <<left, right, visits, changes, more, comparison>>
    BY <1>7 DEF compareVars
  <2>2. ASSUME Walked(visits, changes, more) PROVE Walked(visits, changes, more)'
    BY <2>1, <2>2, WalkFrame
  <2> QED
    BY <1>1, <1>3, <2>1, <2>2 DEF WalkInv, WalkEnded
<1> QED
  BY <1>4, <1>5, <1>6, <1>7 DEF CompareNext

\* The difference of rank k is the k-th listed.
LEMMA RankOfListed ==
  ASSUME left \in Reports, right \in Reports, NEW listed \in Seq(Paths), NEW cut,
         Len(listed) <= MaxChanges, Walked(<<>>, listed, cut), NEW d \in Differences
  PROVE  LET rank == Cardinality({q \in Differences : Before(q, d)}) + 1
         IN IF rank <= MaxChanges THEN rank \in DOMAIN listed /\ listed[rank] = d ELSE cut
<1> DEFINE earlier == {q \in Differences : Before(q, d)}
           N == Len(listed)
<1>1. N \in Nat /\ MaxChanges \in Nat /\ DOMAIN listed = 1..N
  BY LenProperties, CompareAssumption
<1>2. Passed(<<>>) = Differences
  <2>1. \A n \in 1..Len(<<>>) : FALSE
    BY EmptySeq
  <2> QED
    BY <2>1 DEF Passed
<1>3. /\ \A k \in 1..N : listed[k] \in Differences
      /\ \A k, l \in 1..N : k < l => Before(listed[k], listed[l])
      /\ \A p \in Differences :
           \/ \E k \in 1..N : listed[k] = p
           \/ cut /\ N = MaxChanges /\ \A k \in 1..N : Before(listed[k], p)
  BY <1>2 DEF Walked
<1>4. \A p \in Differences : p \in Seq(Key)
  BY PathFacts
<1>5. \A p, q \in Differences : Before(p, q) => p # q /\ ~ Before(q, p)
  BY <1>4, PathOrder
<1>6. IsFiniteSet(earlier) /\ Cardinality(earlier) \in Nat
  <2>1. IsFiniteSet(Differences) /\ earlier \in SUBSET Differences
    BY PathFacts
  <2> HIDE DEF earlier
  <2> QED
    BY <2>1, FS_Subset, FS_CardinalityType
<1> HIDE DEF N
\* The first n listed, if they are before d, are as many earlier differences.
<1>7. ASSUME NEW n \in Nat, n <= N, \A k \in 1..n : Before(listed[k], d)
      PROVE  /\ [k \in 1..n |-> listed[k]] \in Injection(1..n, earlier)
             /\ Cardinality(1..n) = n
  <2>1. \A k \in 1..n : k \in 1..N
    BY <1>1, <1>7
  <2>2. \A k \in 1..n : listed[k] \in earlier
    BY <1>3, <1>7, <2>1
  <2>3. ASSUME NEW k \in 1..n, NEW l \in 1..n, listed[k] = listed[l] PROVE k = l
    <3>1. k < l \/ l < k \/ k = l
      BY <1>7
    <3> QED
      BY <1>3, <1>5, <2>1, <2>3, <3>1
  <2>4. Cardinality(1..n) = n
    BY FS_Interval
  <2> HIDE DEF earlier
  <2>5. [k \in 1..n |-> listed[k]] \in [1..n -> earlier]
    BY <2>2
  <2>6. IsInjective([k \in 1..n |-> listed[k]])
    BY <2>3 DEF IsInjective
  <2> QED
    BY <2>4, <2>5, <2>6 DEF Injection
<1>8. CASE \E k \in 1..N : listed[k] = d
  <2>1. PICK k \in 1..N : listed[k] = d
    BY <1>8
  <2>2. k - 1 \in Nat /\ k - 1 <= N /\ \A l \in 1..(k - 1) : l \in 1..N /\ l < k
    BY <1>1
  <2>3. \A l \in 1..(k - 1) : Before(listed[l], d)
    BY <1>3, <2>1, <2>2
  <2> DEFINE f == [l \in 1..(k - 1) |-> listed[l]]
  <2>4. f \in Injection(1..(k - 1), earlier) /\ Cardinality(1..(k - 1)) = k - 1
    BY <1>7, <2>2, <2>3
  <2>5. \A q \in earlier : \E l \in 1..(k - 1) : f[l] = q
    <3> SUFFICES ASSUME NEW q \in earlier PROVE \E l \in 1..(k - 1) : listed[l] = q
      OBVIOUS
    <3>1. q \in Differences /\ Before(q, d)
      OBVIOUS
    <3>2. ~ Before(listed[k], q)
      BY <1>5, <2>1, <3>1
    <3>3. PICK l \in 1..N : listed[l] = q
      BY <1>3, <3>1, <3>2
    <3>4. ~ (k < l) /\ l # k
      BY <1>3, <1>5, <2>1, <3>1, <3>2, <3>3
    <3>5. l \in 1..(k - 1)
      BY <1>1, <3>4
    <3> QED
      BY <3>3, <3>5
  <2> HIDE DEF earlier, f
  <2>6. f \in Surjection(1..(k - 1), earlier)
    BY <2>4, <2>5 DEF Injection, Surjection
  <2>7. Cardinality(earlier) = k - 1
    BY <1>6, <2>4, <2>6, FS_Injection
  <2>8. Cardinality(earlier) + 1 = k /\ k <= MaxChanges /\ k \in 1..N
    BY <1>1, <2>7 DEF N
  <2>9. IF Cardinality(earlier) + 1 <= MaxChanges
        THEN Cardinality(earlier) + 1 \in DOMAIN listed /\ listed[Cardinality(earlier) + 1] = d
        ELSE cut
    BY <1>1, <2>1, <2>8
  <2> QED
    BY <2>9 DEF earlier
<1>9. CASE cut /\ N = MaxChanges /\ \A k \in 1..N : Before(listed[k], d)
  <2> DEFINE f == [l \in 1..N |-> listed[l]]
  <2>1. f \in Injection(1..N, earlier) /\ Cardinality(1..N) = N
    BY <1>1, <1>7, <1>9
  <2> HIDE DEF earlier, f
  <2>2. N <= Cardinality(earlier)
    BY <1>6, <2>1, FS_Injection
  <2>3. ~ (Cardinality(earlier) + 1 <= MaxChanges)
    BY <1>1, <1>6, <1>9, <2>2
  <2>4. IF Cardinality(earlier) + 1 <= MaxChanges
        THEN Cardinality(earlier) + 1 \in DOMAIN listed /\ listed[Cardinality(earlier) + 1] = d
        ELSE cut
    BY <1>9, <2>3
  <2> QED
    BY <2>4 DEF earlier
<1> QED
  BY <1>3, <1>8, <1>9

LEMMA ComparedAtTheEnd == WalkInv => ComparedExactly
<1> SUFFICES ASSUME WalkInv, WalkEnded
             PROVE  /\ \A p \in Differences :
                         LET rank == Cardinality({q \in Differences : Before(q, p)}) + 1
                         IN IF rank <= MaxChanges THEN rank \in DOMAIN changes /\ changes[rank] = p
                                                  ELSE more
                    /\ Len(changes) <= Cardinality(Differences)
                    /\ comparison = "pass" <=> Differences = {}
  BY DEF ComparedExactly
<1>1. /\ left \in Reports /\ right \in Reports
      /\ changes \in Seq(Paths) /\ Len(changes) <= MaxChanges
      /\ comparison = "pass" <=> changes = <<>>
      /\ Walked(<<>>, changes, more)
  BY DEF WalkInv, WalkEnded
<1>2. Len(changes) \in Nat /\ MaxChanges \in Nat \ {0} /\ DOMAIN changes = 1..Len(changes)
  BY <1>1, LenProperties, CompareAssumption
<1>3. Passed(<<>>) = Differences
  <2>1. \A n \in 1..Len(<<>>) : FALSE
    BY EmptySeq
  <2> QED
    BY <2>1 DEF Passed
<1>4. /\ \A k \in 1..Len(changes) : changes[k] \in Differences
      /\ \A k, l \in 1..Len(changes) : k < l => Before(changes[k], changes[l])
      /\ \A p \in Differences :
           (\E k \in 1..Len(changes) : changes[k] = p) \/ Len(changes) = MaxChanges
  BY <1>1, <1>3 DEF Walked
<1>5. \A p \in Differences :
        LET rank == Cardinality({q \in Differences : Before(q, p)}) + 1
        IN IF rank <= MaxChanges THEN rank \in DOMAIN changes /\ changes[rank] = p ELSE more
  BY <1>1, RankOfListed
<1>6. Len(changes) <= Cardinality(Differences)
  <2>1. IsFiniteSet(Differences) /\ \A p \in Differences : p \in Seq(Key)
    BY <1>1, PathFacts
  <2>2. ASSUME NEW k \in DOMAIN changes, NEW l \in DOMAIN changes, changes[k] = changes[l]
        PROVE  k = l
    <3>1. \A p, q \in Differences : Before(p, q) => p # q
      BY <2>1, PathOrder
    <3>2. k < l \/ l < k \/ k = l
      BY <1>2
    <3> QED
      BY <1>2, <1>4, <2>2, <3>1, <3>2
  <2>3. changes \in [1..Len(changes) -> Differences]
    <3>1. changes = [k \in 1..Len(changes) |-> changes[k]]
      BY <1>1, LenProperties
    <3> QED
      BY <1>4, <3>1
  <2>4. changes \in Injection(1..Len(changes), Differences)
    BY <2>2, <2>3 DEF Injection, IsInjective
  <2>5. \A n \in Nat : Cardinality(1..n) = n
    BY FS_Interval
  <2>6. Cardinality(1..Len(changes)) = Len(changes)
    BY <1>2, <2>5, Zenon
  <2> QED
    BY <2>1, <2>4, <2>6, FS_Injection
<1>7. changes = <<>> <=> Differences = {}
  <2> DEFINE none == <<>>
  <2>1. Len(none) = 0 /\ (changes # none => Len(changes) \in Nat \ {0})
    BY <1>1, EmptySeq
  <2> HIDE DEF none
  <2>2. changes = none <=> Len(changes) = 0
    BY <1>2, <2>1
  <2> DEFINE N == Len(changes)
  <2>3. /\ N \in Nat /\ MaxChanges \in Nat \ {0}
        /\ \A k \in 1..N : changes[k] \in Differences
        /\ \A p \in Differences : (\E k \in 1..N : changes[k] = p) \/ N = MaxChanges
    BY <1>2, <1>4
  <2> HIDE DEF N
  <2>4. N = 0 <=> Differences = {}
    <3>1. ASSUME N # 0 PROVE Differences # {}
      <4>1. 1 \in 1..N
        BY <2>3, <3>1
      <4> QED
        BY <2>3, <4>1
    <3>2. ASSUME N = 0 PROVE \A p \in Differences : FALSE
      BY <2>3, <3>2
    <3> QED
      BY <3>1, <3>2
  <2> QED
    BY <2>2, <2>4 DEF none, N
<1> QED
  BY <1>1, <1>5, <1>6, <1>7

\* Nothing is on the stack twice, or listed twice, or both.
LEMMA WalkTypes == WalkInv => CompareTypeOK
<1> SUFFICES ASSUME WalkInv PROVE CompareTypeOK
  OBVIOUS
<1>1. /\ left \in Reports /\ right \in Reports
      /\ visits \in Seq(Paths) /\ changes \in Seq(Paths)
  BY DEF WalkInv
<1>2. /\ Len(visits) \in Nat /\ DOMAIN visits = 1..Len(visits)
      /\ Len(changes) \in Nat /\ DOMAIN changes = 1..Len(changes)
  BY <1>1, LenProperties
<1>3. Range(visits) \cup Range(changes) \subseteq DOMAIN left \cup DOMAIN right
  BY <1>1, RangeOfSeq DEF Paths
<1> DEFINE both == visits \o changes
<1>4. /\ both \in Seq(Paths) /\ Len(both) = Len(visits) + Len(changes)
      /\ \A n \in 1..Len(visits) + Len(changes) :
           both[n] = IF n <= Len(visits) THEN visits[n] ELSE changes[n - Len(visits)]
  BY <1>1, ConcatProperties
<1> HIDE DEF both
<1>5. DOMAIN both = 1..(Len(visits) + Len(changes))
  BY <1>4, LenProperties
<1>6. ASSUME Len(visits) + Len(changes) # 0 PROVE Walked(visits, changes, more)
  <2>1. ~ (visits = <<>> /\ changes = <<>>)
    BY <1>6, EmptySeq
  <2> QED
    BY <2>1 DEF WalkInv
<1>7. ASSUME NEW m \in DOMAIN both, NEW n \in DOMAIN both, m < n PROVE both[m] # both[n]
  <2>1. Walked(visits, changes, more)
    BY <1>2, <1>5, <1>6, <1>7
  <2>2. \A p, q \in Paths : Before(p, q) \/ Before(q, p) => p # q
    BY <1>1, PathFacts, PathOrder
  <2>3. /\ \A k \in 1..Len(visits) : visits[k] \in Paths
        /\ \A k \in 1..Len(changes) : changes[k] \in Paths
    BY <1>1, ElementOfSeq
  <2>4. CASE n <= Len(visits)
    <3>1. m \in 1..Len(visits) /\ n \in 1..Len(visits) /\ m <= Len(visits)
      BY <1>2, <1>5, <1>7, <2>4
    <3>2. both[m] = visits[m] /\ both[n] = visits[n]
      BY <1>4, <1>5, <2>4, <3>1
    <3> QED
      BY <1>7, <2>1, <2>2, <2>3, <3>1, <3>2 DEF Walked
  <2>5. CASE ~ (n <= Len(visits)) /\ m <= Len(visits)
    <3>1. m \in 1..Len(visits) /\ n - Len(visits) \in 1..Len(changes)
      BY <1>2, <1>5, <2>5
    <3>2. both[m] = visits[m] /\ both[n] = changes[n - Len(visits)]
      BY <1>4, <1>5, <2>5
    <3>3. Before(changes[n - Len(visits)], visits[m])
      BY <2>1, <3>1 DEF Walked
    <3> QED
      BY <2>2, <2>3, <3>1, <3>2, <3>3
  <2>6. CASE ~ (n <= Len(visits)) /\ ~ (m <= Len(visits))
    <3>1. /\ m - Len(visits) \in 1..Len(changes) /\ n - Len(visits) \in 1..Len(changes)
          /\ m - Len(visits) < n - Len(visits)
      BY <1>2, <1>5, <1>7, <2>6
    <3>2. both[m] = changes[m - Len(visits)] /\ both[n] = changes[n - Len(visits)]
      BY <1>4, <1>5, <2>6
    <3>3. Before(changes[m - Len(visits)], changes[n - Len(visits)])
      BY <2>1, <3>1 DEF Walked
    <3> QED
      BY <2>2, <2>3, <3>1, <3>2, <3>3
  <2>7. ~ (n <= Len(visits)) \/ n <= Len(visits)
    OBVIOUS
  <2>8. m <= Len(visits) \/ ~ (m <= Len(visits))
    OBVIOUS
  <2> QED
    BY <2>4, <2>5, <2>6, <2>7, <2>8
<1>8. IsInjective(both)
  <2> SUFFICES ASSUME NEW m \in DOMAIN both, NEW n \in DOMAIN both, both[m] = both[n], m # n
               PROVE  FALSE
    BY DEF IsInjective
  <2>1. m < n \/ n < m
    BY <1>2, <1>5
  <2> QED
    BY <1>7, <2>1
<1> QED
  BY <1>3, <1>8 DEF WalkInv, CompareTypeOK, both

LEMMA WalkInvariant == CompareSpec => []WalkInv
BY WalkInitially, WalkStep, PTL DEF CompareSpec

\* Comparing two reports: the stack holds only paths of theirs, none twice and
\* none that is listed, and no more changes are listed than the limit.
THEOREM ComparisonTypes == CompareSpec => []CompareTypeOK
BY WalkInvariant, WalkTypes, PTL

\* Comparing two reports: the first differences of the document are listed, in
\* order, as many as the limit allows; if any did not fit that is told; and
\* "pass" means there are none.
THEOREM ComparedInOrder == CompareSpec => []ComparedExactly
BY WalkInvariant, ComparedAtTheEnd, PTL

------------------------------------------------------------------------------
(***************************************************************************)
(* ProxySelection, for every target, configuration and answer.  A plan     *)
(* that is not refused leaves no name to the proxy when a family is        *)
(* selected, and what is taken from an answer is what the family allows.   *)
(***************************************************************************)
FamilyInv ==
  /\ target \in Targets /\ family \in IPFamily \cup {"any"}
  /\ \A i \in DOMAIN plan.addresses : address_family_allows(plan.addresses[i])
  /\ step = "connect" => Refusal = "none"
  /\ destination.kind = "name" => family = "any"
  /\ destination.kind = "address" => family \in {"any", destination.family}

LEMMA UsableIsAllowed ==
  ASSUME NEW a \in Answers
  PROVE  /\ Len(Usable(a)) <= MaxAddresses
         /\ \A i \in DOMAIN Usable(a) : address_family_allows(Usable(a)[i])
<1> DEFINE first == {i \in DOMAIN a : /\ address_family_allows(a[i])
                                     /\ \A j \in 1..(i - 1) : a[j] # a[i]}
           distinct == Picked(a, first)
           T == [family : IPFamily, number : Nat]
<1>1. a \in Seq(T) /\ first \subseteq DOMAIN a
  BY AddressAssumption
<1>2. \A i \in first : address_family_allows(a[i])
  OBVIOUS
<1>3. Usable(a) = IF Len(distinct) > MaxAddresses THEN SubSeq(distinct, 1, MaxAddresses)
                                                  ELSE distinct
  BY Zenon DEF Usable
<1> HIDE DEF first, T
<1>4. distinct \in Seq(T) /\ Range(distinct) = {a[i] : i \in first}
  BY <1>1, PickedElements
<1> HIDE DEF distinct
<1>5. \A i \in DOMAIN distinct : address_family_allows(distinct[i])
  BY <1>2, <1>4 DEF Range
<1>6. CASE Len(distinct) > MaxAddresses
  <2>1. MaxAddresses \in Nat /\ Len(distinct) \in Nat /\ DOMAIN distinct = 1..Len(distinct)
    BY <1>4, LenProperties, MaxAddressesAssumption
  <2>2. MaxAddresses \in 0..Len(distinct)
    BY <1>6, <2>1
  <2> DEFINE cut == SubSeq(distinct, 1, MaxAddresses)
  <2>3. cut \in Seq(T) /\ Len(cut) = MaxAddresses /\ \A i \in 1..MaxAddresses : cut[i] = distinct[i]
    BY <1>4, <2>2, FirstElements
  <2> HIDE DEF cut
  <2>4. DOMAIN cut = 1..MaxAddresses
    BY <2>3, LenProperties
  <2>5. \A i \in DOMAIN cut : address_family_allows(cut[i])
    BY <1>5, <2>1, <2>2, <2>3, <2>4
  <2>6. Len(cut) <= MaxAddresses
    BY <2>1, <2>3
  <2> QED
    BY <1>3, <1>6, <2>5, <2>6 DEF cut
<1>7. CASE ~ (Len(distinct) > MaxAddresses)
  <2>1. Len(distinct) <= MaxAddresses
    BY <1>4, <1>7, LenProperties, MaxAddressesAssumption
  <2> QED
    BY <1>3, <1>5, <1>7, <2>1
<1> QED
  BY <1>6, <1>7

\* The address that a lookup of the target gives is one the family allows.
LEMMA LookedUpIsAllowed ==
  ASSUME NEW a \in Answers
  PROVE  LET all == Lookup(a)
             allowed == {i \in DOMAIN all : address_family_allows(all[i])}
         IN allowed # {} => /\ Nth(allowed, 1) \in DOMAIN all
                            /\ address_family_allows(all[Nth(allowed, 1)])
<1> DEFINE all == Lookup(a)
           allowed == {i \in DOMAIN all : address_family_allows(all[i])}
<1>1. \E T : all \in Seq(T)
  <2>1. a \in Seq([family : IPFamily, number : Nat])
    BY AddressAssumption
  <2> DEFINE x == [family |-> target.family, number |-> target.number]
  <2>2. <<x>> \in Seq({x})
    <3> HIDE DEF x
    <3> QED
      OBVIOUS
  <2>3. all = IF target.family = "none" THEN a ELSE <<x>>
    BY DEF Lookup
  <2> HIDE DEF all, x
  <2> QED
    BY <2>1, <2>2, <2>3
<1> HIDE DEF all
<1> SUFFICES ASSUME allowed # {}
             PROVE  Nth(allowed, 1) \in DOMAIN all /\ address_family_allows(all[Nth(allowed, 1)])
  BY DEF all
<1>2. PICK T : all \in Seq(T)
  BY <1>1
<1>3. allowed \subseteq DOMAIN all /\ \A i \in allowed : address_family_allows(all[i])
  OBVIOUS
<1> HIDE DEF allowed
<1>4. IsFiniteSet(allowed) /\ allowed \subseteq Nat
  BY <1>2, <1>3, PickedElements
<1>5. Cardinality(allowed) \in Nat /\ Cardinality(allowed) # 0
  BY <1>4, FS_CardinalityType, FS_EmptySet
<1>6. 1 \in 1..Cardinality(allowed)
  BY <1>5
<1>7. Nth(allowed, 1) \in allowed
  BY <1>4, <1>6, NthElements
<1> QED
  BY <1>3, <1>7

LEMMA LookedUpHasFamily ==
  ASSUME NEW a \in Answers, target \in Targets
  PROVE  LET all == Lookup(a)
             allowed == {i \in DOMAIN all : address_family_allows(all[i])}
         IN allowed # {} => all[Nth(allowed, 1)].family \in IPFamily
<1> DEFINE all == Lookup(a)
           allowed == {i \in DOMAIN all : address_family_allows(all[i])}
           n == Nth(allowed, 1)
<1>1. allowed # {} => n \in DOMAIN all
  BY LookedUpIsAllowed
<1>2. \A i \in DOMAIN all : all[i].family \in IPFamily
  <2>1. CASE target.family = "none"
    <3>1. a \in Seq([family : IPFamily, number : Nat]) /\ all = a
      BY <2>1, AddressAssumption DEF Lookup
    <3> HIDE DEF all
    <3>2. \A i \in DOMAIN all : all[i] \in [family : IPFamily, number : Nat]
      BY <3>1, ElementOfSeq, LenProperties
    <3> QED
      BY <3>2
  <2>2. CASE target.family # "none"
    <3> DEFINE x == [family |-> target.family, number |-> target.number]
    <3>1. x.family \in IPFamily
      BY <2>2, TargetAssumption
    <3>2. all = <<x>>
      BY <2>2 DEF Lookup
    <3> HIDE DEF x, all
    <3>3. DOMAIN all = {1} /\ all[1] = x
      BY <3>2
    <3> QED
      BY <3>1, <3>3
  <2> QED
    BY <2>1, <2>2
<1> HIDE DEF n, allowed, all
<1>3. allowed # {} => all[n].family \in IPFamily
  BY <1>1, <1>2
<1> QED
  BY <1>3 DEF n, allowed, all

LEMMA NoAddresses ==
  ASSUME NEW kind, NEW error
  PROVE  \A i \in DOMAIN Plan(kind, error, <<>>).addresses : FALSE
<1>1. Plan(kind, error, <<>>).addresses = <<>>
  BY DEF Plan
<1>2. DOMAIN <<>> = {}
  OBVIOUS
<1> QED
  BY <1>1, <1>2

LEMMA FamilyInitially == Init => FamilyInv
<1> SUFFICES ASSUME Init PROVE FamilyInv
  OBVIOUS
<1>1. \A i \in DOMAIN plan.addresses : FALSE
  BY NoAddresses DEF Init
<1>2. target \in Targets /\ family \in IPFamily \cup {"any"} /\ step = "select"
      /\ destination.kind = "none"
  BY DEF Init, Nowhere
<1> QED
  BY <1>1, <1>2 DEF FamilyInv

LEMMA FamilyStep == FamilyInv /\ [Next]_vars => FamilyInv'
<1> SUFFICES ASSUME FamilyInv, [Next]_vars PROVE FamilyInv'
  OBVIOUS
<1>1. target' = target /\ family' = family
  BY DEF Next, Select, resolve_proxy, Request, vars, inputs
<1>2. /\ target \in Targets /\ family \in IPFamily \cup {"any"}
      /\ \A i \in DOMAIN plan.addresses : address_family_allows(plan.addresses[i])
      /\ step = "connect" => Refusal = "none"
      /\ destination.kind = "name" => family = "any"
      /\ destination.kind = "address" => family \in {"any", destination.family}
  BY DEF FamilyInv
<1>3. SUFFICES /\ \A i \in DOMAIN plan'.addresses : address_family_allows(plan'.addresses[i])
               /\ step' = "connect" => value' = value /\ Refusal = "none"
               /\ destination'.kind = "name" => family = "any"
               /\ destination'.kind = "address" => family \in {"any", destination'.family}
  BY <1>1, <1>2, <1>3 DEF FamilyInv, address_family_allows, Refusal
<1>4. ASSUME NEW p, NEW kind, NEW error, p = Plan(kind, error, <<>>), Planned(p),
             UNCHANGED destination
      PROVE  <1>3!1
  <2>1. step' = "done" /\ plan' = p
    BY <1>4 DEF Planned
  <2>2. \A i \in DOMAIN plan'.addresses : FALSE
    BY <1>4, <2>1, NoAddresses
  <2> QED
    BY <1>2, <1>4, <2>1, <2>2
<1>5. ASSUME UNCHANGED <<plan, destination>>, step' # "connect" PROVE <1>3!1
  BY <1>2, <1>5
<1>6. CASE Select
  <2>1. ASSUME NEW v, Choose(v), UNCHANGED destination PROVE <1>3!1
    <3>1. CASE v = "unset"
      BY <1>4, <2>1, <3>1 DEF Choose, Unavailable
    <3>2. CASE v # "unset"
      BY <1>5, <2>1, <3>2 DEF Choose
    <3> QED
      BY <3>1, <3>2
  <2>2. UNCHANGED destination
    BY <1>6 DEF Select
  <2>3. \/ \E v : Choose(v)
        \/ \E kind \in {"bypassed", "direct"} : Planned(Plan(kind, "none", <<>>))
    BY <1>6 DEF Select
  <2> QED
    BY <1>4, <2>1, <2>2, <2>3
<1>7. CASE resolve_proxy
  <2>1. CASE Refusal # "none"
    BY <1>4, <1>7, <2>1 DEF resolve_proxy, Unavailable
  <2>2. CASE Refusal = "none"
    <3>1. UNCHANGED destination
      BY <1>7 DEF resolve_proxy
    <3>2. \/ \E error \in {"resolver_error", "timeout", "no_addresses"} : Planned(Unavailable(error))
          \/ \E a \in Answers : /\ step' = "connect"
                                /\ plan' = Plan("proxy", "none", Usable(a))
                                /\ UNCHANGED value
      BY <1>7, <2>2 DEF resolve_proxy
    <3>3. ASSUME NEW a \in Answers, plan' = Plan("proxy", "none", Usable(a)), value' = value
          PROVE  <1>3!1
      <4>1. plan'.addresses = Usable(a)
        BY <3>3 DEF Plan
      <4> QED
        BY <1>2, <2>2, <3>1, <3>3, <4>1, UsableIsAllowed
    <3> QED
      BY <1>4, <3>1, <3>2, <3>3 DEF Unavailable
  <2> QED
    BY <2>1, <2>2
<1>8. CASE Request
  <2>1. step' = "done" /\ plan' = plan /\ value' = value /\ Refusal = "none"
    BY <1>2, <1>8 DEF Request
  <2>2. target.family \in IPFamily \cup {"none"} /\ target.literal \in {target.family, "none"}
    BY <1>2, TargetAssumption DEF ParsedLiteral
  <2>3. /\ family # "any" => target.literal \in {"none", family}
        /\ family # "any" /\ target.literal = "none" => value = "socks5"
    BY <2>1 DEF Refusal
  <2>4. /\ destination'.kind = "name" => family = "any"
        /\ destination'.kind = "address" => family \in {"any", destination'.family}
    <3>1. CASE value # "socks5"
      <4>1. destination' = [kind |-> IF target.family = "none" THEN "name" ELSE "address",
                            family |-> target.family]
        BY <1>8, <3>1 DEF Request
      <4> QED
        BY <1>2, <2>2, <2>3, <3>1, <4>1 DEF IPFamily
    <3>2. CASE value = "socks5" /\ target.literal # "none"
      BY <1>8, <3>2 DEF Request, Nowhere
    <3>3. CASE value = "socks5" /\ target.literal = "none"
      <4>1. PICK a \in Answers :
              LET all == Lookup(a)
                  allowed == {i \in DOMAIN all : address_family_allows(all[i])}
              IN destination' = IF allowed = {} THEN Nowhere
                                ELSE [kind |-> "address", family |-> all[Nth(allowed, 1)].family]
        BY <1>8, <3>3 DEF Request
      <4> DEFINE all == Lookup(a)
                 allowed == {i \in DOMAIN all : address_family_allows(all[i])}
                 x == all[Nth(allowed, 1)]
      <4>2. destination' = IF allowed = {} THEN Nowhere
                           ELSE [kind |-> "address", family |-> x.family]
        BY <4>1
      <4>3. allowed # {} => address_family_allows(x)
        BY LookedUpIsAllowed
      <4> HIDE DEF allowed, x
      <4> QED
        BY <4>2, <4>3 DEF address_family_allows, Nowhere
    <3> QED
      BY <3>1, <3>2, <3>3
  <2> QED
    BY <1>2, <2>1, <2>4
<1>9. CASE UNCHANGED vars
  BY <1>2, <1>9 DEF vars
<1> QED
  BY <1>6, <1>7, <1>8, <1>9 DEF Next

LEMMA FamilyAtTheEnd == FamilyInv => FamilyGuaranteed
BY DEF FamilyInv, FamilyGuaranteed, address_family_allows, IPFamily

LEMMA FamilyInvariant == Spec => []FamilyInv
BY FamilyInitially, FamilyStep, PTL DEF Spec

\* Choosing a proxy: with a family selected, no address of the other one is
\* used for the proxy or asked of it, and no name is left for the proxy to
\* resolve.
THEOREM ProxyFamily == Spec => []FamilyGuaranteed
BY FamilyInvariant, FamilyAtTheEnd, PTL

------------------------------------------------------------------------------
(***************************************************************************)
(* The numbers of ProxySelection.  A range of addresses is tested bit by   *)
(* bit under a mask; what it stands for is a quotient by a power of two.   *)
(***************************************************************************)

\* Induction, for the members of a set.
LEMMA AllNaturals ==
  ASSUME NEW S, 0 \in S, \A n \in Nat : n \in S => n + 1 \in S
  PROVE  \A n \in Nat : n \in S
<1> DEFINE less == {ss \in Nat \X Nat : ss[1] < ss[2]}
           T == Nat \ S
<1>1. IsWellFoundedOn(less, Nat)
  BY NatLessThanWellFounded DEF OpToRel
<1>2. \A x, y \in Nat : x < y => <<x, y>> \in less
  <2> SUFFICES ASSUME NEW x \in Nat, NEW y \in Nat, x < y PROVE <<x, y>> \in less
    OBVIOUS
  <2>1. <<x, y>> \in Nat \X Nat /\ <<x, y>>[1] = x /\ <<x, y>>[2] = y
    OBVIOUS
  <2> QED
    BY <2>1, Zenon
<1> HIDE DEF less
<1> SUFFICES ASSUME T # {} PROVE FALSE
  OBVIOUS
<1>3. PICK x \in T : \A y \in T : <<y, x>> \notin less
  BY <1>1, WFMin
<1>4. x \in Nat /\ x # 0 /\ x - 1 \in Nat /\ x - 1 < x /\ x - 1 + 1 = x
  BY <1>3
<1>5. x - 1 \in T
  BY <1>3, <1>4
<1> QED
  BY <1>2, <1>3, <1>4, <1>5

\* Twice as many subsets for each element.
LEMMA PowerDoubles ==
  ASSUME NEW n \in Nat
  PROVE  2 ^ n \in Nat /\ 2 ^ n >= 1 /\ 2 ^ (n + 1) = 2 * 2 ^ n
<1> DEFINE S == 1..n
           T == 1..(n + 1)
           Old == SUBSET S
           New == {x \in SUBSET T : n + 1 \in x}
<1>1. /\ IsFiniteSet(S) /\ Cardinality(S) = n
      /\ IsFiniteSet(T) /\ Cardinality(T) = n + 1
  BY FS_Interval
<1>2. /\ IsFiniteSet(Old) /\ Cardinality(Old) = 2 ^ n
      /\ IsFiniteSet(SUBSET T) /\ Cardinality(SUBSET T) = 2 ^ (n + 1)
  <2>1. \A X : IsFiniteSet(X) => IsFiniteSet(SUBSET X) /\ Cardinality(SUBSET X) = 2 ^ Cardinality(X)
    BY FS_SUBSET
  <2> QED
    BY <1>1, <2>1
<1>3. T = S \cup {n + 1} /\ n + 1 \notin S
  OBVIOUS
<1>4. SUBSET T = Old \cup New /\ Old \cap New = {}
  BY <1>3
<1>5. IsFiniteSet(New) /\ Cardinality(New) = Cardinality(Old)
  <2> DEFINE f == [x \in Old |-> x \cup {n + 1}]
  <2>1. f \in [Old -> New]
    BY <1>3
  <2>2. \A x, y \in Old : f[x] = f[y] => x = y
    BY <1>3
  <2>3. \A z \in New : \E x \in Old : f[x] = z
    <3> SUFFICES ASSUME NEW z \in New PROVE \E x \in Old : f[x] = z
      OBVIOUS
    <3>1. z \ {n + 1} \in Old /\ (z \ {n + 1}) \cup {n + 1} = z
      BY <1>3
    <3> QED
      BY <3>1
  <2> HIDE DEF f, New, Old
  <2>4. f \in Bijection(Old, New)
    BY <2>1, <2>2, <2>3 DEF Bijection, Injection, Surjection, IsInjective
  <2>5. ExistsBijection(Old, New)
    BY <2>4 DEF ExistsBijection
  <2> QED
    BY <1>2, <2>5, FS_Bijection
<1> HIDE DEF S, T, Old, New
<1>6. Cardinality(Old) \in Nat
  BY <1>2, FS_CardinalityType
<1>7. Cardinality(SUBSET T) = Cardinality(Old) + Cardinality(New)
  <2>1. Cardinality(Old \cup New) =
          Cardinality(Old) + Cardinality(New) - Cardinality(Old \cap New)
    BY <1>2, <1>5, FS_Union
  <2>2. Cardinality(Old \cap New) = 0
    BY <1>4, FS_EmptySet
  <2>3. Cardinality(SUBSET T) = Cardinality(Old \cup New)
    BY <1>4, Zenon
  <2> QED
    BY <1>5, <1>6, <2>1, <2>2, <2>3
<1>8. {} \in Old
  BY DEF Old
<1>9. Cardinality(Old) # 0
  BY <1>2, <1>8, FS_EmptySet
<1> QED
  BY <1>2, <1>5, <1>6, <1>7, <1>9

\* Division by a positive number leaves a smaller remainder.
LEMMA Divided ==
  ASSUME NEW a \in Nat, NEW d \in Nat, d >= 1
  PROVE  /\ a \div d \in Nat
         /\ \E r \in Nat : r < d /\ a = d * (a \div d) + r
<1> DEFINE S == {x \in Nat : \E q, r \in Nat : r < d /\ x = d * q + r}
<1>1. 0 \in S
  <2>1. 0 < d /\ 0 = d * 0 + 0
    OBVIOUS
  <2> QED
    BY <2>1
<1>2. ASSUME NEW n \in Nat, n \in S PROVE n + 1 \in S
  <2>1. PICK q \in Nat, r \in Nat : r < d /\ n = d * q + r
    BY <1>2
  <2>2. CASE r + 1 < d
    <3>1. n + 1 = d * q + (r + 1)
      BY <2>1
    <3> QED
      BY <2>2, <3>1
  <2>3. CASE ~ (r + 1 < d)
    <3>1. r + 1 = d
      BY <2>1, <2>3
    <3>2. d * (q + 1) = d * q + d
      OBVIOUS
    <3>3. n + 1 = d * (q + 1) + 0
      BY <2>1, <3>1, <3>2
    <3> DEFINE t == q + 1
    <3>4. t \in Nat /\ 0 \in Nat /\ 0 < d /\ n + 1 = d * t + 0 /\ n + 1 \in Nat
      BY <3>3
    <3> HIDE DEF t
    <3>5. \E x, y \in Nat : y < d /\ n + 1 = d * x + y
      BY <3>4, Zenon
    <3> QED
      BY <3>4, <3>5, Zenon
  <2> QED
    BY <2>2, <2>3
<1> HIDE DEF S
<1>3. a \in S
  BY <1>1, <1>2, AllNaturals
<1>4. PICK q \in Nat, r \in Nat : r < d /\ a = d * q + r
  BY <1>3 DEF S
<1>5. a \div d = q
  BY <1>4
<1> QED
  BY <1>4, <1>5

\* The quotient by a power of two is twice the next one, and its last bit.
LEMMA QuotientHalved ==
  ASSUME NEW a \in Nat, NEW k \in Nat
  PROVE  /\ a \div 2 ^ k \in Nat /\ a \div 2 ^ (k + 1) \in Nat
         /\ (a \div 2 ^ k) % 2 \in {0, 1}
         /\ a \div 2 ^ k = 2 * (a \div 2 ^ (k + 1)) + ((a \div 2 ^ k) % 2)
<1> DEFINE p == 2 ^ k
           q == a \div p
<1>1. p \in Nat /\ p >= 1 /\ 2 ^ (k + 1) = 2 * p
  BY PowerDoubles
<1> HIDE DEF p
<1>2. PICK r \in Nat : q \in Nat /\ r < p /\ a = p * q + r
  BY <1>1, Divided
<1> HIDE DEF q
<1>3. PICK h \in Nat, b \in {0, 1} : q = 2 * h + b
  <2>1. q \div 2 \in Nat /\ \E s \in Nat : s < 2 /\ q = 2 * (q \div 2) + s
    BY <1>2, Divided
  <2> QED
    BY <2>1
<1>4. q % 2 = b
  BY <1>3
<1>5. a = (2 * p) * h + (p * b + r)
  <2>1. p * (2 * h + b) = (2 * p) * h + p * b
    BY <1>1, <1>3
  <2> QED
    BY <1>1, <1>2, <1>3, <2>1
<1>6. p * b + r \in Nat /\ p * b + r < 2 * p
  BY <1>1, <1>2, <1>3
<1>7. a \div (2 * p) = h
  <2> DEFINE d == 2 * p
             s == p * b + r
  <2>1. d \in Nat /\ d >= 1 /\ s \in Nat /\ s < d /\ a = d * h + s
    BY <1>1, <1>5, <1>6
  <2> HIDE DEF d, s
  <2>2. a \div d = h
    BY <1>3, <2>1
  <2> QED
    BY <2>2 DEF d
<1> QED
  BY <1>1, <1>2, <1>3, <1>4, <1>7 DEF p, q

\* Two numbers agree in all bits from the k-th iff their quotients do.
LEMMA SameBits ==
  ASSUME NEW a \in Nat, NEW b \in Nat, NEW w \in Nat, a < 2 ^ w, b < 2 ^ w,
         NEW k \in Nat, k <= w
  PROVE  (\A i \in k..(w - 1) : (a \div 2 ^ i) % 2 = (b \div 2 ^ i) % 2) <=>
           a \div 2 ^ k = b \div 2 ^ k
<1> DEFINE Bit(x, i) == (x \div 2 ^ i) % 2
           Alike(j) == \A i \in j..(w - 1) : Bit(a, i) = Bit(b, i)
           Same(j) == a \div 2 ^ j = b \div 2 ^ j
           S == {n \in Nat : n <= w => (Alike(w - n) <=> Same(w - n))}
<1>1. 0 \in S
  <2>1. a \div 2 ^ w = 0 /\ b \div 2 ^ w = 0
    <3>1. 2 ^ w \in Nat /\ \A x, d \in Nat : x < d => x \div d = 0
      BY PowerDoubles
    <3> QED
      BY <3>1
  <2>2. Same(w)
    BY <2>1, Zenon
  <2>3. Alike(w)
    OBVIOUS
  <2>4. w - 0 = w
    OBVIOUS
  <2> QED
    BY <2>2, <2>3, <2>4
<1>2. ASSUME NEW n \in Nat, n \in S PROVE n + 1 \in S
  <2> SUFFICES ASSUME n + 1 <= w PROVE Alike(w - (n + 1)) <=> Same(w - (n + 1))
    OBVIOUS
  <2> DEFINE j == w - (n + 1)
  <2>1. j \in Nat /\ w - n = j + 1 /\ n <= w /\ \A i : i \in j..(w - 1) <=> i = j \/ i \in (j + 1)..(w - 1)
    OBVIOUS
  <2> HIDE DEF j
  <2>2. Alike(j + 1) <=> Same(j + 1)
    <3>1. Alike(w - n) <=> Same(w - n)
      BY <1>2, <2>1
    <3> HIDE DEF Alike, Same
    <3> QED
      BY <2>1, <3>1, Zenon
  <2>3. Alike(j) <=> Bit(a, j) = Bit(b, j) /\ Alike(j + 1)
    <3> HIDE DEF Bit
    <3> QED
      BY <2>1
  <2>4. Same(j) <=> Bit(a, j) = Bit(b, j) /\ Same(j + 1)
    <3>1. /\ a \div 2 ^ j \in Nat /\ a \div 2 ^ (j + 1) \in Nat /\ Bit(a, j) \in {0, 1}
          /\ a \div 2 ^ j = 2 * (a \div 2 ^ (j + 1)) + Bit(a, j)
      BY <2>1, QuotientHalved
    <3>2. /\ b \div 2 ^ j \in Nat /\ b \div 2 ^ (j + 1) \in Nat /\ Bit(b, j) \in {0, 1}
          /\ b \div 2 ^ j = 2 * (b \div 2 ^ (j + 1)) + Bit(b, j)
      BY <2>1, QuotientHalved
    <3> DEFINE p == a \div 2 ^ (j + 1)
               q == b \div 2 ^ (j + 1)
               x == Bit(a, j)
               y == Bit(b, j)
    <3>4. Same(j) <=> 2 * p + x = 2 * q + y
      BY <3>1, <3>2, Zenon
    <3>5. p \in Nat /\ q \in Nat /\ x \in {0, 1} /\ y \in {0, 1}
      BY <3>1, <3>2, Zenon
    <3>6. 2 * p + x = 2 * q + y <=> x = y /\ p = q
      <4> HIDE DEF p, q, x, y
      <4> QED
        BY <3>5
    <3> QED
      BY <3>4, <3>6, Zenon
  <2>5. Alike(j) <=> Same(j)
    <3> HIDE DEF Alike, Same
    <3> QED
      BY <2>2, <2>3, <2>4, Zenon
  <2> QED
    BY <2>5 DEF j
<1>3. w - k \in S
  <2>1. w - k \in Nat
    OBVIOUS
  <2> HIDE DEF S
  <2> QED
    BY <1>1, <1>2, <2>1, AllNaturals
<1>4. w - k <= w /\ w - (w - k) = k
  OBVIOUS
<1>5. Alike(w - (w - k)) <=> Same(w - (w - k))
  BY <1>3, <1>4
<1>6. Alike(k) <=> Same(k)
  <2> HIDE DEF Alike, Same
  <2> QED
    BY <1>4, <1>5, Zenon
<1> QED
  BY <1>6, Zenon

\* What IsSuffix compares from the last element backwards is what an
\* alignment of the ends compares.
LEMMA SuffixElements ==
  ASSUME NEW T, NEW s \in Seq(T), NEW t \in Seq(T)
  PROVE  IsSuffix(s, t) <=>
           Len(s) <= Len(t) /\ \A k \in 1..Len(s) : s[k] = t[Len(t) - Len(s) + k]
<1> DEFINE rs == Reverse(s)
           rt == Reverse(t)
<1>1. Len(s) \in Nat /\ Len(t) \in Nat
  BY LenProperties
<1>2. /\ rs \in Seq(T) /\ Len(rs) = Len(s) /\ \A k \in 1..Len(s) : rs[k] = s[Len(s) - k + 1]
      /\ rt \in Seq(T) /\ Len(rt) = Len(t) /\ \A k \in 1..Len(t) : rt[k] = t[Len(t) - k + 1]
  <2>1. \A u \in Seq(T) : Reverse(u) \in Seq(T) /\ Len(Reverse(u)) = Len(u)
                          /\ \A k \in 1..Len(u) : Reverse(u)[k] = u[Len(u) - k + 1]
    BY SeqDef DEF Reverse
  <2> QED
    BY <2>1
<1>3. IsSuffix(s, t) <=> IsPrefix(rs, rt)
  BY DEF IsSuffix
<1> HIDE DEF rs, rt
<1>4. IsPrefix(rs, rt) <=> Len(rs) <= Len(rt) /\ \A k \in 1..Len(rs) : rs[k] = rt[k]
  <2>1. \A u, v \in Seq(T) :
          IsPrefix(u, v) <=> Len(u) <= Len(v) /\ \A k \in 1..Len(u) : u[k] = v[k]
    BY PrefixElements
  <2> QED
    BY <1>2, <2>1, Zenon
<1>5. ASSUME Len(s) <= Len(t)
      PROVE  (\A k \in 1..Len(s) : rs[k] = rt[k]) <=>
               \A k \in 1..Len(s) : s[k] = t[Len(t) - Len(s) + k]
  <2>1. \A k \in 1..Len(s) : /\ Len(s) - k + 1 \in 1..Len(s) /\ k \in 1..Len(t)
                             /\ Len(s) - (Len(s) - k + 1) + 1 = k
                             /\ Len(t) - Len(s) + (Len(s) - k + 1) = Len(t) - k + 1
    BY <1>1, <1>5
  <2>2. ASSUME \A k \in 1..Len(s) : rs[k] = rt[k], NEW k \in 1..Len(s)
        PROVE  s[k] = t[Len(t) - Len(s) + k]
    <3> DEFINE n == Len(s) - k + 1
    <3>1. n \in 1..Len(s) /\ n \in 1..Len(t) /\ Len(s) - n + 1 = k
          /\ Len(t) - n + 1 = Len(t) - Len(s) + k
      BY <1>1, <2>1
    <3> HIDE DEF n
    <3>2. rs[n] = s[Len(s) - n + 1] /\ rt[n] = t[Len(t) - n + 1] /\ rs[n] = rt[n]
      BY <1>2, <2>2, <3>1
    <3> QED
      BY <3>1, <3>2, Zenon
  <2>3. ASSUME \A k \in 1..Len(s) : s[k] = t[Len(t) - Len(s) + k], NEW k \in 1..Len(s)
        PROVE  rs[k] = rt[k]
    <3> DEFINE n == Len(s) - k + 1
    <3>1. n \in 1..Len(s) /\ Len(t) - Len(s) + n = Len(t) - k + 1 /\ k \in 1..Len(t)
      BY <2>1
    <3>2. rs[k] = s[n] /\ rt[k] = t[Len(t) - k + 1]
      BY <1>2, <3>1
    <3> HIDE DEF n
    <3>3. s[n] = t[Len(t) - Len(s) + n]
      BY <2>3, <3>1
    <3> QED
      BY <3>1, <3>2, <3>3, Zenon
  <2> QED
    BY <2>2, <2>3, Zenon
<1> QED
  BY <1>2, <1>3, <1>4, <1>5, Zenon

\* A name ends with another iff it is some labels followed by that one.
LEMMA EndsWith ==
  ASSUME NEW T, NEW s \in Seq(T), NEW t \in Seq(T)
  PROVE  IsSuffix(s, t) <=> \E i \in 0..Len(t) : t = SubSeq(t, 1, i) \o s
<1>1. Len(s) \in Nat /\ Len(t) \in Nat
  BY LenProperties
<1>2. ASSUME NEW i \in 0..Len(t)
      PROVE  LET u == SubSeq(t, 1, i) \o s
             IN  /\ u \in Seq(T) /\ Len(u) = i + Len(s)
                 /\ \A k \in 1..i : u[k] = t[k]
                 /\ \A k \in 1..Len(s) : u[i + k] = s[k]
  <2> DEFINE f == SubSeq(t, 1, i)
             u == f \o s
  <2>1. f \in Seq(T) /\ Len(f) = i /\ \A k \in 1..i : f[k] = t[k]
    BY FirstElements
  <2> HIDE DEF f
  <2>2. /\ u \in Seq(T) /\ Len(u) = Len(f) + Len(s)
        /\ \A k \in 1..(Len(f) + Len(s)) : u[k] = IF k <= Len(f) THEN f[k] ELSE s[k - Len(f)]
    BY <2>1, ConcatProperties
  <2> HIDE DEF u
  <2>3. ASSUME NEW k \in 1..i PROVE u[k] = t[k]
    BY <1>1, <2>1, <2>2
  <2>4. ASSUME NEW k \in 1..Len(s) PROVE u[i + k] = s[k]
    <3> DEFINE n == i + k
    <3>1. n \in 1..(i + Len(s)) /\ ~ (n <= i) /\ n - i = k
      BY <1>1
    <3> HIDE DEF n
    <3>2. u[n] = s[n - i]
      BY <2>1, <2>2, <3>1
    <3> QED
      BY <3>1, <3>2 DEF n
  <2> QED
    BY <2>1, <2>2, <2>3, <2>4 DEF u, f
<1>3. ASSUME NEW i \in 0..Len(t), t = SubSeq(t, 1, i) \o s
      PROVE  IsSuffix(s, t)
  <2> DEFINE u == SubSeq(t, 1, i) \o s
  <2>1. Len(u) = i + Len(s) /\ \A k \in 1..Len(s) : u[i + k] = s[k]
    BY <1>2
  <2>2. u = t
    BY <1>3
  <2> HIDE DEF u
  <2>3. Len(t) = i + Len(s) /\ \A k \in 1..Len(s) : t[i + k] = s[k]
    BY <2>1, <2>2
  <2>4. Len(s) <= Len(t) /\ Len(t) - Len(s) = i
    BY <1>1, <2>3
  <2> QED
    BY <2>3, <2>4, SuffixElements
<1>4. ASSUME IsSuffix(s, t)
      PROVE  \E i \in 0..Len(t) : t = SubSeq(t, 1, i) \o s
  <2> DEFINE i == Len(t) - Len(s)
             u == SubSeq(t, 1, i) \o s
  <2>1. Len(s) <= Len(t) /\ \A k \in 1..Len(s) : s[k] = t[i + k]
    BY <1>4, SuffixElements
  <2>2. i \in 0..Len(t) /\ i + Len(s) = Len(t)
    BY <1>1, <2>1
  <2> HIDE DEF i
  <2>3. /\ u \in Seq(T) /\ Len(u) = i + Len(s)
        /\ \A k \in 1..i : u[k] = t[k]
        /\ \A k \in 1..Len(s) : u[i + k] = s[k]
    BY <1>2, <2>2
  <2> HIDE DEF u
  <2>4. ASSUME NEW n \in 1..Len(t) PROVE t[n] = u[n]
    <3>1. CASE n <= i
      BY <2>2, <2>3, <3>1
    <3>2. CASE ~ (n <= i)
      <4> DEFINE k == n - i
      <4>1. k \in 1..Len(s) /\ i + k = n
        BY <1>1, <2>2, <3>2
      <4> HIDE DEF k
      <4>2. u[i + k] = s[k] /\ s[k] = t[i + k]
        BY <2>1, <2>3, <4>1
      <4> QED
        BY <4>1, <4>2, Zenon
    <3> QED
      BY <3>1, <3>2
  <2>5. t = u
    BY <2>2, <2>3, <2>4, SeqEqual
  <2> QED
    BY <2>2, <2>5 DEF u
<1> QED
  BY <1>3, <1>4

------------------------------------------------------------------------------
(***************************************************************************)
(* When the proxy is bypassed: the entries of the effective NO_PROXY match *)
(* exactly the targets they stand for, and a plan that goes on to choose a *)
(* proxy is one that nothing excludes.                                     *)
(***************************************************************************)

\* A number matches under the mask iff it is in the range of the prefix.
LEMMA RangeTested ==
  ASSUME NEW e, IsEntry(e), e.kind = "cidr", NEW t \in Targets, t.family # "none"
  PROVE  cidr_contains(e, t) <=>
           /\ t.family = e.family /\ e.prefix <= Width[e.family]
           /\ t.number \div 2 ^ (Width[e.family] - e.prefix) =
                e.number \div 2 ^ (Width[e.family] - e.prefix)
<1> DEFINE w == Width[e.family]
           k == w - e.prefix
           Bit(n, i) == (n \div 2 ^ i) % 2
<1> SUFFICES ASSUME t.family = e.family, e.prefix <= w
             PROVE  Bits(e.number, t.family) \cap Mask(t.family, e.prefix) =
                      Bits(t.number, t.family) \cap Mask(t.family, e.prefix) <=>
                    t.number \div 2 ^ k = e.number \div 2 ^ k
  BY DEF cidr_contains
<1>1. /\ w \in Nat /\ e.prefix \in Nat /\ e.number \in Nat /\ e.number < 2 ^ w
      /\ t.number \in Nat /\ t.number < 2 ^ w
  BY WidthAssumption, TargetAssumption DEF IsEntry
<1>2. k \in Nat /\ k <= w /\ \A i \in k..(w - 1) : i \in 0..(w - 1) /\ i \in Nat
  BY <1>1
<1>3. (\A i \in k..(w - 1) : Bit(t.number, i) = Bit(e.number, i)) <=>
        t.number \div 2 ^ k = e.number \div 2 ^ k
  <2> DEFINE a == t.number
             b == e.number
  <2>1. a \in Nat /\ b \in Nat /\ w \in Nat /\ k \in Nat /\ k <= w /\ a < 2 ^ w /\ b < 2 ^ w
    BY <1>1, <1>2
  <2> HIDE DEF k, w, a, b
  <2>2. (\A i \in k..(w - 1) : (a \div 2 ^ i) % 2 = (b \div 2 ^ i) % 2) <=>
          a \div 2 ^ k = b \div 2 ^ k
    BY <2>1, SameBits
  <2> QED
    BY <2>2 DEF a, b
<1>4. \A i \in k..(w - 1) : Bit(t.number, i) \in {0, 1} /\ Bit(e.number, i) \in {0, 1}
  <2>1. \A a, j \in Nat : (a \div 2 ^ j) % 2 \in {0, 1}
    BY QuotientHalved
  <2> HIDE DEF k, w
  <2> QED
    BY <1>1, <1>2, <2>1, Zenon
<1>5. Mask(t.family, e.prefix) = k..(w - 1)
  <2>1. CASE e.prefix = 0
    <3>1. k..(w - 1) = {}
      BY <1>1, <2>1
    <3> QED
      BY <2>1, <3>1 DEF Mask
  <2>2. CASE e.prefix # 0
    BY <2>2 DEF Mask
  <2> QED
    BY <2>1, <2>2
<1>6. /\ Bits(e.number, t.family) = {i \in 0..(w - 1) : Bit(e.number, i) = 1}
      /\ Bits(t.number, t.family) = {i \in 0..(w - 1) : Bit(t.number, i) = 1}
  BY DEF Bits
<1> HIDE DEF Bit, k, w
<1>7. {i \in 0..(w - 1) : Bit(e.number, i) = 1} \cap (k..(w - 1)) =
        {i \in 0..(w - 1) : Bit(t.number, i) = 1} \cap (k..(w - 1)) <=>
      \A i \in k..(w - 1) : Bit(e.number, i) = 1 <=> Bit(t.number, i) = 1
  <2> DEFINE K == k..(w - 1)
  <2>1. K \subseteq 0..(w - 1)
    BY <1>2
  <2> HIDE DEF K
  <2>2. {i \in 0..(w - 1) : Bit(e.number, i) = 1} \cap K =
          {i \in 0..(w - 1) : Bit(t.number, i) = 1} \cap K <=>
        \A i \in K : Bit(e.number, i) = 1 <=> Bit(t.number, i) = 1
    BY <2>1, Zenon
  <2> QED
    BY <2>2 DEF K
<1>8. (\A i \in k..(w - 1) : Bit(e.number, i) = 1 <=> Bit(t.number, i) = 1) <=>
        \A i \in k..(w - 1) : Bit(t.number, i) = Bit(e.number, i)
  BY <1>4
<1> QED
  BY <1>3, <1>5, <1>6, <1>7, <1>8, Zenon

\* An entry matches exactly the targets it stands for.
LEMMA EntryCovers ==
  ASSUME NEW e, IsEntry(e), NEW t \in Targets
  PROVE  no_proxy_entry_matches(e, t) <=> Covers(e, t)
<1>1. IsSuffix(e.text, t.text) <=>
        \E i \in 0..Len(t.text) : t.text = SubSeq(t.text, 1, i) \o e.text
  <2> DEFINE T == Range(e.text) \cup Range(t.text)
  <2>1. e.text \in Seq(Range(e.text)) /\ t.text \in Seq(Range(t.text))
    BY TargetAssumption DEF IsEntry
  <2>2. e.text \in Seq(T) /\ t.text \in Seq(T)
    BY <2>1, SeqMonotonic
  <2> HIDE DEF T
  <2> QED
    BY <2>2, EndsWith
<1>2. e.port \in {0, t.port} <=> e.port = 0 \/ e.port = t.port
  OBVIOUS
<1>3. CASE e.kind = "all"
  BY <1>3 DEF no_proxy_entry_matches, Covers
<1>4. CASE e.kind = "text"
  BY <1>1, <1>2, <1>4 DEF no_proxy_entry_matches, Covers
<1>5. CASE e.kind = "cidr" /\ t.family = "none"
  <2>1. e.family # "none" /\ ~ IsSuffix(e.text, t.text)
    BY <1>5 DEF IsEntry, IPFamily
  <2> QED
    BY <1>5, <2>1 DEF no_proxy_entry_matches, Covers
<1>6. CASE e.kind = "cidr" /\ t.family # "none"
  <2>1. cidr_contains(e, t) <=>
           /\ t.family = e.family /\ e.prefix <= Width[e.family]
           /\ t.number \div 2 ^ (Width[e.family] - e.prefix) =
                e.number \div 2 ^ (Width[e.family] - e.prefix)
    BY <1>6, RangeTested
  <2> QED
    BY <1>2, <1>6, <2>1, Zenon DEF no_proxy_entry_matches, Covers
<1> QED
  BY <1>3, <1>4, <1>5, <1>6 DEF IsEntry

Bypasses == explicit = "unset" /\ proxy_mode = "environment" /\ no_proxy_matches

\* The variables that the context keeps are those that hold a text.
LEMMA Kept ==
  ASSUME environment \in Environments
  PROVE  /\ \A name \in NoProxyVariable :
              name \in proxy_environment <=> environment[name] = "text"
         /\ environment["NO_PROXY"] = environment.NO_PROXY
BY EnvironmentAssumption DEF proxy_environment, NoText

LEMMA BypassCovers ==
  ASSUME target \in Targets, environment \in Environments
  PROVE  no_proxy_matches <=>
           \E name \in NoProxyVariable :
             /\ environment[name] = "text"
             /\ name = "no_proxy" => environment.NO_PROXY # "text"
             /\ \E x \in Range(environment.entries[name]) : Covers(x, target)
<1> DEFINE Covered(name) == \E x \in Range(environment.entries[name]) : Covers(x, target)
           Excluded(name) == \E x \in Range(environment.entries[name]) :
                               no_proxy_entry_matches(x, target)
           effective == IF "NO_PROXY" \in proxy_environment THEN "NO_PROXY" ELSE "no_proxy"
<1>1. ASSUME NEW name \in NoProxyVariable PROVE Excluded(name) <=> Covered(name)
  <2>1. \A x \in Range(environment.entries[name]) : IsEntry(x)
    BY EnvironmentAssumption, Zenon
  <2> QED
    BY <2>1, EntryCovers
<1>2. no_proxy_matches <=> effective \in proxy_environment /\ Excluded(effective)
  BY DEF no_proxy_matches
<1> HIDE DEF Covered, Excluded
<1>3. effective \in NoProxyVariable
  BY DEF NoProxyVariable
<1>4. no_proxy_matches <=> effective \in proxy_environment /\ Covered(effective)
  BY <1>1, <1>2, <1>3
<1>5. no_proxy_matches <=>
        \/ "NO_PROXY" \in proxy_environment /\ Covered("NO_PROXY")
        \/ /\ "NO_PROXY" \notin proxy_environment
           /\ "no_proxy" \in proxy_environment /\ Covered("no_proxy")
  BY <1>4
<1>6. no_proxy_matches <=>
        \E name \in NoProxyVariable :
          /\ environment[name] = "text"
          /\ name = "no_proxy" => environment.NO_PROXY # "text"
          /\ Covered(name)
  BY <1>5, Kept DEF NoProxyVariable
<1> QED
  BY <1>6 DEF Covered

BypassInv ==
  /\ target \in Targets /\ environment \in Environments
  /\ step \in {"select", "resolve", "connect", "done"}
  /\ step # "done" => plan.kind # "bypassed"
  /\ step \in {"resolve", "connect"} => ~ Bypasses
  /\ step = "done" => (plan.kind = "bypassed" <=> Bypasses)

LEMMA BypassInitially == Init => BypassInv
BY DEF Init, BypassInv, Plan

LEMMA BypassStep == BypassInv /\ [Next]_vars => BypassInv'
<1> SUFFICES ASSUME BypassInv, [Next]_vars PROVE BypassInv'
  OBVIOUS
<1>1. inputs' = inputs
  BY DEF Next, Select, resolve_proxy, Request, vars
<1>2. /\ target \in Targets /\ environment \in Environments
      /\ step \in {"select", "resolve", "connect", "done"}
      /\ step # "done" => plan.kind # "bypassed"
      /\ step \in {"resolve", "connect"} => ~ Bypasses
      /\ step = "done" => (plan.kind = "bypassed" <=> Bypasses)
  BY DEF BypassInv
<1>3. target' = target /\ environment' = environment /\ (Bypasses' <=> Bypasses)
  <2>1. /\ target' = target /\ environment' = environment
        /\ explicit' = explicit /\ proxy_mode' = proxy_mode
    BY <1>1 DEF inputs
  <2>2. no_proxy_matches' <=> no_proxy_matches
    BY <2>1, Zenon DEF no_proxy_matches, proxy_environment
  <2> QED
    BY <2>1, <2>2 DEF Bypasses
<1>4. SUFFICES /\ step' \in {"select", "resolve", "connect", "done"}
               /\ step' # "done" => plan'.kind # "bypassed"
               /\ step' \in {"resolve", "connect"} => ~ Bypasses
               /\ step' = "done" => (plan'.kind = "bypassed" <=> Bypasses)
  BY <1>2, <1>3 DEF BypassInv
<1>5. ASSUME NEW kind, NEW error, NEW a, Planned(Plan(kind, error, a)),
             kind = "bypassed" <=> Bypasses
      PROVE  <1>4!1
  <2>1. step' = "done" /\ plan'.kind = kind
    BY <1>5 DEF Planned, Plan
  <2> QED
    BY <1>5, <2>1
<1>6. ASSUME NEW v, Choose(v), ~ Bypasses, plan.kind # "bypassed" PROVE <1>4!1
  <2>1. CASE v = "unset"
    <3>1. Planned(Plan("unavailable", "not_configured", <<>>))
      BY <1>6, <2>1 DEF Choose, Unavailable
    <3> QED
      BY <1>5, <1>6, <3>1
  <2>2. CASE v # "unset"
    BY <1>6, <2>2 DEF Choose
  <2> QED
    BY <2>1, <2>2
<1>7. CASE Select
  <2>1. step = "select" /\ plan.kind # "bypassed"
    BY <1>2, <1>7 DEF Select
  <2>2. CASE explicit # "unset"
    <3>1. Choose(explicit) /\ ~ Bypasses
      BY <1>7, <2>2 DEF Select, Bypasses
    <3> QED
      BY <1>6, <2>1, <3>1
  <2>3. CASE explicit = "unset" /\ proxy_mode = "direct"
    <3>1. Planned(Plan("direct", "none", <<>>)) /\ ~ Bypasses
      BY <1>7, <2>3 DEF Select, Bypasses
    <3> QED
      BY <1>5, <3>1
  <2>4. CASE explicit = "unset" /\ proxy_mode = "environment"
    <3>1. IF no_proxy_matches THEN Planned(Plan("bypassed", "none", <<>>))
          ELSE Choose(select_environment_proxy)
      BY <1>7, <2>4 DEF Select
    <3>2. Bypasses <=> no_proxy_matches
      BY <2>4 DEF Bypasses
    <3>3. CASE no_proxy_matches
      BY <1>5, <3>1, <3>2, <3>3
    <3>4. CASE ~ no_proxy_matches
      BY <1>6, <2>1, <3>1, <3>2, <3>4
    <3> QED
      BY <3>3, <3>4
  <2> QED
    BY <1>7, <2>2, <2>3, <2>4 DEF Select
<1>8. CASE resolve_proxy
  <2>1. ~ Bypasses
    BY <1>2, <1>8 DEF resolve_proxy
  <2>2. \/ \E error : Planned(Plan("unavailable", error, <<>>))
        \/ \E a \in Answers : step' = "connect" /\ plan' = Plan("proxy", "none", Usable(a))
    BY <1>8 DEF resolve_proxy, Unavailable
  <2>3. ASSUME NEW a \in Answers, step' = "connect", plan' = Plan("proxy", "none", Usable(a))
        PROVE  <1>4!1
    <3>1. plan'.kind = "proxy"
      BY <2>3 DEF Plan
    <3> QED
      BY <2>1, <2>3, <3>1
  <2> QED
    BY <1>5, <2>1, <2>2, <2>3
<1>9. CASE Request
  BY <1>2, <1>9 DEF Request
<1>10. CASE UNCHANGED vars
  BY <1>2, <1>10 DEF vars
<1> QED
  BY <1>7, <1>8, <1>9, <1>10 DEF Next

LEMMA BypassInvariant == Spec => []BypassInv
BY BypassInitially, BypassStep, PTL DEF Spec

LEMMA BypassedAtTheEnd == BypassInv => BypassedExactly
<1> SUFFICES ASSUME BypassInv PROVE BypassedExactly
  OBVIOUS
<1>1. no_proxy_matches <=>
        \E name \in NoProxyVariable :
          /\ environment[name] = "text"
          /\ name = "no_proxy" => environment.NO_PROXY # "text"
          /\ \E x \in Range(environment.entries[name]) : Covers(x, target)
  BY BypassCovers DEF BypassInv
<1> QED
  BY <1>1, Zenon DEF BypassInv, BypassedExactly, Bypasses

\* Choosing a proxy: it is bypassed exactly for a target that the effective
\* NO_PROXY covers, never for an explicit proxy, and because of the lower-case
\* variable only when the upper-case one holds no text: a variable that is empty
\* or not UTF-8 hides no other.
THEOREM ProxyBypass == Spec => []BypassedExactly
BY BypassInvariant, BypassedAtTheEnd, PTL

\* The variables consulted all name proxies.
LEMMA ProxyNamed ==
  /\ ProxyNames \in Seq(ProxyVariable)
  /\ \A i \in DOMAIN ProxyNames : ProxyNames[i] \in ProxyVariable
<1> DEFINE p == IF target.scheme = "https" THEN <<"HTTPS_PROXY", "https_proxy">>
                                           ELSE <<"HTTP_PROXY", "http_proxy">>
           q == <<"ALL_PROXY", "all_proxy">>
<1>1. p \in Seq(ProxyVariable) /\ q \in Seq(ProxyVariable)
  <2>1. \A a, b \in ProxyVariable : <<a, b>> \in Seq(ProxyVariable)
    OBVIOUS
  <2>2. /\ "HTTPS_PROXY" \in ProxyVariable /\ "https_proxy" \in ProxyVariable
        /\ "HTTP_PROXY" \in ProxyVariable /\ "http_proxy" \in ProxyVariable
        /\ "ALL_PROXY" \in ProxyVariable /\ "all_proxy" \in ProxyVariable
    BY DEF ProxyVariable
  <2> QED
    BY <2>1, <2>2, Zenon
<1>2. ProxyNames = p \o q
  BY DEF ProxyNames
<1> HIDE DEF p, q
<1>3. ProxyNames \in Seq(ProxyVariable)
  BY <1>1, <1>2, ConcatProperties
<1>4. DOMAIN ProxyNames = 1..Len(ProxyNames)
  BY <1>3, LenProperties
<1> QED
  BY <1>3, <1>4, ElementOfSeq

LEMMA ProxyChosen ==
  ASSUME environment \in Environments
  PROVE  select_environment_proxy \in ProxySchemes \cup {"unset", "invalid"}
<1> DEFINE applicable == {i \in DOMAIN ProxyNames : /\ ProxyNames[i] \in proxy_environment
                                                    /\ environment[ProxyNames[i]] # "empty"}
<1>1. applicable \subseteq DOMAIN ProxyNames
  OBVIOUS
<1>2. ASSUME NEW i \in applicable
      PROVE  environment[ProxyNames[i]] \in ProxySchemes \cup {"invalid"}
  <2>1. ProxyNames[i] \in ProxyVariable /\ environment[ProxyNames[i]] \notin NoText
    BY <1>2, ProxyNamed DEF proxy_environment
  <2> QED
    BY <2>1, EnvironmentAssumption
<1>3. select_environment_proxy =
        IF applicable = {} THEN "unset" ELSE environment[ProxyNames[Nth(applicable, 1)]]
  BY DEF select_environment_proxy
<1> HIDE DEF applicable
<1>4. CASE applicable # {}
  <2>1. IsFiniteSet(applicable) /\ applicable \subseteq Nat
    BY <1>1, ProxyNamed, PickedElements
  <2>2. Cardinality(applicable) \in Nat /\ Cardinality(applicable) # 0
    BY <1>4, <2>1, FS_CardinalityType, FS_EmptySet
  <2>3. Nth(applicable, 1) \in applicable
    <3>1. 1 \in 1..Cardinality(applicable)
      BY <2>2
    <3> QED
      BY <2>1, <3>1, NthElements
  <2> QED
    BY <1>2, <1>3, <1>4, <2>3
<1> QED
  BY <1>3, <1>4

PlanInv ==
  /\ TypeOK
  /\ target \in Targets /\ environment \in Environments
  /\ explicit \in ProxySchemes \cup {"unset"}

LEMMA PlanTypesInitially == Init => PlanInv
<1> SUFFICES ASSUME Init PROVE PlanInv
  OBVIOUS
<1>1. /\ plan.kind = "none" /\ plan.error = "none" /\ plan.addresses = <<>> /\ Len(<<>>) = 0
      /\ destination.family = "none"
  BY EmptySeq DEF Init, Plan, Nowhere
<1>2. MaxAddresses >= 0
  BY MaxAddressesAssumption
<1> QED
  BY <1>1, <1>2 DEF Init, PlanInv, TypeOK

LEMMA PlanTypesStep == PlanInv /\ [Next]_vars => PlanInv'
<1> SUFFICES ASSUME PlanInv, [Next]_vars PROVE PlanInv'
  OBVIOUS
<1>1. /\ target' = target /\ environment' = environment /\ explicit' = explicit
      /\ target \in Targets /\ environment \in Environments
      /\ explicit \in ProxySchemes \cup {"unset"}
  BY DEF PlanInv, Next, Select, resolve_proxy, Request, vars, inputs
<1>2. /\ step \in {"select", "resolve", "connect", "done"}
      /\ value \in ProxySchemes \cup {"unset", "invalid"}
      /\ plan.kind \in {"none", "direct", "bypassed", "unavailable", "proxy"}
      /\ plan.kind = "proxy" <=> plan.addresses # <<>>
      /\ Len(plan.addresses) <= MaxAddresses
      /\ plan.kind = "unavailable" <=> plan.error # "none"
      /\ destination.family \in IPFamily \cup {"none"}
  BY DEF PlanInv, TypeOK
<1> DEFINE Planning(p) ==
             /\ p.kind \in {"none", "direct", "bypassed", "unavailable", "proxy"}
             /\ p.kind = "proxy" <=> p.addresses # <<>>
             /\ Len(p.addresses) <= MaxAddresses
             /\ p.kind = "unavailable" <=> p.error # "none"
           none == <<>>
<1>3. SUFFICES /\ step' \in {"select", "resolve", "connect", "done"}
               /\ value' \in ProxySchemes \cup {"unset", "invalid"}
               /\ Planning(plan')
               /\ destination'.family \in IPFamily \cup {"none"}
  BY <1>1 DEF PlanInv, TypeOK
<1>4. Planning(plan)
  BY <1>2
<1>5. ASSUME NEW kind, NEW error,
             \/ kind \in {"direct", "bypassed"} /\ error = "none"
             \/ kind = "unavailable" /\ error # "none"
      PROVE  Planning(Plan(kind, error, none))
  <2>1. Len(none) = 0 /\ 0 <= MaxAddresses
    BY EmptySeq, MaxAddressesAssumption
  <2> DEFINE p == Plan(kind, error, none)
  <2>2. p.kind = kind /\ p.error = error /\ p.addresses = none
    BY DEF Plan
  <2> HIDE DEF p
  <2>3. Len(p.addresses) <= MaxAddresses
    BY <2>1, <2>2
  <2> QED
    BY <1>5, <2>2, <2>3 DEF p
<1> HIDE DEF Planning
<1>6. ASSUME NEW kind, NEW error, Planned(Plan(kind, error, none)), UNCHANGED destination,
             \/ kind \in {"direct", "bypassed"} /\ error = "none"
             \/ kind = "unavailable" /\ error # "none"
      PROVE  <1>3!1
  BY <1>2, <1>5, <1>6 DEF Planned
<1>7. CASE Select
  <2>1. UNCHANGED destination
    BY <1>7 DEF Select
  <2>2. ASSUME NEW v \in ProxySchemes \cup {"unset", "invalid"}, Choose(v) PROVE <1>3!1
    <3>1. CASE v = "unset"
      <4>1. Planned(Plan("unavailable", "not_configured", none))
        BY <2>2, <3>1 DEF Choose, Unavailable
      <4> QED
        BY <1>6, <2>1, <4>1
    <3>2. CASE v # "unset"
      BY <1>2, <1>4, <2>1, <2>2, <3>2 DEF Choose
    <3> QED
      BY <3>1, <3>2
  <2>3. \/ Choose(explicit) \/ Choose(select_environment_proxy)
        \/ \E kind \in {"bypassed", "direct"} : Planned(Plan(kind, "none", none))
    BY <1>7 DEF Select
  <2>4. select_environment_proxy \in ProxySchemes \cup {"unset", "invalid"}
    BY <1>1, ProxyChosen
  <2> QED
    BY <1>1, <1>6, <2>1, <2>2, <2>3, <2>4
<1>8. CASE resolve_proxy
  <2>1. UNCHANGED destination
    BY <1>8 DEF resolve_proxy
  <2>2. \/ \E error : error # "none" /\ Planned(Plan("unavailable", error, none))
        \/ \E a \in Answers : /\ Usable(a) # none /\ step' = "connect"
                              /\ plan' = Plan("proxy", "none", Usable(a)) /\ UNCHANGED value
    <3>1. CASE Refusal # "none"
      BY <1>8, <3>1 DEF resolve_proxy, Unavailable
    <3>2. CASE Refusal = "none"
      BY <1>8, <3>2 DEF resolve_proxy, Unavailable
    <3> QED
      BY <3>1, <3>2
  <2>3. ASSUME NEW a \in Answers, Usable(a) # none PROVE Planning(Plan("proxy", "none", Usable(a)))
    <3>1. Len(Usable(a)) <= MaxAddresses
      BY UsableIsAllowed
    <3> DEFINE p == Plan("proxy", "none", Usable(a))
    <3>2. p.kind = "proxy" /\ p.error = "none" /\ p.addresses = Usable(a)
      BY DEF Plan
    <3> HIDE DEF p
    <3> QED
      BY <2>3, <3>1, <3>2 DEF Planning, p
  <2> QED
    BY <1>2, <1>6, <2>1, <2>2, <2>3
<1>9. CASE Request
  <2>1. step' = "done" /\ value' = value /\ plan' = plan
    BY <1>9 DEF Request
  <2>2. target.family \in IPFamily \cup {"none"} /\ target.literal \in IPFamily \cup {"none"}
    BY <1>1, TargetAssumption DEF ParsedLiteral
  <2>3. destination'.family \in IPFamily \cup {"none"}
    <3>1. CASE value # "socks5"
      BY <1>9, <2>2, <3>1 DEF Request
    <3>2. CASE value = "socks5" /\ target.literal # "none"
      BY <1>9, <2>2, <3>2 DEF Request, Nowhere
    <3>3. CASE value = "socks5" /\ target.literal = "none"
      <4>1. PICK a \in Answers :
              LET all == Lookup(a)
                  allowed == {i \in DOMAIN all : address_family_allows(all[i])}
              IN destination' = IF allowed = {} THEN Nowhere
                                ELSE [kind |-> "address", family |-> all[Nth(allowed, 1)].family]
        BY <1>9, <3>3 DEF Request
      <4> DEFINE all == Lookup(a)
                 allowed == {i \in DOMAIN all : address_family_allows(all[i])}
                 x == all[Nth(allowed, 1)]
      <4>2. destination' = IF allowed = {} THEN Nowhere
                           ELSE [kind |-> "address", family |-> x.family]
        BY <4>1
      <4>3. allowed # {} => x.family \in IPFamily
        BY <1>1, LookedUpHasFamily
      <4> HIDE DEF allowed, x
      <4> QED
        BY <4>2, <4>3 DEF Nowhere
    <3> QED
      BY <3>1, <3>2, <3>3
  <2> QED
    BY <1>2, <1>4, <2>1, <2>3
<1>10. CASE UNCHANGED vars
  BY <1>2, <1>4, <1>10 DEF vars
<1> QED
  BY <1>7, <1>8, <1>9, <1>10 DEF Next

LEMMA PlanTypesInvariant == Spec => []PlanInv
BY PlanTypesInitially, PlanTypesStep, PTL DEF Spec

\* Choosing a proxy, its types: a plan has addresses iff it is one through a
\* proxy, no more than MaxAddresses of them, and an error iff it is given up.
THEOREM ProxyTypes == Spec => []TypeOK
BY PlanTypesInvariant, PTL DEF PlanInv

------------------------------------------------------------------------------
(***************************************************************************)
(* Resolvectl, for every listing.  After n lines every section tells what  *)
(* the lines up to n say under its header: the finished ones are under     *)
(* earlier headers, the one under way, or the global one, under the last.  *)
(* Continued lines belong to the field that `continuation` remembers.      *)
(***************************************************************************)
Spoken == UNION {Range(listing[i].words) : i \in DOMAIN listing}
Upright == \A l \in Range(listing) : l.is = "more" => ~ HasColon(l)

WellMade ==
  {s \in [link : Seq(Spoken), servers : Seq(Spoken), domains : Seq(Spoken),
          default_route : {"yes", "no", "unset"}] :
     IsInjective(s.servers) /\ IsInjective(s.domains)}

Under(n) == {h \in Headers : h <= n}
Said(n, h, fields) ==
  UNION {Range(listing[i].words) :
           i \in {j \in 1..n \ Headers : HeaderOf(j) = h /\ FieldOf(j) \in fields}}

TellsSoFar(s, h, n) ==
  /\ Range(s.servers) = Said(n, h, ServerField)
  /\ Range(s.domains) = Said(n, h, {"DNS_Domain"})
  /\ s.default_route = "yes" =>
       Said(n, h, {"Default_Route", "Protocols"}) \cap {"yes", "+DefaultRoute"} # {}

Finished(done, h, n) ==
  /\ Cardinality(Under(h)) \in 1..Len(done)
  /\ done[Cardinality(Under(h))].link = listing[h].words
  /\ TellsSoFar(done[Cardinality(Under(h))], h, n)

Attributed(n, top, done, open, under) ==
  /\ \A j \in 0..n : HeaderOf(j) \in 0..n
  /\ under = Continues(FieldOf(n))
  /\ n > 0 /\ listing[n].is = "more" => FieldOf(n) # "Current_DNS_Server"
  /\ TellsSoFar(top, 0, n)
  /\ Len(done) + Len(open) = Cardinality(Under(n))
  /\ \A h \in Under(n) \ {HeaderOf(n)} : Finished(done, h, n)
  /\ open = <<>> => HeaderOf(n) = 0
  /\ open # <<>> => /\ HeaderOf(n) \in Under(n)
                    /\ Cardinality(Under(HeaderOf(n))) = Len(done) + 1
                    /\ open[1].link = listing[HeaderOf(n)].words
                    /\ TellsSoFar(open[1], HeaderOf(n), n)

ListedInv ==
  /\ listing \in Listings /\ line \in 1..(Len(listing) + 1)
  /\ global \in WellMade /\ links \in Seq(WellMade)
  /\ current_link \in Seq(WellMade) /\ Len(current_link) <= 1
  /\ continuation \in {"servers", "domains", "none"}
  /\ resolver = "inspecting" =>
       /\ line = 1 /\ global = Section(<<>>) /\ links = <<>> /\ current_link = <<>>
       /\ continuation = "none"
  /\ resolver = "parsing" /\ Upright =>
       Attributed(line - 1, global, links, current_link, continuation)
  /\ ServersAttributed

LEMMA ListingFacts ==
  ASSUME listing \in Listings
  PROVE  /\ Len(listing) \in Nat /\ DOMAIN listing = 1..Len(listing)
         /\ Headers \subseteq 1..Len(listing) /\ IsFiniteSet(Headers)
         /\ \A i \in 1..Len(listing) :
              /\ listing[i].is \in {"Link", "break", "field", "more"}
              /\ listing[i].words \in Seq(Spoken)
              /\ listing[i].is = "more" => /\ i > 1 /\ listing[i - 1].is \in {"field", "more"}
                                           /\ listing[i - 1].field # "Current_DNS_Server"
<1>1. listing \in Seq(Range(listing)) /\ IsListing(listing)
  BY ListingAssumption DEF IsListing
<1>2. Len(listing) \in Nat /\ DOMAIN listing = 1..Len(listing)
  BY <1>1, LenProperties
<1>3. Headers \in SUBSET (1..Len(listing))
  BY <1>2 DEF Headers
<1>4. IsFiniteSet(Headers)
  <2>1. IsFiniteSet(1..Len(listing))
    BY <1>2, FS_Interval
  <2> QED
    BY <1>3, <2>1, FS_Subset
<1>5. ASSUME NEW i \in 1..Len(listing) PROVE listing[i].words \in Seq(Spoken)
  <2>1. listing[i].words \in Seq(Range(listing[i].words))
    BY <1>1, <1>2 DEF IsListing
  <2>2. Range(listing[i].words) \subseteq Spoken
    BY <1>2 DEF Spoken
  <2> QED
    BY <2>1, <2>2, SeqMonotonic
<1> QED
  BY <1>1, <1>2, <1>3, <1>4, <1>5 DEF IsListing

\* The greatest of a set is the element that is at least every one.
LEMMA GreatestIs ==
  ASSUME NEW S, S \subseteq Nat, NEW x \in S, \A y \in S : y <= x
  PROVE  Max(S) = x
<1>1. \A y \in S : x >= y
  OBVIOUS
<1>2. Max(S) \in S /\ \A y \in S : Max(S) >= y
  BY <1>1 DEF Max
<1>3. Max(S) \in Nat /\ x \in Nat /\ Max(S) >= x /\ x >= Max(S)
  BY <1>1, <1>2
<1> QED
  BY <1>3

LEMMA HeaderNext ==
  ASSUME listing \in Listings, NEW n \in Nat
  PROVE  /\ HeaderOf(0) = 0
         /\ n + 1 \in Headers => HeaderOf(n + 1) = n + 1
         /\ n + 1 \notin Headers => HeaderOf(n + 1) = HeaderOf(n) /\ Under(n + 1) = Under(n)
<1>1. \A h \in Headers : h \in Nat /\ h >= 1
  BY ListingFacts
<1> DEFINE S(m) == {0} \cup {h \in Headers : h <= m}
<1>2. HeaderOf(0) = 0
  <2>1. \A h \in Headers : ~ (h <= 0)
    BY <1>1
  <2>2. S(0) = {0}
    BY <2>1
  <2>3. Max({0}) = 0
    BY GreatestIs
  <2> QED
    BY <2>2, <2>3 DEF HeaderOf
<1>3. ASSUME n + 1 \in Headers PROVE HeaderOf(n + 1) = n + 1
  <2>1. \A y \in S(n + 1) : y \in Nat /\ y <= n + 1
    BY <1>1
  <2>2. S(n + 1) \subseteq Nat
    BY <2>1
  <2>3. n + 1 \in S(n + 1)
    <3>1. n + 1 <= n + 1
      OBVIOUS
    <3> QED
      BY <1>3, <3>1
  <2> HIDE DEF S
  <2>4. Max(S(n + 1)) = n + 1
    BY <2>1, <2>2, <2>3, GreatestIs
  <2> QED
    BY <2>4 DEF HeaderOf, S
<1>4. ASSUME n + 1 \notin Headers
      PROVE  {h \in Headers : h <= n + 1} = {h \in Headers : h <= n}
  <2>1. ASSUME NEW h \in Headers PROVE h <= n + 1 <=> h <= n
    <3>1. h \in Nat /\ h # n + 1
      BY <1>1, <1>4
    <3> QED
      BY <3>1
  <2> QED
    BY <2>1
<1>5. n + 1 \notin Headers => HeaderOf(n + 1) = HeaderOf(n) /\ Under(n + 1) = Under(n)
  BY <1>4 DEF HeaderOf, Under
<1> QED
  BY <1>2, <1>3, <1>5

LEMMA FieldNext ==
  ASSUME listing \in Listings, NEW n \in Nat, n + 1 <= Len(listing)
  PROVE  /\ FieldOf(0) = "none"
         /\ listing[n + 1].is = "field" => FieldOf(n + 1) = listing[n + 1].field
         /\ listing[n + 1].is \in {"Link", "break"} => FieldOf(n + 1) = "none"
         /\ listing[n + 1].is = "more" => FieldOf(n + 1) = FieldOf(n)
<1> DEFINE Begun(i) == {0} \cup {j \in 1..i : listing[j].is # "more"}
<1>1. FieldOf(0) = "none"
  <2>1. Begun(0) = {0}
    OBVIOUS
  <2>2. Max({0}) = 0
    BY GreatestIs
  <2> QED
    BY <2>1, <2>2 DEF FieldOf
<1>2. ASSUME listing[n + 1].is # "more" PROVE Max(Begun(n + 1)) = n + 1
  <2>1. Begun(n + 1) \subseteq Nat /\ n + 1 \in Begun(n + 1) /\ \A y \in Begun(n + 1) : y <= n + 1
    BY <1>2
  <2> HIDE DEF Begun
  <2> QED
    BY <2>1, GreatestIs
<1>3. ASSUME listing[n + 1].is = "more" PROVE Begun(n + 1) = Begun(n)
  BY <1>3
<1>4. n + 1 # 0
  OBVIOUS
<1> QED
  BY <1>1, <1>2, <1>3, <1>4 DEF FieldOf

\* What the next line adds to what is said under a header.
LEMMA SaidNext ==
  ASSUME listing \in Listings, NEW n \in Nat, n + 1 <= Len(listing), NEW h, NEW fields
  PROVE  /\ Said(0, h, fields) = {}
         /\ n + 1 \notin Headers /\ HeaderOf(n + 1) = h /\ FieldOf(n + 1) \in fields =>
              Said(n + 1, h, fields) = Said(n, h, fields) \cup Range(listing[n + 1].words)
         /\ ~ (n + 1 \notin Headers /\ HeaderOf(n + 1) = h /\ FieldOf(n + 1) \in fields) =>
              Said(n + 1, h, fields) = Said(n, h, fields)
         /\ Said(n, h, fields) \subseteq Said(n + 1, h, fields)
<1> DEFINE Lines(m) == {j \in 1..m \ Headers : HeaderOf(j) = h /\ FieldOf(j) \in fields}
<1>1. Lines(0) = {}
  OBVIOUS
<1>2. \A j : j \in 1..(n + 1) <=> j \in 1..n \/ j = n + 1
  OBVIOUS
<1>3. ASSUME n + 1 \notin Headers, HeaderOf(n + 1) = h, FieldOf(n + 1) \in fields
      PROVE  Lines(n + 1) = Lines(n) \cup {n + 1}
  BY <1>2, <1>3
<1>4. ASSUME ~ (n + 1 \notin Headers /\ HeaderOf(n + 1) = h /\ FieldOf(n + 1) \in fields)
      PROVE  Lines(n + 1) = Lines(n)
  BY <1>2, <1>4
<1>5. Said(0, h, fields) = UNION {Range(listing[i].words) : i \in Lines(0)}
      /\ Said(n, h, fields) = UNION {Range(listing[i].words) : i \in Lines(n)}
      /\ Said(n + 1, h, fields) = UNION {Range(listing[i].words) : i \in Lines(n + 1)}
  BY DEF Said
<1> HIDE DEF Lines
<1> QED
  BY <1>1, <1>3, <1>4, <1>5

\* push_unique_words adds the words there are, each once.
LEMMA PushedWords ==
  ASSUME NEW T, NEW d \in Seq(T), IsInjective(d), NEW w \in Seq(T)
  PROVE  /\ push_unique_words(d, w) \in Seq(T) /\ IsInjective(push_unique_words(d, w))
         /\ Range(push_unique_words(d, w)) = Range(d) \cup Range(w)
<1> DEFINE added == {i \in DOMAIN w : ~ Contains(d, w[i]) /\ \A j \in 1..(i - 1) : w[j] # w[i]}
           N == Cardinality(added)
           new == Picked(w, added)
           both == d \o new
<1>1. /\ Len(d) \in Nat /\ DOMAIN d = 1..Len(d)
      /\ Len(w) \in Nat /\ DOMAIN w = 1..Len(w)
  BY LenProperties
<1>2. \A x : Contains(d, x) <=> x \in Range(d)
  BY <1>1 DEF Contains, Range
<1>3. /\ added \subseteq 1..Len(w)
      /\ \A i \in added : w[i] \notin Range(d) /\ \A j \in 1..(i - 1) : w[j] # w[i]
      /\ \A i \in 1..Len(w) : w[i] \notin Range(d) /\ (\A j \in 1..(i - 1) : w[j] # w[i]) => i \in added
  BY <1>1, <1>2
<1>4. push_unique_words(d, w) = both
  BY DEF push_unique_words
<1> HIDE DEF added
<1>5. /\ IsFiniteSet(added) /\ added \subseteq Nat
      /\ new \in Seq(T) /\ Len(new) = N
      /\ \A n \in 1..N : new[n] = w[Nth(added, n)]
      /\ Range(new) = {w[i] : i \in added}
  BY <1>1, <1>3, PickedElements
<1>6. /\ N \in Nat /\ \A n \in 1..N : Nth(added, n) \in added
      /\ \A m, n \in 1..N : m < n => Nth(added, m) < Nth(added, n)
  BY <1>5, NthElements
<1> HIDE DEF new, N
<1>7. /\ both \in Seq(T) /\ Len(both) = Len(d) + N
      /\ \A i \in 1..Len(d) + N : both[i] = IF i <= Len(d) THEN d[i] ELSE new[i - Len(d)]
      /\ Range(both) = Range(d) \cup Range(new)
  <2>3. d \in Seq(T)
    OBVIOUS
  <2>4. new \in Seq(T)
    BY <1>5, Zenon
  <2>1. Range(both) = Range(d) \cup Range(new)
    <3>1. \A s, t \in Seq(T) : Range(s \o t) = Range(s) \cup Range(t)
      BY RangeConcatenation
    <3> QED
      BY <2>3, <2>4, <3>1, Zenon
  <2>2. /\ both \in Seq(T) /\ Len(both) = Len(d) + Len(new)
        /\ \A i \in 1..Len(d) + Len(new) :
             both[i] = IF i <= Len(d) THEN d[i] ELSE new[i - Len(d)]
    BY <2>3, <2>4, ConcatProperties, Zenon
  <2>5. Len(new) = N
    BY <1>5, Zenon
  <2> QED
    BY <2>1, <2>2, <2>5, Zenon
<1> HIDE DEF both
<1>8. Range(d) \cup Range(new) = Range(d) \cup Range(w)
  <2>1. \A x \in Range(new) : x \in Range(w)
    BY <1>1, <1>3, <1>5 DEF Range
  <2>2. ASSUME NEW x \in Range(w), x \notin Range(d) PROVE x \in Range(new)
    <3> DEFINE S == {i \in 1..Len(w) : w[i] = x}
    <3>1. S # {} /\ S \subseteq 1..Len(w) /\ S \subseteq DOMAIN w
      BY <1>1, <2>2 DEF Range
    <3>2. \A i \in 1..Len(w) : w[i] = x <=> i \in S
      OBVIOUS
    <3> HIDE DEF S
    <3>3. IsFiniteSet(S) /\ S \subseteq Nat
      BY <3>1, PickedElements
    <3>4. Cardinality(S) \in Nat /\ Cardinality(S) # 0
      BY <3>1, <3>3, FS_CardinalityType, FS_EmptySet
    <3>5. 1 \in 1..Cardinality(S)
      BY <3>4
    <3>6. /\ \A n \in 1..Cardinality(S) : Nth(S, n) \in S
          /\ \A i \in S : \E n \in 1..Cardinality(S) : Nth(S, n) = i
          /\ \A m, n \in 1..Cardinality(S) : m < n => Nth(S, m) < Nth(S, n)
      BY <3>3, NthElements
    <3> DEFINE least == Nth(S, 1)
    <3>7. least \in S /\ \A i \in S : least <= i
      <4> SUFFICES ASSUME NEW i \in S PROVE least <= i
        BY <3>5, <3>6
      <4>1. PICK n \in 1..Cardinality(S) : Nth(S, n) = i
        BY <3>6
      <4>2. n = 1 \/ 1 < n
        BY <3>4
      <4>3. least \in S
        BY <3>5, <3>6
      <4>4. i \in Nat /\ least \in Nat
        BY <3>3, <4>3
      <4>5. CASE n = 1
        BY <4>1, <4>4, <4>5
      <4>6. CASE 1 < n
        <5>1. least < i
          BY <3>5, <3>6, <4>1, <4>6
        <5> QED
          BY <4>4, <5>1
      <4> QED
        BY <4>2, <4>5, <4>6
    <3> HIDE DEF least
    <3>8. least \in 1..Len(w) /\ w[least] = x
      BY <3>1, <3>2, <3>7
    <3>9. \A j \in 1..(least - 1) : w[j] # x
      BY <1>1, <3>2, <3>7, <3>8
    <3>10. least \in added
      BY <1>3, <2>2, <3>8, <3>9
    <3> QED
      BY <1>5, <3>8, <3>10
  <2> QED
    BY <2>1, <2>2
<1>9. ASSUME NEW m \in 1..N, NEW n \in 1..N, m < n PROVE new[m] # new[n]
  <2>1. Nth(added, m) \in added /\ Nth(added, n) \in added /\ Nth(added, m) < Nth(added, n)
    BY <1>6, <1>9
  <2> DEFINE i == Nth(added, m)
             j == Nth(added, n)
  <2>3. i \in 1..Len(w) /\ j \in 1..Len(w) /\ i < j
    BY <1>3, <2>1
  <2> HIDE DEF i, j
  <2>4. i \in 1..(j - 1)
    BY <1>1, <2>3
  <2>2. Nth(added, m) \in 1..(Nth(added, n) - 1)
    BY <2>4 DEF i, j
  <2> QED
    BY <1>3, <1>5, <2>1, <2>2
<1>10. ASSUME NEW i \in DOMAIN both, NEW j \in DOMAIN both, i < j PROVE both[i] # both[j]
  <2>1. i \in 1..Len(d) + N /\ j \in 1..Len(d) + N
    BY <1>7, LenProperties
  <2>2. CASE j <= Len(d)
    <3>1. i \in 1..Len(d) /\ j \in 1..Len(d) /\ i <= Len(d) /\ i # j
      BY <1>1, <1>6, <1>10, <2>1, <2>2
    <3>2. both[i] = d[i] /\ both[j] = d[j]
      BY <1>7, <2>1, <2>2, <3>1
    <3> QED
      BY <1>1, <3>1, <3>2 DEF IsInjective
  <2>3. CASE ~ (j <= Len(d)) /\ i <= Len(d)
    <3>1. i \in 1..Len(d) /\ j - Len(d) \in 1..N
      BY <1>1, <1>6, <2>1, <2>3
    <3>2. both[i] = d[i] /\ both[j] = new[j - Len(d)]
      BY <1>7, <2>1, <2>3
    <3>3. new[j - Len(d)] \notin Range(d) /\ d[i] \in Range(d)
      BY <1>1, <1>3, <1>5, <1>6, <3>1 DEF Range
    <3> QED
      BY <3>2, <3>3
  <2>4. CASE ~ (j <= Len(d)) /\ ~ (i <= Len(d))
    <3>1. i - Len(d) \in 1..N /\ j - Len(d) \in 1..N /\ i - Len(d) < j - Len(d)
      BY <1>1, <1>6, <1>10, <2>1, <2>4
    <3>2. both[i] = new[i - Len(d)] /\ both[j] = new[j - Len(d)]
      BY <1>7, <2>1, <2>4
    <3> QED
      BY <1>9, <3>1, <3>2
  <2> QED
    BY <2>2, <2>3, <2>4
<1>11. IsInjective(both)
  <2> SUFFICES ASSUME NEW i \in DOMAIN both, NEW j \in DOMAIN both, both[i] = both[j], i # j
               PROVE  FALSE
    BY DEF IsInjective
  <2>1. i < j \/ j < i
    BY <1>1, <1>6, <1>7, LenProperties
  <2> QED
    BY <1>10, <2>1
<1> QED
  BY <1>4, <1>7, <1>8, <1>11

\* Where the words of a line go, by the field they are under.
Matches(kind, field) ==
  /\ kind = "servers" <=> field \in ServerField
  /\ kind = "domains" <=> field = "DNS_Domain"
  /\ kind \in {"Default_Route", "Protocols"} => field = kind

LEMMA FieldsMatch ==
  ASSUME NEW field
  PROVE  /\ Matches(KindOf(field), field)
         /\ field # "Current_DNS_Server" => Matches(Continues(field), field)
         /\ Continues(field) \in {"servers", "domains", "none"}
         /\ Matches("none", "none") /\ Continues("none") = "none"
BY DEF Matches, KindOf, Continues, ServerField

LEMMA ExtendedTells ==
  ASSUME listing \in Listings, NEW n \in Nat, n + 1 <= Len(listing), n + 1 \notin Headers,
         NEW s \in WellMade, NEW kind, Matches(kind, FieldOf(n + 1)),
         TellsSoFar(s, HeaderOf(n + 1), n)
  PROVE  LET extended == Extended(s, kind, listing[n + 1].words)
         IN /\ extended \in WellMade /\ extended.link = s.link
            /\ TellsSoFar(extended, HeaderOf(n + 1), n + 1)
<1> DEFINE w == listing[n + 1].words
           h == HeaderOf(n + 1)
           field == FieldOf(n + 1)
           e == Extended(s, kind, w)
           routes == {"Default_Route", "Protocols"}
           yes == {"yes", "+DefaultRoute"}
<1>1. w \in Seq(Spoken)
  BY ListingFacts
<1>2. /\ s \in [link : Seq(Spoken), servers : Seq(Spoken), domains : Seq(Spoken),
                default_route : {"yes", "no", "unset"}]
      /\ IsInjective(s.servers) /\ IsInjective(s.domains)
  BY DEF WellMade
<1>3. \A fields : /\ field \in fields => Said(n + 1, h, fields) = Said(n, h, fields) \cup Range(w)
                  /\ field \notin fields => Said(n + 1, h, fields) = Said(n, h, fields)
  BY SaidNext
<1>4. /\ Range(s.servers) = Said(n, h, ServerField)
      /\ Range(s.domains) = Said(n, h, {"DNS_Domain"})
      /\ s.default_route = "yes" => Said(n, h, routes) \cap yes # {}
  BY DEF TellsSoFar
<1>5. /\ kind = "servers" <=> field \in ServerField
      /\ kind = "domains" <=> field \in {"DNS_Domain"}
      /\ kind \in routes => field \in routes
  BY DEF Matches
<1>6. /\ kind = "servers" => e = [s EXCEPT !.servers = push_unique_words(@, w)]
      /\ kind = "domains" => e = [s EXCEPT !.domains = push_unique_words(@, w)]
      /\ kind = "Default_Route" => e = [s EXCEPT !.default_route = Told(w, "yes", "no")]
      /\ kind = "Protocols" /\ s.default_route = "unset" =>
           e = [s EXCEPT !.default_route = Told(w, "+DefaultRoute", "-DefaultRoute")]
      /\ kind \notin {"servers", "domains", "Default_Route"}
           /\ ~ (kind = "Protocols" /\ s.default_route = "unset") => e = s
  <2>1. ASSUME kind = "servers" PROVE e = [s EXCEPT !.servers = push_unique_words(@, w)]
    BY <2>1 DEF Extended
  <2>2. ASSUME kind = "domains" PROVE e = [s EXCEPT !.domains = push_unique_words(@, w)]
    BY <2>2 DEF Extended
  <2>3. ASSUME kind = "Default_Route"
        PROVE  e = [s EXCEPT !.default_route = Told(w, "yes", "no")]
    BY <2>3 DEF Extended
  <2>4. ASSUME kind = "Protocols", s.default_route = "unset"
        PROVE  e = [s EXCEPT !.default_route = Told(w, "+DefaultRoute", "-DefaultRoute")]
    BY <2>4 DEF Extended
  <2>5. ASSUME kind \notin {"servers", "domains", "Default_Route"},
               ~ (kind = "Protocols" /\ s.default_route = "unset")
        PROVE  e = s
    BY <2>5 DEF Extended
  <2> HIDE DEF e
  <2> QED
    BY <2>1, <2>2, <2>3, <2>4, <2>5
<1>7. \A yea, nay : /\ Told(w, yea, nay) \in {"yes", "no", "unset"}
                    /\ Told(w, yea, nay) = "yes" => yea \in Range(w)
  <2>1. DOMAIN w = 1..Len(w)
    BY <1>1, LenProperties
  <2>2. \A x : Contains(w, x) <=> x \in Range(w)
    BY <2>1 DEF Contains, Range
  <2> QED
    BY <2>2 DEF Told
<1>8. Said(n, h, routes) \cap yes # {} => Said(n + 1, h, routes) \cap yes # {}
  BY <1>3
<1> SUFFICES e \in WellMade /\ e.link = s.link /\ TellsSoFar(e, h, n + 1)
  OBVIOUS
<1> HIDE DEF w, h, field, e, routes, yes
<1>9. CASE kind = "servers"
  <2> DEFINE pushed == push_unique_words(s.servers, w)
  <2>1. pushed \in Seq(Spoken) /\ IsInjective(pushed) /\ Range(pushed) = Range(s.servers) \cup Range(w)
    BY <1>1, <1>2, PushedWords
  <2> HIDE DEF pushed
  <2>2. e = [s EXCEPT !.servers = pushed]
    BY <1>6, <1>9 DEF pushed
  <2>3. /\ e.servers = pushed /\ e.link = s.link /\ e.domains = s.domains
        /\ e.default_route = s.default_route /\ e \in WellMade
    BY <1>2, <2>1, <2>2 DEF WellMade
  <2>4. field \in ServerField /\ field \notin {"DNS_Domain"}
    BY <1>5, <1>9
  <2>5. Range(e.servers) = Said(n + 1, h, ServerField)
    BY <1>3, <1>4, <2>1, <2>3, <2>4
  <2>6. Range(e.domains) = Said(n + 1, h, {"DNS_Domain"})
    BY <1>3, <1>4, <2>3, <2>4
  <2> QED
    BY <1>4, <1>8, <2>3, <2>5, <2>6 DEF TellsSoFar, routes, yes
<1>10. CASE kind = "domains"
  <2> DEFINE pushed == push_unique_words(s.domains, w)
  <2>1. pushed \in Seq(Spoken) /\ IsInjective(pushed) /\ Range(pushed) = Range(s.domains) \cup Range(w)
    BY <1>1, <1>2, PushedWords
  <2> HIDE DEF pushed
  <2>2. e = [s EXCEPT !.domains = pushed]
    BY <1>6, <1>10 DEF pushed
  <2>3. /\ e.domains = pushed /\ e.link = s.link /\ e.servers = s.servers
        /\ e.default_route = s.default_route /\ e \in WellMade
    BY <1>2, <2>1, <2>2 DEF WellMade
  <2>4. field \notin ServerField /\ field \in {"DNS_Domain"}
    BY <1>5, <1>10
  <2>5. Range(e.servers) = Said(n + 1, h, ServerField)
    BY <1>3, <1>4, <2>3, <2>4
  <2>6. Range(e.domains) = Said(n + 1, h, {"DNS_Domain"})
    BY <1>3, <1>4, <2>1, <2>3, <2>4
  <2> QED
    BY <1>4, <1>8, <2>3, <2>5, <2>6 DEF TellsSoFar, routes, yes
<1>11. CASE ~ (kind \in {"servers", "domains"})
  <2>1. field \notin ServerField /\ field \notin {"DNS_Domain"}
    BY <1>5, <1>11
  <2>2. Said(n + 1, h, ServerField) = Range(s.servers)
        /\ Said(n + 1, h, {"DNS_Domain"}) = Range(s.domains)
    BY <1>3, <1>4, <2>1
  <2>3. ASSUME NEW yea \in yes, NEW nay, e = [s EXCEPT !.default_route = Told(w, yea, nay)],
               kind \in routes
        PROVE  e \in WellMade /\ e.link = s.link /\ TellsSoFar(e, h, n + 1)
    <3> DEFINE told == Told(w, yea, nay)
    <3>1. told \in {"yes", "no", "unset"} /\ (told = "yes" => yea \in Range(w))
      BY <1>7
    <3> HIDE DEF told
    <3>2. e = [s EXCEPT !.default_route = told]
      BY <2>3 DEF told
    <3>3. /\ e.domains = s.domains /\ e.link = s.link /\ e.servers = s.servers
          /\ e.default_route = told /\ e \in WellMade
      BY <1>2, <3>1, <3>2 DEF WellMade
    <3>4. told = "yes" => yea \in Said(n + 1, h, routes)
      BY <1>3, <1>5, <2>3, <3>1
    <3> QED
      BY <2>2, <2>3, <3>3, <3>4 DEF TellsSoFar, routes, yes
  <2>4. CASE kind = "Default_Route"
    BY <1>6, <2>3, <2>4 DEF routes, yes
  <2>5. CASE kind = "Protocols" /\ s.default_route = "unset"
    BY <1>6, <2>3, <2>5 DEF routes, yes
  <2>6. CASE ~ (kind = "Default_Route") /\ ~ (kind = "Protocols" /\ s.default_route = "unset")
    <3>1. e = s
      BY <1>6, <1>11, <2>6
    <3> QED
      BY <1>4, <1>8, <2>2, <3>1 DEF TellsSoFar, routes, yes
  <2> QED
    BY <2>4, <2>5, <2>6
<1> QED
  BY <1>9, <1>10, <1>11

LEMMA OtherTells ==
  ASSUME listing \in Listings, NEW n \in Nat, n + 1 <= Len(listing), NEW h,
         ~ (n + 1 \notin Headers /\ HeaderOf(n + 1) = h), NEW s, TellsSoFar(s, h, n)
  PROVE  TellsSoFar(s, h, n + 1)
<1>1. \A fields : Said(n + 1, h, fields) = Said(n, h, fields)
  BY SaidNext
<1> QED
  BY <1>1 DEF TellsSoFar

\* A line under a header, of any kind.
LEMMA TextLine ==
  ASSUME listing \in Listings, NEW n \in Nat, n + 1 <= Len(listing), n + 1 \notin Headers,
         NEW top \in WellMade, NEW done, NEW open \in Seq(WellMade), Len(open) <= 1, NEW under,
         Attributed(n, top, done, open, under),
         NEW kind, Matches(kind, FieldOf(n + 1)),
         listing[n + 1].is = "more" => FieldOf(n + 1) # "Current_DNS_Server",
         NEW top_next, NEW open_next,
         open = <<>> => /\ open_next = open
                        /\ top_next = IF kind \in {"servers", "domains"}
                                        THEN Extended(top, kind, listing[n + 1].words) ELSE top,
         open # <<>> => /\ open_next = <<Extended(open[1], kind, listing[n + 1].words)>>
                        /\ top_next = top
  PROVE  /\ top_next \in WellMade /\ open_next \in Seq(WellMade) /\ Len(open_next) <= 1
         /\ Attributed(n + 1, top_next, done, open_next, Continues(FieldOf(n + 1)))
<1> DEFINE h == HeaderOf(n)
           none == <<>>
<1>1. HeaderOf(n + 1) = h /\ Under(n + 1) = Under(n)
  BY HeaderNext
<1>2. /\ \A j \in 0..n : HeaderOf(j) \in 0..n
      /\ TellsSoFar(top, 0, n)
      /\ Len(done) + Len(open) = Cardinality(Under(n))
      /\ \A i \in Under(n) \ {h} : Finished(done, i, n)
      /\ open = <<>> => h = 0
      /\ open # <<>> => /\ h \in Under(n)
                        /\ Cardinality(Under(h)) = Len(done) + 1
                        /\ open[1].link = listing[h].words
                        /\ TellsSoFar(open[1], h, n)
  BY DEF Attributed
<1> HIDE DEF h
<1>3. \A j \in 0..(n + 1) : HeaderOf(j) \in 0..(n + 1)
  BY <1>1, <1>2 DEF h
<1>4. \A i \in Under(n) \ {h} : Finished(done, i, n + 1)
  BY <1>1, <1>2, OtherTells DEF Finished
<1>5. Matches("none", FieldOf(n + 1)) \/ kind \in {"servers", "domains"}
  BY DEF Matches
<1>6. \A s \in WellMade : Extended(s, "none", listing[n + 1].words) = s
  BY DEF Extended
<1>7. CASE open = <<>>
  <2>1. h = 0 /\ open_next = open
    BY <1>2, <1>7
  <2>2. top_next \in WellMade /\ TellsSoFar(top_next, 0, n + 1)
    <3>1. CASE kind \in {"servers", "domains"}
      BY <1>1, <1>2, <1>7, <2>1, <3>1, ExtendedTells
    <3>2. CASE kind \notin {"servers", "domains"}
      <4>1. top_next = Extended(top, "none", listing[n + 1].words)
        BY <1>6, <1>7, <3>2
      <4> QED
        BY <1>1, <1>2, <1>5, <2>1, <3>2, <4>1, ExtendedTells
    <3> QED
      BY <3>1, <3>2
  <2> QED
    BY <1>1, <1>2, <1>3, <1>4, <1>7, <2>1, <2>2 DEF Attributed
<1>8. CASE open # <<>>
  <2> DEFINE e == Extended(open[1], kind, listing[n + 1].words)
  <2>1. /\ h \in Under(n) /\ Cardinality(Under(h)) = Len(done) + 1
        /\ open[1].link = listing[h].words /\ TellsSoFar(open[1], h, n)
    BY <1>2, <1>8
  <2>2. Len(open) = 1 /\ open[1] \in WellMade
    <3>1. Len(open) \in Nat \ {0}
      BY <1>8, EmptySeq
    <3>2. Len(open) = 1 /\ 1 \in 1..Len(open)
      BY <3>1
    <3> QED
      BY <3>2, ElementOfSeq
  <2>3. e \in WellMade /\ e.link = listing[h].words /\ TellsSoFar(e, h, n + 1)
    BY <1>1, <2>1, <2>2, ExtendedTells
  <2>4. open_next = <<e>> /\ top_next = top
    BY <1>8
  <2> HIDE DEF e
  <2>5. open_next \in Seq(WellMade) /\ Len(open_next) = 1 /\ open_next[1] = e /\ open_next # <<>>
    BY <2>3, <2>4
  <2>6. h # 0
    BY <2>1, ListingFacts DEF Under
  <2>7. TellsSoFar(top, 0, n + 1)
    BY <1>1, <1>2, <2>6, OtherTells
  <2> QED
    BY <1>1, <1>2, <1>3, <1>4, <2>1, <2>2, <2>3, <2>4, <2>5, <2>7 DEF Attributed
<1> QED
  BY <1>7, <1>8

\* The finished sections and the one under way, in a row.
LEMMA SectionsJoined ==
  ASSUME NEW done \in Seq(WellMade), NEW open \in Seq(WellMade), Len(open) <= 1
  PROVE  /\ Len(done) \in Nat /\ Len(open) \in Nat /\ Len(done \o open) = Len(done) + Len(open)
         /\ done \o open \in Seq(WellMade) /\ DOMAIN (done \o open) = 1..Len(done \o open)
         /\ \A i \in 1..Len(done) : (done \o open)[i] = done[i] /\ i \in 1..Len(done \o open)
         /\ open # <<>> => /\ Len(open) = 1 /\ Len(done) + 1 \in 1..Len(done \o open)
                           /\ (done \o open)[Len(done) + 1] = open[1]
<1> DEFINE both == done \o open
           none == <<>>
<1>1. Len(done) \in Nat /\ Len(open) \in Nat
  BY LenProperties
<1>2. open # none => Len(open) = 1
  <2>1. open # none => Len(open) \in Nat \ {0}
    BY EmptySeq
  <2> HIDE DEF none
  <2> QED
    BY <1>1, <2>1
<1>3. /\ both \in Seq(WellMade) /\ Len(both) = Len(done) + Len(open)
      /\ \A i \in 1..Len(done) + Len(open) :
           both[i] = IF i <= Len(done) THEN done[i] ELSE open[i - Len(done)]
  BY ConcatProperties
<1> HIDE DEF both, none
<1>4. DOMAIN both = 1..Len(both)
  BY <1>3, LenProperties
<1>5. ASSUME NEW i \in 1..Len(done) PROVE both[i] = done[i] /\ i \in 1..Len(both)
  <2>1. i \in 1..Len(done) + Len(open) /\ i <= Len(done)
    BY <1>1
  <2> QED
    BY <1>3, <2>1
<1>6. ASSUME open # none
      PROVE  Len(done) + 1 \in 1..Len(both) /\ both[Len(done) + 1] = open[1]
  <2>1. /\ Len(done) + 1 \in 1..Len(done) + Len(open) /\ ~ (Len(done) + 1 <= Len(done))
        /\ Len(done) + 1 - Len(done) = 1
    BY <1>1, <1>2, <1>6
  <2> QED
    BY <1>3, <2>1
<1> QED
  BY <1>1, <1>2, <1>3, <1>4, <1>5, <1>6 DEF both, none

\* The header of a link: the section before it is finished.
LEMMA HeaderLine ==
  ASSUME listing \in Listings, NEW n \in Nat, n + 1 <= Len(listing), n + 1 \in Headers,
         NEW top, NEW done \in Seq(WellMade), NEW open \in Seq(WellMade), Len(open) <= 1,
         NEW under, Attributed(n, top, done, open, under)
  PROVE  Attributed(n + 1, top, done \o open, <<Section(listing[n + 1].words)>>, "none")
<1> DEFINE h == HeaderOf(n)
           w == listing[n + 1].words
           new == Section(w)
           both == done \o open
           opened == <<new>>
           none == <<>>
<1>1. HeaderOf(n + 1) = n + 1 /\ FieldOf(n + 1) = "none" /\ listing[n + 1].is = "Link"
  BY HeaderNext, FieldNext DEF Headers
<1>2. /\ \A j \in 0..n : HeaderOf(j) \in 0..n
      /\ TellsSoFar(top, 0, n)
      /\ Len(done) + Len(open) = Cardinality(Under(n))
      /\ \A i \in Under(n) \ {h} : Finished(done, i, n)
      /\ open = none => h = 0
      /\ open # none => /\ h \in Under(n)
                        /\ Cardinality(Under(h)) = Len(done) + 1
                        /\ open[1].link = listing[h].words
                        /\ TellsSoFar(open[1], h, n)
  BY DEF Attributed
<1>3. /\ Len(done) \in Nat /\ Len(open) \in Nat /\ Len(both) = Len(done) + Len(open)
      /\ DOMAIN both = 1..Len(both)
      /\ \A i \in 1..Len(done) : both[i] = done[i] /\ i \in 1..Len(both)
      /\ open # none => /\ Len(open) = 1 /\ Len(done) + 1 \in 1..Len(both)
                        /\ both[Len(done) + 1] = open[1]
  BY SectionsJoined
<1>4. /\ new.link = w /\ new.servers = none /\ new.domains = none /\ new.default_route = "unset"
      /\ opened[1] = new /\ Len(opened) = 1 /\ opened # none
  BY DEF Section
<1>5. Range(none) = {}
  <2>1. DOMAIN none = {}
    OBVIOUS
  <2> HIDE DEF none
  <2> QED
    BY <2>1 DEF Range
<1> HIDE DEF h, new, both, opened, none
<1>6. \A j \in 0..(n + 1) : HeaderOf(j) \in 0..(n + 1)
  <2>1. \A j \in 0..(n + 1) : j \in 0..n \/ j = n + 1
    OBVIOUS
  <2> QED
    BY <1>1, <1>2, <2>1
<1>7. Under(n + 1) = Under(n) \cup {n + 1} /\ n + 1 \notin Under(n) /\ IsFiniteSet(Under(n))
      /\ \A i \in Under(n) : i \in Nat \ {0}
  <2>1. Headers \subseteq 1..Len(listing) /\ IsFiniteSet(Headers) /\ Len(listing) \in Nat
    BY ListingFacts
  <2>2. \A i \in Headers : i \in Nat \ {0}
    BY <2>1
  <2>3. \A i \in Headers : i <= n + 1 <=> i <= n \/ i = n + 1
    BY <2>2
  <2>4. Under(n) \in SUBSET Headers
    BY DEF Under
  <2>5. IsFiniteSet(Under(n))
    BY <2>1, <2>4, FS_Subset
  <2>6. ~ (n + 1 <= n) /\ n + 1 <= n + 1
    OBVIOUS
  <2> QED
    BY <2>2, <2>3, <2>5, <2>6 DEF Under
<1>8. Len(both) + Len(opened) = Cardinality(Under(n + 1)) /\ Cardinality(Under(n + 1)) = Len(both) + 1
  <2>1. Cardinality(Under(n + 1)) = Cardinality(Under(n)) + 1
    BY <1>7, FS_AddElement
  <2> QED
    BY <1>2, <1>3, <1>4, <2>1
<1>9. ASSUME NEW i \in Under(n + 1) \ {n + 1} PROVE Finished(both, i, n + 1)
  <2>1. i \in Under(n) /\ i # 0
    BY <1>7, <1>9
  <2>2. CASE i # h
    <3> DEFINE k == Cardinality(Under(i))
    <3>1. k \in 1..Len(done) /\ done[k].link = listing[i].words /\ TellsSoFar(done[k], i, n)
      BY <1>2, <2>1, <2>2 DEF Finished
    <3> HIDE DEF k
    <3>2. k \in 1..Len(both) /\ both[k] = done[k]
      BY <1>3, <3>1
    <3>3. TellsSoFar(both[k], i, n + 1)
      BY <3>1, <3>2, OtherTells
    <3> QED
      BY <3>1, <3>2, <3>3 DEF Finished, k
  <2>3. CASE i = h
    <3>1. open # none
      BY <1>2, <2>1, <2>3
    <3>2. /\ Cardinality(Under(i)) = Len(done) + 1 /\ open[1].link = listing[i].words
          /\ TellsSoFar(open[1], i, n)
      BY <1>2, <2>3, <3>1
    <3>3. Len(done) + 1 \in 1..Len(both) /\ both[Len(done) + 1] = open[1]
      BY <1>3, <3>1
    <3>4. TellsSoFar(open[1], i, n + 1)
      BY <3>2, OtherTells
    <3> QED
      BY <3>2, <3>3, <3>4 DEF Finished
  <2> QED
    BY <2>2, <2>3
<1>10. TellsSoFar(new, n + 1, n + 1)
  <2>1. ASSUME NEW fields PROVE Said(n + 1, n + 1, fields) = {}
    <3>1. Said(n + 1, n + 1, fields) = Said(n, n + 1, fields)
      BY SaidNext
    <3>2. \A j \in 1..n : HeaderOf(j) # n + 1
      <4>1. \A j \in 1..n : HeaderOf(j) \in 0..n
        BY <1>2
      <4> QED
        BY <4>1
    <3>3. {j \in 1..n \ Headers : HeaderOf(j) = n + 1 /\ FieldOf(j) \in fields} = {}
      BY <3>2
    <3>4. Said(n, n + 1, fields) = {}
      BY <3>3 DEF Said
    <3> QED
      BY <3>1, <3>4
  <2> QED
    BY <1>4, <1>5, <2>1 DEF TellsSoFar
<1>11. TellsSoFar(top, 0, n + 1)
  BY <1>2, OtherTells
<1>12. n + 1 \in Under(n + 1)
  BY <1>7
<1>13. Continues("none") = "none"
  BY FieldsMatch
<1>14. Attributed(n + 1, top, both, opened, "none")
  BY <1>1, <1>4, <1>6, <1>8, <1>9, <1>10, <1>11, <1>12, <1>13 DEF Attributed, none, w
<1> QED
  BY <1>14 DEF both, opened, new

\* All lines read: the sections say what the whole listing does.
LEMMA AllAttributed ==
  ASSUME listing \in Listings, NEW top, NEW done \in Seq(WellMade), NEW open \in Seq(WellMade),
         Len(open) <= 1, NEW under, Attributed(Len(listing), top, done, open, under)
  PROVE  /\ Tells(top, 0)
         /\ Len(done \o open) = Cardinality(Headers)
         /\ \A k \in DOMAIN (done \o open) :
              /\ (done \o open)[k].link = listing[Nth(Headers, k)].words
              /\ Tells((done \o open)[k], Nth(Headers, k))
<1> DEFINE n == Len(listing)
           h == HeaderOf(n)
           both == done \o open
           none == <<>>
<1>1. /\ TellsSoFar(top, 0, n)
      /\ Len(done) + Len(open) = Cardinality(Under(n))
      /\ \A i \in Under(n) \ {h} : Finished(done, i, n)
      /\ open = none => h = 0
      /\ open # none => /\ h \in Under(n)
                        /\ Cardinality(Under(h)) = Len(done) + 1
                        /\ open[1].link = listing[h].words
                        /\ TellsSoFar(open[1], h, n)
  BY DEF Attributed
<1>2. /\ Len(done) \in Nat /\ Len(open) \in Nat /\ Len(both) = Len(done) + Len(open)
      /\ DOMAIN both = 1..Len(both)
      /\ \A i \in 1..Len(done) : both[i] = done[i] /\ i \in 1..Len(both)
      /\ open # none => /\ Len(open) = 1 /\ Len(done) + 1 \in 1..Len(both)
                        /\ both[Len(done) + 1] = open[1]
  BY SectionsJoined
<1>3. /\ n \in Nat /\ DOMAIN listing = 1..n
      /\ Headers \subseteq 1..n /\ IsFiniteSet(Headers) /\ Headers \subseteq Nat
  BY ListingFacts
<1>4. Under(n) = Headers /\ \A i \in Headers : i # 0
  <2> HIDE DEF n
  <2>1. \A i \in Headers : i \in Nat /\ i # 0 /\ i <= n
    BY <1>3
  <2> QED
    BY <2>1 DEF Under
<1>5. \A s, i : TellsSoFar(s, i, n) => Tells(s, i)
  BY <1>3 DEF TellsSoFar, Tells, Said, Words
<1> HIDE DEF n, h, both, none
<1>6. ASSUME NEW k \in 1..Len(both)
      PROVE  both[k].link = listing[Nth(Headers, k)].words /\ Tells(both[k], Nth(Headers, k))
  <2> DEFINE i == Nth(Headers, k)
  <2>5. k \in 1..Cardinality(Headers)
    BY <1>1, <1>2, <1>4
  <2>1. i \in Headers /\ Cardinality({j \in Headers : j <= i}) = k
    BY <1>3, <2>5, NthElements
  <2>2. Cardinality(Under(i)) = k
    BY <2>1 DEF Under
  <2> HIDE DEF i
  <2>3. CASE i # h
    <3>1. /\ k \in 1..Len(done) /\ done[k].link = listing[i].words
          /\ TellsSoFar(done[k], i, n)
      BY <1>1, <1>4, <2>1, <2>2, <2>3 DEF Finished
    <3>2. both[k] = done[k]
      BY <1>2, <3>1
    <3> QED
      BY <1>5, <3>1, <3>2 DEF i
  <2>4. CASE i = h
    <3>1. open # none
      BY <1>1, <1>4, <2>1, <2>4
    <3>2. k = Len(done) + 1 /\ open[1].link = listing[i].words /\ TellsSoFar(open[1], i, n)
      BY <1>1, <2>2, <2>4, <3>1
    <3>3. both[k] = open[1]
      BY <1>2, <3>1, <3>2
    <3> QED
      BY <1>5, <3>2, <3>3 DEF i
  <2> QED
    BY <2>3, <2>4
<1>7. Tells(top, 0) /\ Len(both) = Cardinality(Headers)
  BY <1>1, <1>2, <1>4, <1>5
<1> QED
  BY <1>2, <1>6, <1>7 DEF both

LEMMA AttributedFrame ==
  ASSUME UNCHANGED listing,
         Attributed(line' - 1, global', links', current_link', continuation')
  PROVE  Attributed(line - 1, global, links, current_link, continuation)'
<1>1. Headers' = Headers
  BY DEF Headers
<1>2. \A i : HeaderOf(i)' = HeaderOf(i)
  BY <1>1 DEF HeaderOf
<1>3. \A i : FieldOf(i)' = FieldOf(i)
  BY DEF FieldOf
<1>4. \A n : Under(n)' = Under(n)
  BY <1>1 DEF Under
<1>5. \A n, h, fields : Said(n, h, fields)' = Said(n, h, fields)
  BY <1>1, <1>2, <1>3 DEF Said
<1> QED
  BY <1>2, <1>3, <1>4, <1>5 DEF Attributed, Finished, TellsSoFar

LEMMA TellsFrame ==
  ASSUME UNCHANGED listing
  PROVE  Headers' = Headers /\ \A s, h : Tells(s, h)' <=> Tells(s, h)
<1>1. Headers' = Headers
  BY DEF Headers
<1>2. \A i : HeaderOf(i)' = HeaderOf(i)
  BY <1>1 DEF HeaderOf
<1>3. \A i : FieldOf(i)' = FieldOf(i)
  BY DEF FieldOf
<1>4. \A h, fields : Words(h, fields)' = Words(h, fields)
  BY <1>1, <1>2, <1>3 DEF Words
<1> QED
  BY <1>1, <1>4 DEF Tells

LEMMA ListedInitially == ResolvectlInit => ListedInv
<1> SUFFICES ASSUME ResolvectlInit PROVE ListedInv
  OBVIOUS
<1> DEFINE none == <<>>
<1>1. /\ listing \in Listings /\ line = 1 /\ global = Section(none) /\ links = none
      /\ current_link = none /\ continuation = "none" /\ resolver = "inspecting"
  BY DEF ResolvectlInit
<1>2. \A T : none \in Seq(T) /\ Len(none) = 0
  BY EmptySeq
<1>3. line \in 1..(Len(listing) + 1)
  BY <1>1, ListingFacts
<1>4. global \in WellMade
  <2>1. \A i \in DOMAIN none : FALSE
    OBVIOUS
  <2> HIDE DEF none
  <2>2. IsInjective(none)
    BY <2>1 DEF IsInjective
  <2> QED
    BY <1>1, <1>2, <2>2 DEF WellMade, Section, none
<1>5. ServersAttributed /\ resolver # "parsing"
  BY <1>1 DEF ServersAttributed
<1> HIDE DEF none
<1>6. links \in Seq(WellMade) /\ current_link \in Seq(WellMade) /\ Len(current_link) <= 1
  BY <1>1, <1>2
<1> QED
  BY <1>1, <1>3, <1>4, <1>5, <1>6 DEF ListedInv, none

LEMMA ListedTypes ==
  ASSUME ListedInv, UNCHANGED listing
  PROVE  /\ WellMade' = WellMade /\ Upright' = Upright
         /\ \A w \in {listing[i].words : i \in DOMAIN listing} : Section(w) \in WellMade
<1>1. Spoken' = Spoken
  BY DEF Spoken
<1>2. Upright' = Upright
  BY DEF Upright, HasColon
<1>3. ASSUME NEW i \in DOMAIN listing PROVE Section(listing[i].words) \in WellMade
  <2> DEFINE none == <<>>
             w == listing[i].words
  <2>1. w \in Seq(Spoken)
    BY ListingFacts DEF ListedInv
  <2>2. none \in Seq(Spoken)
    BY EmptySeq
  <2>3. \A j \in DOMAIN none : FALSE
    OBVIOUS
  <2> HIDE DEF none, w
  <2>4. IsInjective(none)
    BY <2>3 DEF IsInjective
  <2>5. Section(w) = [link |-> w, servers |-> none, domains |-> none, default_route |-> "unset"]
    BY DEF Section, none
  <2>6. Section(w) \in WellMade
    BY <2>1, <2>2, <2>4, <2>5 DEF WellMade
  <2> QED
    BY <2>6 DEF w
<1>4. WellMade' = WellMade
  BY <1>1 DEF WellMade
<1> QED
  BY <1>2, <1>3, <1>4


LEMMA ExtendedWellMade ==
  ASSUME NEW s \in WellMade, NEW kind, NEW w \in Seq(Spoken)
  PROVE  Extended(s, kind, w) \in WellMade
<1> DEFINE pushed(d) == push_unique_words(d, w)
<1>1. /\ s \in [link : Seq(Spoken), servers : Seq(Spoken), domains : Seq(Spoken),
                default_route : {"yes", "no", "unset"}]
      /\ IsInjective(s.servers) /\ IsInjective(s.domains)
  BY DEF WellMade
<1>2. /\ pushed(s.servers) \in Seq(Spoken) /\ IsInjective(pushed(s.servers))
      /\ pushed(s.domains) \in Seq(Spoken) /\ IsInjective(pushed(s.domains))
  <2>1. s.servers \in Seq(Spoken) /\ s.domains \in Seq(Spoken)
    BY <1>1
  <2> QED
    BY <1>1, <2>1, PushedWords
<1> HIDE DEF pushed
<1>3. [s EXCEPT !.servers = pushed(s.servers)] \in WellMade
  BY <1>1, <1>2 DEF WellMade
<1>4. [s EXCEPT !.domains = pushed(s.domains)] \in WellMade
  BY <1>1, <1>2 DEF WellMade
<1>5. \A told \in {"yes", "no", "unset"} : [s EXCEPT !.default_route = told] \in WellMade
  BY <1>1 DEF WellMade
<1>6. \A yea, nay : Told(w, yea, nay) \in {"yes", "no", "unset"}
  BY DEF Told
<1> QED
  BY <1>3, <1>4, <1>5, <1>6 DEF Extended, pushed

\* No line continues the current DNS server: it is only one.
LEMMA NotContinued ==
  ASSUME listing \in Listings, NEW n \in Nat, n + 1 <= Len(listing),
         listing[n + 1].is = "more",
         n > 0 /\ listing[n].is = "more" => FieldOf(n) # "Current_DNS_Server"
  PROVE  FieldOf(n + 1) = FieldOf(n) /\ FieldOf(n) # "Current_DNS_Server"
<1>1. Len(listing) \in Nat /\ n + 1 \in 1..Len(listing)
  BY ListingFacts
<1>2. /\ n + 1 > 1 /\ listing[n + 1 - 1].is \in {"field", "more"}
      /\ listing[n + 1 - 1].field # "Current_DNS_Server"
  BY <1>1, ListingFacts
<1>3. n > 0 /\ listing[n].is \in {"field", "more"} /\ listing[n].field # "Current_DNS_Server"
  BY <1>2
<1>4. listing[n].is = "field" => FieldOf(n) = listing[n].field
  <2> DEFINE m == n - 1
  <2>1. m \in Nat /\ m + 1 = n /\ m + 1 <= Len(listing)
    BY <1>1, <1>3
  <2> HIDE DEF m
  <2>2. listing[m + 1].is = "field" => FieldOf(m + 1) = listing[m + 1].field
    BY <2>1, FieldNext
  <2> QED
    BY <2>1, <2>2
<1>5. FieldOf(n + 1) = FieldOf(n)
  BY FieldNext
<1> QED
  BY <1>3, <1>4, <1>5

\* A line under a header is read: words w go where `kind` says.
LEMMA TextRead ==
  ASSUME ListedInv, NEW is \in {"break", "field", "more"}, Reads(is), UNCHANGED links,
         NEW kind, NEW w \in Seq(Spoken),
         current_link # <<>> => /\ current_link' = <<Extended(current_link[1], kind, w)>>
                                /\ global' = global,
         current_link = <<>> => /\ current_link' = current_link
                                /\ global' = IF kind \in {"servers", "domains"}
                                               THEN Extended(global, kind, w) ELSE global,
         continuation' \in {"servers", "domains", "none"},
         Upright => /\ w = words /\ Matches(kind, FieldOf(line))
                    /\ continuation' = Continues(FieldOf(line))
  PROVE  ListedInv'
<1> DEFINE n == line - 1
           none == <<>>
<1>1. /\ listing \in Listings /\ line \in 1..(Len(listing) + 1)
      /\ global \in WellMade /\ links \in Seq(WellMade)
      /\ current_link \in Seq(WellMade) /\ Len(current_link) <= 1
      /\ resolver = "parsing" /\ Upright =>
           Attributed(n, global, links, current_link, continuation)
  BY DEF ListedInv
<1>2. /\ resolver = "parsing" /\ line <= Len(listing) /\ listing[line].is = is
      /\ line' = line + 1 /\ listing' = listing /\ resolver' = resolver
  BY DEF Reads
<1>3. /\ Len(listing) \in Nat /\ n \in Nat /\ n + 1 = line /\ n + 1 <= Len(listing)
      /\ line' \in 1..(Len(listing) + 1) /\ line' - 1 = n + 1
  <2>1. Len(listing) \in Nat
    BY <1>1, ListingFacts
  <2> QED
    BY <1>1, <1>2, <2>1
<1> HIDE DEF n, none
<1>4. n + 1 \notin Headers
  BY <1>2, <1>3 DEF Headers
<1>5. WellMade' = WellMade /\ Upright' = Upright
  BY <1>2, ListedTypes
<1>6. global' \in WellMade /\ current_link' \in Seq(WellMade) /\ Len(current_link') <= 1
  <2>1. global' \in WellMade
    BY <1>1, ExtendedWellMade
  <2>2. CASE current_link = none
    <3>1. current_link' = current_link
      BY <2>2 DEF none
    <3> QED
      BY <1>1, <2>1, <3>1
  <2>3. CASE current_link # none
    <3>1. Len(current_link) \in Nat \ {0}
      BY <1>1, <2>3, EmptySeq DEF none
    <3>2. 1 \in 1..Len(current_link)
      BY <3>1
    <3>3. current_link[1] \in WellMade
      BY <1>1, <3>2, ElementOfSeq
    <3> DEFINE e == Extended(current_link[1], kind, w)
    <3>4. e \in WellMade
      BY <3>3, ExtendedWellMade
    <3>5. current_link' = <<e>>
      BY <2>3 DEF none
    <3> HIDE DEF e
    <3>6. current_link' \in Seq(WellMade) /\ Len(current_link') = 1
      BY <3>4, <3>5
    <3> QED
      BY <2>1, <3>6
  <2> QED
    BY <2>2, <2>3
<1>7. ASSUME Upright
      PROVE  Attributed(n + 1, global', links', current_link', continuation')
  <2>1. /\ Attributed(n, global, links, current_link, continuation)
        /\ w = listing[n + 1].words /\ Matches(kind, FieldOf(n + 1))
        /\ continuation' = Continues(FieldOf(n + 1))
    BY <1>1, <1>2, <1>3, <1>7 DEF words
  <2>2. listing[n + 1].is = "more" => FieldOf(n + 1) # "Current_DNS_Server"
    <3>1. n > 0 /\ listing[n].is = "more" => FieldOf(n) # "Current_DNS_Server"
      BY <2>1 DEF Attributed
    <3> QED
      BY <1>1, <1>3, <3>1, NotContinued
  <2>3. Attributed(n + 1, global', links, current_link', Continues(FieldOf(n + 1)))
    BY <1>1, <1>3, <1>4, <2>1, <2>2, TextLine
  <2> QED
    BY <2>1, <2>3
<1>8. (resolver = "parsing" /\ Upright =>
        Attributed(line - 1, global, links, current_link, continuation))'
  <2>1. Upright' => Attributed(line' - 1, global', links', current_link', continuation')
    BY <1>3, <1>5, <1>7
  <2> QED
    BY <1>2, <2>1, AttributedFrame
<1>9. ServersAttributed'
  BY <1>2 DEF ServersAttributed
<1>10. links' \in Seq(WellMade)
  BY <1>1
<1> QED
  BY <1>1, <1>2, <1>3, <1>5, <1>6, <1>8, <1>9, <1>10 DEF ListedInv

LEMMA ListedStep == ListedInv /\ [ResolvectlNext]_resolvectlVars => ListedInv'
<1> SUFFICES ASSUME ListedInv, [ResolvectlNext]_resolvectlVars PROVE ListedInv'
  OBVIOUS
<1> DEFINE n == line - 1
           none == <<>>
<1>1. /\ listing \in Listings /\ line \in 1..(Len(listing) + 1)
      /\ global \in WellMade /\ links \in Seq(WellMade)
      /\ current_link \in Seq(WellMade) /\ Len(current_link) <= 1
      /\ continuation \in {"servers", "domains", "none"}
      /\ resolver = "inspecting" =>
           /\ line = 1 /\ global = Section(none) /\ links = none /\ current_link = none
           /\ continuation = "none"
      /\ resolver = "parsing" /\ Upright =>
           Attributed(n, global, links, current_link, continuation)
      /\ ServersAttributed
  BY DEF ListedInv
<1>2. /\ Len(listing) \in Nat /\ n \in Nat /\ n + 1 = line /\ DOMAIN listing = 1..Len(listing)
      /\ \A i \in DOMAIN listing : listing[i].words \in Seq(Spoken)
  <2>1. Len(listing) \in Nat
    BY <1>1, ListingFacts
  <2>2. n \in Nat /\ n + 1 = line
    BY <1>1, <2>1
  <2> QED
    BY <1>1, <2>1, <2>2, ListingFacts
<1> HIDE DEF n
<1>3. none \in Seq(Spoken) /\ none \in Seq(WellMade) /\ Len(none) = 0
  BY EmptySeq
<1>4. Section(none) \in WellMade
  <2>1. \A i \in DOMAIN none : FALSE
    OBVIOUS
  <2> HIDE DEF none
  <2>2. IsInjective(none)
    BY <2>1 DEF IsInjective
  <2> QED
    BY <1>3, <2>2 DEF WellMade, Section, none
<1> HIDE DEF none
<1>5. CASE inspect_resolver
  <2>1. /\ resolver' \in {"tool_missing", "tool_failed", "timeout", "output_truncated",
                          "parse_error", "parsing"}
        /\ listing' = listing /\ line' = line /\ global' = global /\ links' = links
        /\ current_link' = current_link /\ continuation' = continuation
        /\ resolver = "inspecting"
    BY <1>5 DEF inspect_resolver, Ends, parsed
  <2>2. WellMade' = WellMade /\ Upright' = Upright
    BY <2>1, ListedTypes
  <2>3. /\ line = 1 /\ n = 0 /\ global = Section(none) /\ links = none /\ current_link = none
        /\ continuation = "none"
    BY <1>1, <1>2, <2>1
  <2>4. Attributed(0, Section(none), none, none, "none")
    <3>1. HeaderOf(0) = 0 /\ Under(0) = {}
      <4>1. \A i \in Headers : ~ (i <= 0)
        BY <1>1, ListingFacts
      <4> QED
        BY <1>1, <4>1, HeaderNext DEF Under
    <3>2. FieldOf(0) = "none" /\ Continues("none") = "none"
      <4>1. {0} \cup {j \in 1..0 : listing[j].is # "more"} = {0}
        OBVIOUS
      <4>2. Max({0}) = 0
        BY GreatestIs
      <4> QED
        BY <4>1, <4>2, FieldsMatch DEF FieldOf
    <3>3. TellsSoFar(Section(none), 0, 0)
      <4>1. \A fields : Said(0, 0, fields) = {}
        BY DEF Said
      <4>2. Range(none) = {}
        <5>1. \A i \in DOMAIN none : FALSE
          BY DEF none
        <5> QED
          BY <5>1 DEF Range
      <4> QED
        BY <4>1, <4>2 DEF TellsSoFar, Section, none
    <3>4. Len(none) + Len(none) = Cardinality({})
      BY <1>3, FS_EmptySet
    <3>5. \A j \in 0..0 : HeaderOf(j) \in 0..0
      BY <3>1
    <3>6. Under(0) \ {HeaderOf(0)} = {} /\ ~ (0 > 0) /\ ~ (none # <<>>)
      BY <3>1 DEF none
    <3> QED
      BY <3>1, <3>2, <3>3, <3>4, <3>5, <3>6, Zenon DEF Attributed
  <2>5. Attributed(line' - 1, global', links', current_link', continuation')
    BY <2>1, <2>3, <2>4
  <2>6. Attributed(line - 1, global, links, current_link, continuation)'
    BY <2>1, <2>5, AttributedFrame
  <2>7. ServersAttributed'
    BY <2>1 DEF ServersAttributed
  <2> QED
    BY <1>1, <2>1, <2>2, <2>6, <2>7 DEF ListedInv
<1>6. CASE Header
  <2>1. /\ resolver = "parsing" /\ line <= Len(listing) /\ listing[line].is = "Link"
        /\ line' = line + 1 /\ listing' = listing /\ resolver' = resolver
        /\ links' = links \o current_link /\ current_link' = <<Section(words)>>
        /\ continuation' = "none" /\ global' = global
    BY <1>6 DEF Header, Reads
  <2>2. line \in DOMAIN listing /\ line \in Headers /\ words = listing[n + 1].words
    BY <1>1, <1>2, <2>1 DEF Headers, words
  <2>3. line' \in 1..(Len(listing) + 1) /\ line' - 1 = n + 1
    BY <1>1, <1>2, <2>1
  <2>4. WellMade' = WellMade /\ Upright' = Upright /\ Section(words) \in WellMade
    <3>1. words \in {listing[i].words : i \in DOMAIN listing}
      BY <2>2 DEF words
    <3> QED
      BY <2>1, <3>1, ListedTypes
  <2>5. links' \in Seq(WellMade)
    BY <1>1, <2>1, SectionsJoined
  <2>6. current_link' \in Seq(WellMade) /\ Len(current_link') <= 1
    <3> DEFINE new == Section(words)
    <3>1. new \in WellMade /\ current_link' = <<new>>
      BY <2>1, <2>4
    <3> HIDE DEF new
    <3> QED
      BY <3>1
  <2>7. ASSUME Upright
        PROVE  Attributed(line' - 1, global', links', current_link', continuation')
    <3>1. Attributed(n, global, links, current_link, continuation)
      BY <1>1, <2>1, <2>7
    <3>2. Attributed(n + 1, global, links \o current_link, <<Section(listing[n + 1].words)>>, "none")
      BY <1>1, <1>2, <2>1, <2>2, <3>1, HeaderLine
    <3> QED
      BY <2>1, <2>2, <2>3, <3>2
  <2>8. (resolver = "parsing" /\ Upright =>
          Attributed(line - 1, global, links, current_link, continuation))'
    BY <2>1, <2>4, <2>7, AttributedFrame
  <2>9. ServersAttributed'
    BY <2>1 DEF ServersAttributed
  <2> QED
    BY <1>1, <2>1, <2>3, <2>4, <2>5, <2>6, <2>8, <2>9 DEF ListedInv
<1>7. CASE MalformedHeader
  <2>1. /\ resolver' = "parse_error" /\ listing' = listing /\ line' = line
        /\ global' = Section(none) /\ links' = none /\ current_link' = none
        /\ continuation' = "none"
    BY <1>7 DEF MalformedHeader, none
  <2>2. WellMade' = WellMade
    BY <2>1, ListedTypes
  <2>3. ServersAttributed'
    BY <2>1 DEF ServersAttributed
  <2>4. links' \in Seq(WellMade) /\ current_link' \in Seq(WellMade) /\ Len(current_link') <= 1
    BY <1>3, <2>1
  <2> QED
    BY <1>1, <1>4, <2>1, <2>2, <2>3, <2>4 DEF ListedInv
<1>8. CASE Break
  <2>1. /\ Reads("break") /\ continuation' = "none" /\ global' = global /\ links' = links
        /\ current_link' = current_link
    BY <1>8 DEF Break
  <2>2. line \in DOMAIN listing /\ n + 1 <= Len(listing) /\ listing[n + 1].is = "break"
    BY <1>1, <1>2, <2>1 DEF Reads
  <2>3. FieldOf(line) = "none" /\ Matches("none", "none") /\ Continues("none") = "none"
    BY <1>1, <1>2, <2>2, FieldNext, FieldsMatch
  <2>4. words \in Seq(Spoken)
    BY <1>2, <2>2 DEF words
  <2>5. \A s : Extended(s, "none", words) = s
    BY DEF Extended
  <2>6. current_link # none => current_link' = <<Extended(current_link[1], "none", words)>>
    <3> SUFFICES ASSUME current_link # none PROVE current_link = <<current_link[1]>>
      BY <2>1, <2>5
    <3>1. Len(current_link) \in Nat \ {0}
      BY <1>1, EmptySeq DEF none
    <3>2. \A k \in Nat \ {0} : k <= 1 => k = 1
      OBVIOUS
    <3>3. Len(current_link) = 1
      BY <1>1, <3>1, <3>2, Zenon
    <3> QED
      BY <1>1, <3>3
  <2> QED
    BY <2>1, <2>3, <2>4, <2>6, TextRead DEF none
<1>9. CASE ReadField
  <2> DEFINE field == listing[line].field
  <2>1. Reads("field") /\ continuation' = Continues(field) /\ Add(KindOf(field), words)
        /\ links' = links
    BY <1>9 DEF ReadField, TakeField
  <2>2. line \in DOMAIN listing /\ n + 1 <= Len(listing) /\ listing[n + 1].is = "field"
    BY <1>1, <1>2, <2>1 DEF Reads
  <2>3. FieldOf(line) = field
    BY <1>1, <1>2, <2>2, FieldNext
  <2>4. words \in Seq(Spoken)
    BY <1>2, <2>2 DEF words
  <2> HIDE DEF field
  <2>5. Matches(KindOf(field), field) /\ Continues(field) \in {"servers", "domains", "none"}
    BY FieldsMatch
  <2> QED
    BY <2>1, <2>3, <2>4, <2>5, TextRead DEF Add
<1>10. CASE More
  <2>1. Reads("more") /\ links' = links
    BY <1>10 DEF More, TakeField
  <2>2. line \in DOMAIN listing /\ n + 1 <= Len(listing) /\ listing[n + 1].is = "more"
    BY <1>1, <1>2, <2>1 DEF Reads
  <2>3. words \in Seq(Spoken)
    BY <1>2, <2>2 DEF words
  <2>4. CASE HasColon(listing[line])
    <3>1. continuation' = "none" /\ Add("none", none)
      BY <1>10, <2>4 DEF More, TakeField, Continues, KindOf, ServerField, none
    <3>2. ~ Upright
      <4>1. listing[line] \in Range(listing) /\ listing[line].is = "more"
        BY <1>2, <2>2 DEF Range
      <4> QED
        BY <2>4, <4>1 DEF Upright
    <3> QED
      BY <1>3, <2>1, <3>1, <3>2, TextRead DEF Add
  <2>5. CASE ~ HasColon(listing[line])
    <3>1. continuation' = continuation /\ Add(continuation, words)
      BY <1>10, <2>5 DEF More
    <3>2. ASSUME Upright
          PROVE  Matches(continuation, FieldOf(line)) /\ continuation' = Continues(FieldOf(line))
      <4>1. resolver = "parsing"
        BY <2>1 DEF Reads
      <4>2. Attributed(n, global, links, current_link, continuation)
        BY <1>1, <3>2, <4>1
      <4>3. /\ continuation = Continues(FieldOf(n))
            /\ n > 0 /\ listing[n].is = "more" => FieldOf(n) # "Current_DNS_Server"
        BY <4>2 DEF Attributed
      <4>4. FieldOf(n + 1) = FieldOf(n) /\ FieldOf(n) # "Current_DNS_Server"
        BY <1>1, <1>2, <2>2, <4>3, NotContinued
      <4>5. Matches(Continues(FieldOf(n)), FieldOf(n))
        BY <4>4, FieldsMatch
      <4> QED
        BY <1>2, <3>1, <4>3, <4>4, <4>5
    <3> QED
      BY <1>1, <2>1, <2>3, <3>1, <3>2, TextRead DEF Add
  <2> QED
    BY <2>4, <2>5
<1>11. CASE AllLines
  <2>1. /\ resolver = "parsing" /\ line > Len(listing) /\ resolver' = "pass"
        /\ links' = links \o current_link /\ current_link' = none
        /\ listing' = listing /\ line' = line /\ global' = global
        /\ continuation' = continuation
    BY <1>11 DEF AllLines, none
  <2>2. WellMade' = WellMade /\ Upright' = Upright
    BY <2>1, ListedTypes
  <2>3. n = Len(listing)
    <3>1. line \in 1..(Len(listing) + 1) /\ line > Len(listing)
      BY <1>1, <2>1
    <3>2. Len(listing) \in Nat /\ n \in Nat /\ n + 1 = line
      BY <1>2
    <3> QED
      BY <3>1, <3>2
  <2>4. links' \in Seq(WellMade)
    BY <1>1, <2>1, SectionsJoined
  <2>5. current_link' \in Seq(WellMade) /\ Len(current_link') <= 1
    BY <1>3, <2>1
  <2>6. ASSUME Upright
        PROVE  /\ Tells(global, 0) /\ Len(links') = Cardinality(Headers)
               /\ \A k \in DOMAIN links' : /\ links'[k].link = listing[Nth(Headers, k)].words
                                           /\ Tells(links'[k], Nth(Headers, k))
    <3>1. Attributed(Len(listing), global, links, current_link, continuation)
      BY <1>1, <2>1, <2>3, <2>6
    <3> QED
      BY <1>1, <2>1, <3>1, AllAttributed
  <2>7. ServersAttributed'
    <3>1. Headers' = Headers /\ \A s, h : Tells(s, h)' <=> Tells(s, h)
      BY <2>1, TellsFrame
    <3> QED
      BY <2>1, <2>2, <2>6, <3>1 DEF ServersAttributed, Upright
  <2> QED
    BY <1>1, <2>1, <2>2, <2>4, <2>5, <2>7 DEF ListedInv
<1>12. CASE UNCHANGED resolvectlVars
  <2>1. /\ listing' = listing /\ line' = line /\ global' = global /\ links' = links
        /\ current_link' = current_link /\ continuation' = continuation /\ resolver' = resolver
    BY <1>12 DEF resolvectlVars, parsed
  <2>2. WellMade' = WellMade /\ Upright' = Upright
    BY <2>1, ListedTypes
  <2>3. (resolver = "parsing" /\ Upright =>
          Attributed(line - 1, global, links, current_link, continuation))'
    <3>1. Upright /\ resolver = "parsing" =>
            Attributed(line - 1, global, links, current_link, continuation)
      BY <1>1 DEF n
    <3>2. Upright' /\ resolver' = "parsing" =>
            Attributed(line' - 1, global', links', current_link', continuation')
      BY <2>1, <2>2, <3>1
    <3> QED
      BY <2>1, <3>2, AttributedFrame
  <2>4. ServersAttributed'
    <3>1. Headers' = Headers /\ \A s, h : Tells(s, h)' <=> Tells(s, h)
      BY <2>1, TellsFrame
    <3> QED
      BY <1>1, <2>1, <2>2, <3>1 DEF ServersAttributed, Upright
  <2> QED
    BY <1>1, <2>1, <2>2, <2>3, <2>4 DEF ListedInv, none
<1> QED
  BY <1>5, <1>6, <1>7, <1>8, <1>9, <1>10, <1>11, <1>12 DEF ResolvectlNext

LEMMA ListedInvariant == ResolvectlSpec => []ListedInv
BY ListedInitially, ListedStep, PTL DEF ResolvectlSpec

\* Reading `resolvectl status`: what has been read is a position in the listing
\* and sections whose servers and domains are each named once.
THEOREM ListingTypes == ResolvectlSpec => []ResolvectlTypeOK
<1>1. ListedInv => ResolvectlTypeOK
  <2> SUFFICES ASSUME ListedInv PROVE ResolvectlTypeOK
    OBVIOUS
  <2> DEFINE all == <<global>> \o links \o current_link
  <2>1. /\ line \in 1..(Len(listing) + 1)
        /\ global \in WellMade /\ links \in Seq(WellMade) /\ current_link \in Seq(WellMade)
        /\ Len(current_link) <= 1 /\ continuation \in {"servers", "domains", "none"}
    BY DEF ListedInv
  <2>2. <<global>> \in Seq(WellMade)
    BY <2>1
  <2>3. all \in Seq(WellMade)
    BY <2>1, <2>2, ConcatProperties
  <2> HIDE DEF all
  <2>4. \A s \in Range(all) : s \in WellMade
    <3>1. DOMAIN all = 1..Len(all) /\ \A i \in 1..Len(all) : all[i] \in WellMade
      BY <2>3, LenProperties, ElementOfSeq
    <3> QED
      BY <3>1 DEF Range
  <2> QED
    BY <2>1, <2>4 DEF ResolvectlTypeOK, WellMade, all
<1> QED
  BY <1>1, ListedInvariant, PTL

\* Reading `resolvectl status`: every link is reported once, in order, with
\* exactly the servers and domains that stand under its header, and the global
\* section with those before the first header, for every listing whose
\* continued lines have no colon.
THEOREM ServersAreAttributed == ResolvectlSpec => []ServersAttributed
<1>1. ListedInv => ServersAttributed
  BY DEF ListedInv
<1> QED
  BY <1>1, ListedInvariant, PTL
==============================================================================
