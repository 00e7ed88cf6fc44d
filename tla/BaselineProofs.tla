--------------------------- MODULE BaselineProofs ---------------------------
(***************************************************************************)
(* Proofs about Baseline: no two observations collapse into one member of  *)
(* the sorted set; the set keeps every real window of the trailing window  *)
(* and no simulated one, whatever is seeded in between; and the decision   *)
(* has few samples above it when it alerts and many when it does not.      *)
(***************************************************************************)
EXTENDS Baseline, TLAPS, FiniteSetTheorems

\* What a seeding writes, and the newest of it.
Seeded(obs) ==
  {[ts |-> obs[i].ts, score |-> obs[i].score, uid |-> written + i - 1, from |-> "seed"] :
     i \in DOMAIN obs}

LEMMA SeedFacts ==
  ASSUME now \in Nat, NEW obs \in Seeds
  PROVE  \E n \in Nat \ {0} :
           /\ DOMAIN obs = 1..n /\ Cardinality(DOMAIN obs) = n
           /\ \A i \in 1..n : obs[i].ts \in Int /\ obs[i].score \in Score
           /\ Newest(obs) \in Int /\ Newest(obs) <= now + Ahead
  <1>1. PICK n \in 1..MaxSeed : obs \in [1..n -> [ts : (now - Trail)..(now + Ahead), score : Score]]
    BY DEF Seeds
  <1>2. n \in Nat \ {0}
    BY LimitAssumption
  <1>3. DOMAIN obs = 1..n
    BY <1>1
  <1>4. Cardinality(DOMAIN obs) = n
    BY <1>2, <1>3, FS_Interval
  <1>5. \A i \in 1..n : /\ obs[i].ts \in Int /\ obs[i].score \in Score
                        /\ obs[i].ts <= now + Ahead
    BY <1>1, ThresholdAssumption
  <1>6. \A i \in 1..n : obs[i].ts <= obs[n].ts
    BY <1>2, <1>3 DEF Seeds
  <1>7. \E t \in {obs[i].ts : i \in DOMAIN obs} : \A i \in DOMAIN obs : obs[i].ts <= t
    BY <1>2, <1>3, <1>6
  <1>8. Newest(obs) \in {obs[i].ts : i \in DOMAIN obs}
    BY <1>7 DEF Newest
  <1>9. Newest(obs) \in Int /\ Newest(obs) <= now + Ahead
    BY <1>3, <1>5, <1>8
  <1> QED
    BY <1>2, <1>3, <1>4, <1>5, <1>9

\* A seeding adds observations of its own, apart from all earlier ones.
LEMMA SeededFacts ==
  ASSUME now \in Nat, written \in Nat, NEW obs \in Seeds
  PROVE  /\ Seeded(obs) \subseteq Observation
         /\ \A s \in Seeded(obs) : /\ s.from = "seed"
                                   /\ s.uid >= written
                                   /\ s.uid < written + Cardinality(DOMAIN obs)
         /\ \A s, t \in Seeded(obs) : s.uid = t.uid => s = t
         /\ Cardinality(DOMAIN obs) \in Nat
  <1>1. PICK n \in Nat \ {0} :
          /\ DOMAIN obs = 1..n /\ Cardinality(DOMAIN obs) = n
          /\ \A i \in 1..n : obs[i].ts \in Int /\ obs[i].score \in Score
    BY SeedFacts
  <1>2. Seeded(obs) \subseteq Observation
    BY <1>1 DEF Seeded, Observation, Origin
  <1>3. \A s \in Seeded(obs) : s.from = "seed" /\ s.uid >= written /\ s.uid < written + n
    BY <1>1 DEF Seeded
  <1>4. \A s, t \in Seeded(obs) : s.uid = t.uid => s = t
    BY <1>1 DEF Seeded
  <1> QED
    BY <1>1, <1>2, <1>3, <1>4

-----------------------------------------------------------------------------
\* A nonempty set of naturals has a least element.
LEMMA LeastNat ==
  ASSUME NEW T \in SUBSET Nat, T # {}
  PROVE  \E m \in T : \A t \in T : m <= t
  <1> DEFINE R == OpToRel(<, Nat)
  <1>1. IsWellFoundedOn(R, Nat)
    BY NatLessThanWellFounded
  <1> HIDE DEF R
  <1>2. PICK m \in T : \A t \in T : ~ (<<t, m>> \in R)
    BY <1>1, WFMin, Zenon
  <1>3. \A i, j \in Nat : i < j => <<i, j>> \in R
    BY DEF R, OpToRel
  <1>4. \A t \in T : ~ (t < m)
    BY <1>2, <1>3
  <1> QED
    BY <1>2, <1>4

\* The observations at or above a score, and those at or below it, are finitely many
\* of the finitely many; a larger score leaves no more of the former, and the two
\* sides of a score add up.
LEMMA CountFacts ==
  ASSUME NEW S \in SUBSET Observation, IsFiniteSet(S), NEW v \in Nat
  PROVE  /\ IsFiniteSet(AtLeast(S, v)) /\ IsFiniteSet(AtMost(S, v))
         /\ Cardinality(S) \in Nat
         /\ Cardinality(AtLeast(S, v)) \in Nat /\ Cardinality(AtMost(S, v)) \in Nat
         /\ IsFiniteSet(S \ AtLeast(S, v)) /\ IsFiniteSet(S \ AtMost(S, v))
         /\ Cardinality(S \ AtLeast(S, v)) = Cardinality(S) - Cardinality(AtLeast(S, v))
         /\ Cardinality(S \ AtMost(S, v)) = Cardinality(S) - Cardinality(AtMost(S, v))
         /\ \A s \in S : s.score \in Nat
  <1>1. AtLeast(S, v) \in SUBSET S /\ AtMost(S, v) \in SUBSET S
    BY DEF AtLeast, AtMost
  <1>2. IsFiniteSet(AtLeast(S, v)) /\ IsFiniteSet(AtMost(S, v))
    BY <1>1, FS_Subset
  <1>3. /\ Cardinality(S) \in Nat
        /\ Cardinality(AtLeast(S, v)) \in Nat /\ Cardinality(AtMost(S, v)) \in Nat
    BY <1>2, FS_CardinalityType
  <1>4. S \cap AtLeast(S, v) = AtLeast(S, v) /\ S \cap AtMost(S, v) = AtMost(S, v)
    BY <1>1
  <1>5. \A T : /\ IsFiniteSet(S \ T)
               /\ Cardinality(S \ T) = Cardinality(S) - Cardinality(S \cap T)
    BY FS_Difference, Zenon
  <1>6. /\ IsFiniteSet(S \ AtLeast(S, v)) /\ IsFiniteSet(S \ AtMost(S, v))
        /\ Cardinality(S \ AtLeast(S, v)) = Cardinality(S) - Cardinality(AtLeast(S, v))
        /\ Cardinality(S \ AtMost(S, v)) = Cardinality(S) - Cardinality(AtMost(S, v))
    BY <1>4, <1>5, Zenon
  <1>7. \A s \in S : s.score \in Nat
    BY ScoreAssumption DEF Observation
  <1> QED
    BY <1>2, <1>3, <1>6, <1>7

\* Finitely many observations have a highest one: the one with the fewest at or
\* above its score.
LEMMA HighestScore ==
  ASSUME NEW S \in SUBSET Observation, IsFiniteSet(S), S # {}
  PROVE  \E s \in S : \A t \in S : t.score <= s.score
  <1> DEFINE C == {Cardinality(AtLeast(S, s.score)) : s \in S}
  <1>1. \A s \in S : s.score \in Nat
    BY ScoreAssumption DEF Observation
  <1>2. C \in SUBSET Nat /\ C # {}
    BY <1>1, CountFacts
  <1>3. PICK m \in C : \A c \in C : m <= c
    <2> HIDE DEF C
    <2> QED
      BY <1>2, LeastNat
  <1>4. PICK s \in S : m = Cardinality(AtLeast(S, s.score))
    BY <1>3
  <1>5. ASSUME NEW t \in S, ~ (t.score <= s.score)
        PROVE  FALSE
    <2>1. AtLeast(S, t.score) \in SUBSET AtLeast(S, s.score)
      BY <1>1, <1>5 DEF AtLeast
    <2>2. s \in AtLeast(S, s.score) /\ s \notin AtLeast(S, t.score)
      BY <1>1, <1>5 DEF AtLeast
    <2>3. IsFiniteSet(AtLeast(S, s.score))
      BY <1>1, CountFacts
    <2>4. Cardinality(AtLeast(S, t.score)) <= Cardinality(AtLeast(S, s.score))
      BY <2>1, <2>3, FS_Subset
    <2>5. Cardinality(AtLeast(S, t.score)) # Cardinality(AtLeast(S, s.score))
      BY <2>1, <2>2, <2>3, FS_Subset
    <2>6. Cardinality(AtLeast(S, s.score)) <= Cardinality(AtLeast(S, t.score))
      BY <1>3, <1>4
    <2>7. Cardinality(AtLeast(S, s.score)) \in Nat /\ Cardinality(AtLeast(S, t.score)) \in Nat
      BY <1>1, CountFacts
    <2> QED
      BY <2>4, <2>5, <2>6, <2>7
  <1> QED
    BY <1>5

\* Every position of the sorted scores holds one.
LEMMA OrderedFacts ==
  ASSUME NEW S \in SUBSET Observation, IsFiniteSet(S),
         NEW k \in Nat, k < Cardinality(S)
  PROVE  /\ Ordered(S, k) \in Nat
         /\ Cardinality(S) - Cardinality(AtLeast(S, Ordered(S, k))) <= k
         /\ k < Cardinality(AtMost(S, Ordered(S, k)))
  <1> DEFINE V == {s.score : s \in S}
             Fits(v) == k < Cardinality(AtMost(S, v))
             T == {v \in V : Fits(v)}
  <1>1. \A s \in S : s.score \in Nat
    BY ScoreAssumption DEF Observation
  <1>2. V \in SUBSET Nat
    BY <1>1
  <1>3. Cardinality(S) \in Nat /\ S # {}
    BY FS_CardinalityType, FS_EmptySet
  <1>4. T # {}
    <2>1. PICK s \in S : \A t \in S : t.score <= s.score
      BY <1>3, HighestScore
    <2>2. AtMost(S, s.score) = S
      BY <2>1 DEF AtMost
    <2>3. s.score \in T
      BY <2>2
    <2> QED
      BY <2>3
  <1>5. PICK v \in T : \A w \in T : v <= w
    <2>1. T \in SUBSET Nat
      BY <1>2
    <2> HIDE DEF T
    <2> QED
      BY <2>1, <1>4, LeastNat
  <1>6. v \in V /\ v \in Nat /\ k < Cardinality(AtMost(S, v))
    BY <1>2
  <1>7. Cardinality(S) - Cardinality(AtLeast(S, v)) <= k
    <2> DEFINE L == S \ AtLeast(S, v)
    <2>1. L \in SUBSET Observation /\ IsFiniteSet(L)
      BY <1>6, CountFacts
    <2>2. Cardinality(L) = Cardinality(S) - Cardinality(AtLeast(S, v)) /\ Cardinality(L) \in Nat
      BY <1>6, CountFacts, <2>1, FS_CardinalityType
    <2>3. \A s \in S : s \in L <=> s.score < v
      BY <1>1, <1>6 DEF AtLeast
    <2>4. L \subseteq S
      OBVIOUS
    <2> HIDE DEF L
    <2>5. ASSUME k < Cardinality(L)
          PROVE  FALSE
      <3>1. L # {}
        BY <2>5, FS_EmptySet
      <3>2. PICK t \in L : \A q \in L : q.score <= t.score
        BY <2>1, <3>1, HighestScore
      <3>3. t.score < v /\ t \in S /\ t.score \in Nat
        BY <2>3, <2>4, <1>1
      <3>4. \A q \in S : q \in L <=> q.score <= t.score
        BY <2>3, <3>2, <3>3, <1>1, <1>6
      <3>5. L = AtMost(S, t.score)
        BY <2>4, <3>4 DEF AtMost
      <3>6. t.score \in T
        BY <3>3, <3>5, <2>5
      <3> QED
        BY <3>3, <3>6, <1>5, <1>6
    <2> QED
      BY <2>2, <2>5
  <1>8. \E w \in V : /\ Cardinality(S) - Cardinality(AtLeast(S, w)) <= k
                     /\ k < Cardinality(AtMost(S, w))
    BY <1>6, <1>7
  <1>9. /\ Ordered(S, k) \in V
        /\ Cardinality(S) - Cardinality(AtLeast(S, Ordered(S, k))) <= k
        /\ k < Cardinality(AtMost(S, Ordered(S, k)))
    BY <1>8 DEF Ordered
  <1> QED
    BY <1>2, <1>9

\* The sorted scores are sorted.
LEMMA OrderedIsSorted ==
  ASSUME NEW S \in SUBSET Observation, IsFiniteSet(S),
         NEW j \in Nat, NEW k \in Nat, j <= k, k < Cardinality(S)
  PROVE  Ordered(S, j) <= Ordered(S, k)
  <1> DEFINE v == Ordered(S, j)
             w == Ordered(S, k)
  <1>1. Cardinality(S) \in Nat
    BY FS_CardinalityType
  <1>2. v \in Nat /\ Cardinality(S) - Cardinality(AtLeast(S, v)) <= j
    BY <1>1, OrderedFacts
  <1>3. w \in Nat /\ k < Cardinality(AtMost(S, w))
    BY OrderedFacts
  <1> HIDE DEF v, w
  <1>4. ASSUME w < v
        PROVE  FALSE
    <2>1. AtMost(S, w) \in SUBSET (S \ AtLeast(S, v))
      <3>1. \A s \in S : s.score \in Nat
        BY <1>2, CountFacts
      <3> QED
        BY <3>1, <1>2, <1>3, <1>4 DEF AtMost, AtLeast
    <2>2. Cardinality(AtMost(S, w)) <= Cardinality(S \ AtLeast(S, v))
      <3>1. IsFiniteSet(S \ AtLeast(S, v))
        BY <1>2, CountFacts
      <3> QED
        BY <2>1, <3>1, FS_Subset
    <2>3. /\ Cardinality(S \ AtLeast(S, v)) = Cardinality(S) - Cardinality(AtLeast(S, v))
          /\ Cardinality(AtLeast(S, v)) \in Nat
      BY <1>2, CountFacts
    <2>4. Cardinality(AtMost(S, w)) \in Nat
      BY <1>3, CountFacts
    <2> QED
      BY <2>2, <2>3, <2>4, <1>1, <1>2, <1>3
  <1>5. v <= w
    BY <1>2, <1>3, <1>4
  <1> QED
    BY <1>5 DEF v, w

\* Both neighbours of the percentile are positions of the sorted scores.
LEMMA RankFacts ==
  ASSUME NEW n \in Nat \ {0}
  PROVE  /\ LowRank(n) \in Nat /\ HighRank(n) \in Nat
         /\ LowRank(n) <= HighRank(n) /\ HighRank(n) < n
         /\ Rank(n) % 100 \in 0..99
  <1> DEFINE r == Percentile * (n - 1)
  <1>1. Percentile \in 0..100
    BY ThresholdAssumption
  <1>2. r \in Nat /\ r <= 100 * (n - 1)
    <2>1. \A p \in 0..100, m \in Nat : p * m \in Nat /\ p * m <= 100 * m
      OBVIOUS
    <2> QED
      BY <1>1, <2>1
  <1>3. \A x \in Nat, m \in Nat : x <= 100 * m => x \div 100 \in 0..m /\ x % 100 \in 0..99
    OBVIOUS
  <1>4. r \div 100 \in 0..(n - 1) /\ r % 100 \in 0..99
    BY <1>2, <1>3
  <1>5. LowRank(n) = r \div 100 /\ Rank(n) = r
    BY DEF LowRank, Rank
  <1> HIDE DEF r
  <1>6. LowRank(n) \in 0..(n - 1) /\ Rank(n) % 100 \in 0..99
    BY <1>4, <1>5
  <1> QED
    BY <1>6 DEF HighRank

\* The interpolated percentile lies between its neighbours.
LEMMA CutFacts ==
  ASSUME NEW S \in SUBSET Observation, IsFiniteSet(S), S # {}
  PROVE  /\ Cut(S) \in Int
         /\ 100 * Ordered(S, LowRank(Cardinality(S))) <= Cut(S)
         /\ Cut(S) <= 100 * Ordered(S, HighRank(Cardinality(S)))
  <1> DEFINE n == Cardinality(S)
             low == Ordered(S, LowRank(n))
             high == Ordered(S, HighRank(n))
             r == Rank(n) % 100
  <1>1. n \in Nat \ {0}
    BY FS_CardinalityType, FS_EmptySet
  <1>2. /\ LowRank(n) \in Nat /\ HighRank(n) \in Nat
        /\ LowRank(n) <= HighRank(n) /\ HighRank(n) < n /\ LowRank(n) < n
        /\ r \in 0..99
    BY <1>1, RankFacts
  <1>3. low \in Nat /\ high \in Nat /\ low <= high
    BY <1>2, OrderedFacts, OrderedIsSorted
  <1>4. Cut(S) = 100 * low + (high - low) * r
    BY DEF Cut
  <1> HIDE DEF n, low, high, r
  <1>5. \A d \in Nat, q \in 0..99 : d * q \in Nat /\ d * q <= 100 * d
    OBVIOUS
  <1>6. (high - low) * r \in Nat /\ (high - low) * r <= 100 * (high - low)
    BY <1>2, <1>3, <1>5
  <1>7. Cut(S) \in Int /\ 100 * low <= Cut(S) /\ Cut(S) <= 100 * high
    BY <1>3, <1>4, <1>6
  <1> QED
    BY <1>7 DEF n, low, high

\* Above the percentile there are few samples, up to it there are many.
LEMMA AlertCounts ==
  ASSUME NEW S \in SUBSET Observation, IsFiniteSet(S), NEW f \in Features
  PROVE  LET n == Cardinality(S)
             above == Cardinality(AtLeast(S, f.score))
             warm == n >= MinSamples /\ f.mentions >= MinMentions
         IN  /\ ShouldAlert(S, f) => warm /\ above <= n - 1 - LowRank(n)
             /\ warm /\ ~ ShouldAlert(S, f) => above >= n - HighRank(n)
  <1> DEFINE n == Cardinality(S)
             above == Cardinality(AtLeast(S, f.score))
             low == Ordered(S, LowRank(n))
             high == Ordered(S, HighRank(n))
  <1>1. f.score \in Nat
    BY ScoreAssumption DEF Features
  <1>2. n \in Nat /\ above \in Nat
    BY <1>1, CountFacts
  <1>3. ASSUME n >= MinSamples
        PROVE  /\ 100 * f.score > Cut(S) => above <= n - 1 - LowRank(n)
               /\ ~ (100 * f.score > Cut(S)) => above >= n - HighRank(n)
    <2>1. n \in Nat \ {0} /\ S # {}
      BY <1>2, <1>3, ThresholdAssumption, FS_EmptySet
    <2>2. /\ LowRank(n) \in Nat /\ HighRank(n) \in Nat
          /\ HighRank(n) < n /\ LowRank(n) < n
      BY <2>1, RankFacts
    <2>3. low \in Nat /\ LowRank(n) < Cardinality(AtMost(S, low))
      BY <2>2, OrderedFacts
    <2>4. high \in Nat /\ n - Cardinality(AtLeast(S, high)) <= HighRank(n)
      BY <2>2, OrderedFacts
    <2>5. Cut(S) \in Int /\ 100 * low <= Cut(S) /\ Cut(S) <= 100 * high
      BY <2>1, CutFacts
    <2>6. /\ IsFiniteSet(S \ AtMost(S, low))
          /\ Cardinality(S \ AtMost(S, low)) = n - Cardinality(AtMost(S, low))
          /\ Cardinality(AtMost(S, low)) \in Nat
      BY <2>3, CountFacts
    <2>7. IsFiniteSet(AtLeast(S, f.score)) /\ \A s \in S : s.score \in Nat
      BY <1>1, CountFacts
    <2>8. Cardinality(AtLeast(S, high)) \in Nat
      BY <2>4, CountFacts
    <2> HIDE DEF low, high, n
    <2>9. ASSUME 100 * f.score > Cut(S)
          PROVE  above <= n - 1 - LowRank(n)
      <3>1. f.score > low
        BY <2>9, <2>5, <2>3, <1>1
      <3>2. AtLeast(S, f.score) \in SUBSET (S \ AtMost(S, low))
        BY <3>1, <2>7, <2>3, <1>1 DEF AtLeast, AtMost
      <3>3. above <= Cardinality(S \ AtMost(S, low))
        BY <3>2, <2>6, FS_Subset
      <3> HIDE DEF above
      <3> QED
        BY <3>3, <2>6, <2>3, <2>2, <1>2
    <2>10. ASSUME ~ (100 * f.score > Cut(S))
           PROVE  above >= n - HighRank(n)
      <3>1. f.score <= high
        BY <2>10, <2>5, <2>4, <1>1
      <3>2. AtLeast(S, high) \in SUBSET AtLeast(S, f.score)
        BY <3>1, <2>7, <2>4, <1>1 DEF AtLeast
      <3>3. Cardinality(AtLeast(S, high)) <= above
        BY <3>2, <2>7, FS_Subset
      <3> HIDE DEF above
      <3> QED
        BY <3>3, <2>8, <2>4, <2>2, <1>2
    <2> QED
      BY <2>9, <2>10
  <1> HIDE DEF above
  <1>4. ShouldAlert(S, f) <=> /\ f.mentions >= MinMentions /\ n >= MinSamples
                              /\ 100 * f.score > Cut(S)
    BY DEF ShouldAlert
  <1>5. /\ ShouldAlert(S, f) => /\ n >= MinSamples /\ f.mentions >= MinMentions
                                /\ above <= n - 1 - LowRank(n)
        /\ (n >= MinSamples /\ f.mentions >= MinMentions) /\ ~ ShouldAlert(S, f)
             => above >= n - HighRank(n)
    BY <1>3, <1>4
  <1> QED
    BY <1>5 DEF above

-----------------------------------------------------------------------------
\* The inductive invariant: besides the types, what was recorded is no newer than
\* the clock, and the set holds all of it that no seeding can have trimmed.
TrailInv ==
  /\ \A r \in recorded : r.ts <= now
  /\ \A r \in recorded : r.ts > now + Ahead - Trail => r \in samples
  /\ \A s \in samples : s.from # "simulated"

\* Between the decision and the write the verdict is the one these samples give.
VerdictInv ==
  window # NoWindow =>
    /\ verdict.alert <=> ShouldAlert(verdict.seen, window)
    /\ IsFiniteSet(verdict.seen)

IInv == TypeOK /\ TrailInv /\ VerdictInv

LEMMA InitInv == Init => IInv
  <1> SUFFICES ASSUME Init
               PROVE  IInv
    OBVIOUS
  <1>1. now \in 0..MaxTime /\ written \in 0..MaxSamples
    BY LimitAssumption DEF Init
  <1>2. verdict.alert = FALSE /\ verdict.seen = {}
    BY DEF Init, Undecided
  <1> QED
    BY <1>1, <1>2 DEF Init, IInv, TypeOK, TrailInv, VerdictInv

\* Trimming keeps what the types say of the observations.
LEMMA TypeStep == TypeOK /\ [Next]_vars => TypeOK'
  <1> SUFFICES ASSUME TypeOK, [Next]_vars
               PROVE  TypeOK'
    OBVIOUS
  <1> USE DEF TypeOK
  <1>0. now \in Nat /\ written \in Nat
    BY LimitAssumption
  <1>1. CASE Elapse
    BY <1>1, LimitAssumption DEF Elapse
  <1>2. ASSUME NEW f \in Features, EvaluateWindow(f)
        PROVE  TypeOK'
    BY <1>2 DEF EvaluateWindow, ShouldAlert, Scores
  <1>3. CASE WriteFeatures
    <2>1. CASE window.simulated
      BY <1>3, <2>1 DEF WriteFeatures, RecordWhen, Undecided
    <2>2. CASE ~ window.simulated
      <3> DEFINE s == Member(now, window)
      <3>1. /\ written < MaxSamples /\ written' = written + 1
            /\ samples' \subseteq samples \cup {s}
            /\ recorded' = recorded \cup {s}
            /\ window' = NoWindow /\ verdict' = Undecided /\ UNCHANGED <<now, seeding>>
        BY <1>3, <2>2 DEF WriteFeatures, RecordWhen, Trimmed
      <3>2. window \in Features
        BY <1>3 DEF WriteFeatures
      <3>3. s \in Observation /\ s.uid = written
        BY <1>0, <3>2 DEF Member, Observation, Origin, Features
      <3>4. written' \in 0..MaxSamples
        BY <3>1, <1>0, LimitAssumption
      <3> HIDE DEF s
      <3>5. samples' \subseteq Observation /\ recorded' \subseteq Observation
        BY <3>1, <3>3
      <3>6. \A q \in samples' : q.uid < written'
        BY <3>1, <3>3, <1>0 DEF Observation
      <3>7. \A q, r \in samples' : q.uid = r.uid => q = r
        BY <3>1, <3>3, <1>0 DEF Observation
      <3> QED
        BY <3>1, <3>4, <3>5, <3>6, <3>7 DEF Undecided
    <2> QED
      BY <2>1, <2>2
  <1>4. CASE WriteFails
    BY <1>4 DEF WriteFails, Undecided
  <1>5. CASE \E force \in BOOLEAN : SeedCheck(force)
    BY <1>5 DEF SeedCheck
  <1>6. CASE SeedGivesUp
    BY <1>6 DEF SeedGivesUp
  <1>7. ASSUME NEW obs \in Seeds, SeedWrite(obs)
        PROVE  TypeOK'
    <2>1. /\ samples' \subseteq samples \cup Seeded(obs)
          /\ written + Cardinality(DOMAIN obs) <= MaxSamples
          /\ written' = written + Cardinality(DOMAIN obs)
          /\ seeding' = FALSE /\ UNCHANGED <<now, window, verdict, recorded>>
      BY <1>7 DEF SeedWrite, SeedTrimming, Trimmed, Seeded
    <2>2. /\ Seeded(obs) \subseteq Observation
          /\ \A s \in Seeded(obs) : s.uid >= written /\ s.uid < written + Cardinality(DOMAIN obs)
          /\ \A s, t \in Seeded(obs) : s.uid = t.uid => s = t
          /\ Cardinality(DOMAIN obs) \in Nat
      BY <1>0, SeededFacts
    <2>3. written' \in 0..MaxSamples
      BY <2>1, <2>2, <1>0, LimitAssumption
    <2>4. samples' \subseteq Observation
      BY <2>1, <2>2
    <2>5. \A q \in samples' : q.uid < written'
      BY <2>1, <2>2, <1>0 DEF Observation
    <2>6. \A q, r \in samples' : q.uid = r.uid => q = r
      BY <2>1, <2>2, <1>0 DEF Observation
    <2> QED
      BY <2>1, <2>3, <2>4, <2>5, <2>6
  <1>8. CASE UNCHANGED vars
    BY <1>8 DEF vars
  <1> QED
    BY <1>1, <1>2, <1>3, <1>4, <1>5, <1>6, <1>7, <1>8 DEF Next

\* Neither recording nor seeding trims a real window that is still due in the trail.
LEMMA TrailStep == IInv /\ [Next]_vars => TrailInv'
  <1> SUFFICES ASSUME TypeOK, TrailInv, [Next]_vars
               PROVE  TrailInv'
    BY DEF IInv
  <1> USE DEF TrailInv
  <1>0. /\ now \in Nat /\ written \in Nat
        /\ \A s \in samples \cup recorded : s.ts \in Int
    BY LimitAssumption DEF TypeOK, Observation
  <1>1. CASE Elapse
    BY <1>0, <1>1, ThresholdAssumption DEF Elapse
  <1>2. ASSUME NEW f \in Features, EvaluateWindow(f)
        PROVE  TrailInv'
    BY <1>2 DEF EvaluateWindow
  <1>3. CASE WriteFeatures
    <2>1. CASE window.simulated
      BY <1>3, <2>1 DEF WriteFeatures, RecordWhen
    <2>2. CASE ~ window.simulated
      <3> DEFINE s == Member(now, window)
      <3>1. /\ samples' = Trimmed(samples \cup {s}, now - Trail)
            /\ recorded' = recorded \cup {s} /\ now' = now
        BY <1>3, <2>2 DEF WriteFeatures, RecordWhen
      <3>2. s.ts = now /\ s.from = "real"
        BY <2>2 DEF Member
      <3> HIDE DEF s
      <3> QED
        BY <3>1, <3>2, <1>0, ThresholdAssumption DEF Trimmed
    <2> QED
      BY <2>1, <2>2
  <1>4. CASE WriteFails
    BY <1>4 DEF WriteFails
  <1>5. CASE \E force \in BOOLEAN : SeedCheck(force)
    BY <1>5 DEF SeedCheck
  <1>6. CASE SeedGivesUp
    BY <1>6 DEF SeedGivesUp
  <1>7. ASSUME NEW obs \in Seeds, SeedWrite(obs)
        PROVE  TrailInv'
    <2>1. /\ samples' = Trimmed(samples \cup Seeded(obs), Newest(obs) - Trail)
          /\ UNCHANGED <<now, recorded>>
      BY <1>7 DEF SeedWrite, SeedTrimming, Seeded
    <2>2. Newest(obs) \in Int /\ Newest(obs) <= now + Ahead
      BY <1>0, SeedFacts
    <2>3. \A s \in Seeded(obs) : s.from = "seed"
      BY <1>0, SeededFacts
    <2> QED
      BY <2>1, <2>2, <2>3, <1>0, ThresholdAssumption DEF Trimmed
  <1>8. CASE UNCHANGED vars
    BY <1>8 DEF vars
  <1> QED
    BY <1>1, <1>2, <1>3, <1>4, <1>5, <1>6, <1>7, <1>8 DEF Next

\* The uniquifiers keep the samples apart, and only so many were handed out.
LEMMA SamplesAreFinite == TypeOK => IsFiniteSet(samples)
  <1> SUFFICES ASSUME TypeOK
               PROVE  IsFiniteSet(samples)
    OBVIOUS
  <1> DEFINE f == [s \in samples |-> s.uid]
  <1>1. written \in Nat
    BY LimitAssumption DEF TypeOK
  <1>2. \A s \in samples : s.uid \in 0..written
    BY <1>1 DEF TypeOK, Observation
  <1>3. f \in Injection(samples, 0..written)
    BY <1>2 DEF TypeOK, Injection, IsInjective
  <1>4. IsFiniteSet(0..written)
    BY <1>1, FS_Interval
  <1> QED
    BY <1>3, <1>4, FS_Injection

\* The verdict is taken on the samples of the moment and dropped with the window.
LEMMA VerdictStep == TypeOK /\ VerdictInv /\ [Next]_vars => VerdictInv'
  <1> SUFFICES ASSUME TypeOK, VerdictInv, [Next]_vars
               PROVE  VerdictInv'
    OBVIOUS
  <1> USE DEF VerdictInv
  <1>1. CASE Elapse
    BY <1>1 DEF Elapse
  <1>2. ASSUME NEW f \in Features, EvaluateWindow(f)
        PROVE  VerdictInv'
    <2>1. /\ window' = f
          /\ verdict'.seen = Scores
          /\ verdict'.alert <=> ShouldAlert(Scores, f)
      BY <1>2 DEF EvaluateWindow
    <2>2. IsFiniteSet(Scores)
      <3>1. IsFiniteSet(samples) /\ Scores \in SUBSET samples
        BY SamplesAreFinite DEF Scores
      <3> QED
        BY <3>1, FS_Subset
    <2> QED
      BY <2>1, <2>2
  <1>3. CASE WriteFeatures
    BY <1>3 DEF WriteFeatures, RecordWhen
  <1>4. CASE WriteFails
    BY <1>4 DEF WriteFails
  <1>5. CASE \E force \in BOOLEAN : SeedCheck(force)
    BY <1>5 DEF SeedCheck
  <1>6. CASE SeedGivesUp
    BY <1>6 DEF SeedGivesUp
  <1>7. ASSUME NEW obs \in Seeds, SeedWrite(obs)
        PROVE  VerdictInv'
    BY <1>7 DEF SeedWrite, SeedTrimming
  <1>8. CASE UNCHANGED vars
    BY <1>8 DEF vars
  <1> QED
    BY <1>1, <1>2, <1>3, <1>4, <1>5, <1>6, <1>7, <1>8 DEF Next

\* The inductive invariant of the baseline holds throughout.
THEOREM BaselineInvariant == Spec => []IInv
  <1>1. IInv /\ [Next]_vars => IInv'
    BY TypeStep, TrailStep, VerdictStep DEF IInv
  <1> QED
    BY <1>1, InitInv, PTL DEF Spec

\* Type correctness; in particular the uniquifier of _member keeps two windows with
\* the same time and score apart.
THEOREM TypeCorrect == Spec => []TypeOK
  <1>1. IInv => TypeOK
    BY DEF IInv
  <1> QED
    BY <1>1, BaselineInvariant, PTL

\* record, record_many and write_features together keep the baseline the trailing
\* window of the real windows, for every score set, percentile and trail.
THEOREM TrailingWindow == Spec => []BaselineIsTrailingWindow
  <1>1. IInv => BaselineIsTrailingWindow
    <2> SUFFICES ASSUME TypeOK, TrailInv
                 PROVE  BaselineIsTrailingWindow
      BY DEF IInv
    <2>1. now \in Nat /\ \A r \in recorded : r.ts \in Int
      BY LimitAssumption DEF TypeOK, Observation
    <2>2. \A r \in recorded : r.ts > now + Ahead - Trail => r \in Scores
      BY <2>1, ThresholdAssumption DEF TrailInv, Scores
    <2>3. \A s \in Scores : s.from # "simulated"
      BY DEF TrailInv, Scores
    <2> QED
      BY <2>2, <2>3 DEF BaselineIsTrailingWindow
  <1> QED
    BY <1>1, BaselineInvariant, PTL

\* evaluate's decision, for every score set, percentile and floor: an alert has at most
\* the top share of the samples at or above its score, and a window that stays silent
\* with enough mentions and samples has at least the higher neighbour's share there.
THEOREM VerdictIsThePercentile == Spec => []VerdictIsPercentile
  <1>1. IInv => VerdictIsPercentile
    <2> SUFFICES ASSUME TypeOK, VerdictInv, window # NoWindow
                 PROVE  VerdictIsPercentile
      BY DEF IInv, VerdictIsPercentile
    <2> DEFINE S == verdict.seen
    <2>1. window \in Features /\ S \in SUBSET Observation
      BY DEF TypeOK
    <2>2. IsFiniteSet(S) /\ (verdict.alert <=> ShouldAlert(S, window))
      BY DEF VerdictInv
    <2> HIDE DEF S
    <2>3. LET n == Cardinality(S)
              above == Cardinality(AtLeast(S, window.score))
              warm == n >= MinSamples /\ window.mentions >= MinMentions
          IN  /\ verdict.alert => warm /\ above <= n - 1 - LowRank(n)
              /\ warm /\ ~ verdict.alert => above >= n - HighRank(n)
      BY <2>1, <2>2, AlertCounts
    <2> QED
      BY <2>3 DEF VerdictIsPercentile, S
  <1> QED
    BY <1>1, BaselineInvariant, PTL
=============================================================================
