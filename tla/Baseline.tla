------------------------------ MODULE Baseline ------------------------------
(***************************************************************************)
(* The adaptive alert threshold of one ticker (riskcore.baseline, and the  *)
(* order of evaluate_and_alert and write_features around it): a trailing   *)
(* window of scores in a Redis sorted set, a percentile of them, and the   *)
(* seeding that runs while windows are already being scored.               *)
(*                                                                         *)
(* Scores are integers (thousandths in the code, which rounds to three     *)
(* places); the percentile is exact where the code uses floats.            *)
(***************************************************************************)
EXTENDS Integers, FiniteSets

CONSTANTS
  Score,        \* alert scores
  Percentile,   \* ALERT_PERCENTILE
  MinSamples,   \* MIN_BASELINE_SAMPLES
  MinMentions,  \* MIN_MENTIONS_FOR_ALERT
  Trail,        \* BASELINE_WINDOW_HOURS
  NoWindow,     \* the sink is at no window
  Ahead,        \* how far a seeded window's end may lie in the future
  MaxTime,      \* bound: clock ticks of a behaviour
  MaxSamples,   \* bound: observations written
  MaxSeed       \* bound: observations of one seeding

ASSUME ScoreAssumption == Score \subseteq Nat /\ IsFiniteSet(Score)
ASSUME ThresholdAssumption ==
  /\ Percentile \in 0..100 /\ MinSamples \in Nat \ {0} /\ MinMentions \in Nat
  /\ Trail \in Nat /\ Ahead \in Nat
ASSUME LimitAssumption ==
  MaxTime \in Nat /\ MaxSamples \in Nat /\ MaxSeed \in Nat

VARIABLES
  now,
  samples,      \* base:<ticker>: observations, kept apart by a uniquifier
  written,      \* observations written so far; the next uniquifier
  window,       \* the window the sink is at, from its decision to its write
  verdict,      \* the decision taken and the observations it was taken on
  seeding,      \* a seeding found the ticker short of samples
  recorded      \* history: every observation of a real window

vars == <<now, samples, written, window, verdict, seeding, recorded>>

-----------------------------------------------------------------------------
Origin == {"real", "simulated", "seed"}
Observation == [ts : Int, score : Score, uid : Nat, from : Origin]
Features == [score : Score, mentions : {MinMentions - 1, MinMentions}, simulated : BOOLEAN]
Undecided == [alert |-> FALSE, seen |-> {}]

\* scores: what the trailing window holds now.
Scores == {s \in samples : s.ts >= now - Trail}

AtLeast(S, v) == {s \in S : s.score >= v}
AtMost(S, v)  == {s \in S : s.score <= v}

\* The k-th of the sorted scores, counting from 0.
Ordered(S, k) ==
  CHOOSE v \in {s.score : s \in S} :
    /\ Cardinality(S) - Cardinality(AtLeast(S, v)) <= k
    /\ k < Cardinality(AtMost(S, v))

\* percentile's position between two of the n sorted scores, in hundredths.
Rank(n)    == Percentile * (n - 1)
LowRank(n) == Rank(n) \div 100
HighRank(n) == IF LowRank(n) + 1 < n THEN LowRank(n) + 1 ELSE n - 1

\* percentile, times 100.
Cut(S) ==
  LET n == Cardinality(S)
      low == Ordered(S, LowRank(n))
  IN  100 * low + (Ordered(S, HighRank(n)) - low) * (Rank(n) % 100)

\* Mutant of ShouldAlert: fires at the threshold too.
AlertsAtThreshold(S, f) ==
  /\ f.mentions >= MinMentions
  /\ Cardinality(S) >= MinSamples
  /\ 100 * f.score >= Cut(S)

\* evaluate: silent below the floors, else strictly above the percentile.
ShouldAlert(S, f) ==
  /\ f.mentions >= MinMentions
  /\ Cardinality(S) >= MinSamples
  /\ 100 * f.score > Cut(S)

-----------------------------------------------------------------------------
Init ==
  /\ now = 0 /\ samples = {} /\ written = 0
  /\ window = NoWindow /\ verdict = Undecided
  /\ seeding = FALSE /\ recorded = {}

Elapse ==
  /\ now < MaxTime /\ now' = now + 1
  /\ UNCHANGED <<samples, written, window, verdict, seeding, recorded>>

\* The window sink decides first ...
EvaluateWindow(f) ==
  /\ window = NoWindow /\ window' = f
  /\ verdict' = [alert |-> ShouldAlert(Scores, f), seen |-> Scores]
  /\ UNCHANGED <<now, samples, written, seeding, recorded>>

\* _member.  Where it comes from is not stored; the properties speak of it.
Member(t, f) ==
  [ts |-> t, score |-> f.score, uid |-> written, from |-> IF f.simulated THEN "simulated" ELSE "real"]

Trimmed(S, cutoff) == {s \in S : s.ts > cutoff}

RecordWhen(counts) ==
  /\ window # NoWindow /\ window' = NoWindow /\ verdict' = Undecided
  /\ IF counts
     THEN LET s == Member(now, window)
          IN  /\ written < MaxSamples /\ written' = written + 1
              /\ samples' = Trimmed(samples \cup {s}, now - Trail)
              /\ recorded' = IF window.simulated THEN recorded ELSE recorded \cup {s}
     ELSE UNCHANGED <<samples, written, recorded>>
  /\ UNCHANGED <<now, seeding>>

\* ... and records second, real windows only, quiet ones included.
WriteFeatures == window # NoWindow /\ RecordWhen(~ window.simulated)

\* Redis refuses the features, which the engine counts as a stage error, or the
\* process ends here.
WriteFails ==
  /\ window # NoWindow /\ window' = NoWindow /\ verdict' = Undecided
  /\ UNCHANGED <<now, samples, written, seeding, recorded>>

\* seed_baselines looks whether the ticker is short of samples; the tool seeds in
\* any case when it is told to ...
SeedCheck(force) ==
  /\ ~ seeding /\ (force \/ Cardinality(Scores) < MinSamples)
  /\ seeding' = TRUE
  /\ UNCHANGED <<now, samples, written, window, verdict, recorded>>

Newest(obs) == CHOOSE t \in {obs[i].ts : i \in DOMAIN obs} :
                 \A i \in DOMAIN obs : obs[i].ts <= t

SeedTrimming(obs, cutoff) ==
  /\ seeding /\ seeding' = FALSE
  /\ written + Cardinality(DOMAIN obs) <= MaxSamples
  /\ written' = written + Cardinality(DOMAIN obs)
  /\ samples' = Trimmed(samples \cup {[ts |-> obs[i].ts, score |-> obs[i].score,
                                       uid |-> written + i - 1, from |-> "seed"] : i \in DOMAIN obs}, cutoff)
  /\ UNCHANGED <<now, window, verdict, recorded>>

\* Mutant of SeedWrite: what is older than the seeded observations is trimmed.
SeedReplaces(obs) == SeedTrimming(obs, Newest(obs) - 1)

\* ... and long after, with the corpus fetched and scored, record_many writes them
\* and trims by the newest of them.
SeedWrite(obs) == SeedTrimming(obs, Newest(obs) - Trail)

\* No corpus, or an exception: alerting stays silent until live windows suffice.
SeedGivesUp ==
  /\ seeding /\ seeding' = FALSE
  /\ UNCHANGED <<now, samples, written, window, verdict, recorded>>

\* score_windows yields the windows by their end.
Seeds ==
  {obs \in UNION {[1..n -> [ts : (now - Trail)..(now + Ahead), score : Score]] : n \in 1..MaxSeed} :
     \A i, j \in DOMAIN obs : i <= j => obs[i].ts <= obs[j].ts}

Next ==
  \/ Elapse
  \/ \E f \in Features : EvaluateWindow(f)
  \/ WriteFeatures \/ WriteFails
  \/ \E force \in BOOLEAN : SeedCheck(force)
  \/ SeedGivesUp
  \/ \E obs \in Seeds : SeedWrite(obs)

Spec == Init /\ [][Next]_vars

-----------------------------------------------------------------------------
\* Every variable keeps its type, and no two observations share a uniquifier.
TypeOK ==
  /\ now \in 0..MaxTime
  /\ samples \subseteq Observation
  /\ written \in 0..MaxSamples
  /\ window \in Features \cup {NoWindow}
  /\ verdict.alert \in BOOLEAN /\ verdict.seen \subseteq Observation
  /\ seeding \in BOOLEAN
  /\ recorded \subseteq Observation
  /\ \A s, t \in samples : s.uid = t.uid => s = t
  /\ \A s \in samples : s.uid < written

\* The decision against its definition: a window that alerts has at most the top
\* (100 - Percentile)% of the samples at or above it, so a sustained spike damps
\* itself; one with enough mentions and samples that does not alert has at least
\* the samples from the higher neighbour on at or above it.
VerdictIsPercentile ==
  window # NoWindow =>
    LET S == verdict.seen
        n == Cardinality(S)
        above == Cardinality(AtLeast(S, window.score))
        warm == n >= MinSamples /\ window.mentions >= MinMentions
    IN  /\ verdict.alert => warm /\ above <= n - 1 - LowRank(n)
        /\ warm /\ ~ verdict.alert => above >= n - HighRank(n)

\* The baseline is the trailing window of the real ones: every real window recorded
\* within it counts, whatever is seeded in between, and no simulated one ever does.
\* (A seeded window that ends in the future trims that much early.)
BaselineIsTrailingWindow ==
  /\ \A r \in recorded : r.ts > now + Ahead - Trail => r \in Scores
  /\ \A s \in Scores : s.from # "simulated"
=============================================================================
