-------------------------- MODULE IngestionProofs --------------------------
(***************************************************************************)
(* Proofs about Ingestion.  SweepInv relates a sweep in progress to the    *)
(* claims: what it fetched is young, what it hands over is claimed, and a  *)
(* claim was made no earlier than MaxSkew before the article's date - so a *)
(* lapsed claim belongs to an article that is too old to be fetched.       *)
(***************************************************************************)
EXTENDS Ingestion, TLAPS, SequenceTheorems

\* Appending and taking the tail, as the steps below use them.
LEMMA AppendFacts ==
  ASSUME NEW S, NEW s \in Seq(S), NEW e \in S
  PROVE  /\ Append(s, e) \in Seq(S)
         /\ Len(s) \in Nat /\ DOMAIN s = 1..Len(s)
         /\ DOMAIN Append(s, e) = 1..(Len(s) + 1)
         /\ Append(s, e)[Len(s) + 1] = e
         /\ \A i \in 1..Len(s) : Append(s, e)[i] = s[i] /\ s[i] \in S
  BY AppendProperties, LenProperties, ElementOfSeq

LEMMA TailFacts ==
  ASSUME NEW S, NEW s \in Seq(S), s # <<>>
  PROVE  /\ Tail(s) \in Seq(S) /\ Head(s) \in S
         /\ Len(s) \in Nat \ {0} /\ DOMAIN s = 1..Len(s)
         /\ DOMAIN Tail(s) = 1..(Len(s) - 1)
         /\ Head(s) = s[1]
         /\ \A i \in 1..(Len(s) - 1) : Tail(s)[i] = s[i + 1]
  <1>1. Len(s) \in Nat \ {0}
    BY EmptySeq, LenProperties
  <1> QED
    BY <1>1, HeadTailProperties, LenProperties

-----------------------------------------------------------------------------
\* What a sweep fetched was published by then, and is young enough.
Fetched == \A i \in todo : /\ stamp[i] \in EventTime
                           /\ stamp[i] >= started - MaxAge
                           /\ stamp[i] <= sweepNow + MaxSkew

\* A claim was made after the article's date, up to the skew of the feeds.
Claims == \A i \in Id : expiry[i] # None =>
            stamp[i] # None /\ stamp[i] <= expiry[i] - SeenTtl + MaxSkew

\* The sweep in progress is not over time, and started before it read the clock.
SweepInv ==
  /\ sweepNow <= now
  /\ Sweeping => started <= now /\ now <= started + MaxSweep
  /\ phase \in {"claim", "send", "flush"} => started <= sweepNow
  /\ phase # "claim" => todo = {}
  /\ \A i \in Id : stamp[i] # None => stamp[i] <= now + MaxSkew
  /\ Fetched /\ Claims

\* A record that left process(): claimed, young when its sweep began, and dated
\* within the clamping limits around that sweep.
Good(r) ==
  /\ expiry[r.id] # None
  /\ stamp[r.id] >= r.sweep - MaxAge - MaxSweep
  /\ r.sweep - ClampAge <= r.ts /\ r.ts <= r.sweep + MaxSkew
  /\ r.sweep <= sweepNow

\* How two records relate that left process() one after the other.
Before(r, q) == r.id # q.id /\ r.sweep <= q.sweep

\* The records handed over, followed by those waiting in the outbox.
FlowInv ==
  /\ \A i \in DOMAIN handed : Good(handed[i])
  /\ \A i \in DOMAIN outbox : Good(outbox[i]) /\ outbox[i].sweep = sweepNow
  /\ \A i, j \in DOMAIN handed : i < j => Before(handed[i], handed[j])
  /\ \A i \in DOMAIN handed : \A j \in DOMAIN outbox : Before(handed[i], outbox[j])
  /\ \A i, j \in DOMAIN outbox : i < j => Before(outbox[i], outbox[j])
  /\ phase \notin {"claim", "send"} => outbox = <<>>

IInv == TypeOK /\ SweepInv /\ FlowInv

-----------------------------------------------------------------------------
\* The clocks, dates and claims that are set are numbers.
LEMMA Numbers ==
  ASSUME TypeOK
  PROVE  /\ now \in Nat /\ started \in Nat /\ sweepNow \in Nat
         /\ \A i \in Id : stamp[i] # None => stamp[i] \in EventTime /\ stamp[i] \in Int
         /\ \A i \in Id : expiry[i] # None => expiry[i] \in Nat
  <1>1. now \in Nat /\ started \in Nat /\ sweepNow \in Nat
    BY FaultAssumption DEF TypeOK
  <1>2. \A i \in Id : stamp[i] \in EventTime \cup {None} /\ expiry[i] \in Nat \cup {None}
    BY DEF TypeOK
  <1> QED
    BY <1>1, <1>2, AgeAssumption

LEMMA TypeStep ==
  ASSUME TypeOK, SweepInv, [Next]_vars
  PROVE  TypeOK'
  <1> USE AgeAssumption, FaultAssumption DEF TypeOK
  <1>1. CASE Elapse
    BY <1>1 DEF Elapse, sweepVars, kafkaVars
  <1>2. ASSUME NEW i \in Id, NEW ts \in EventTime, Publish(i, ts) PROVE TypeOK'
    BY <1>2 DEF Publish, sweepVars, kafkaVars
  <1>3. CASE StartSweep
    BY <1>3 DEF StartSweep, kafkaVars, Phases
  <1>4. CASE FetchAll
    BY <1>4 DEF FetchAll, FetchWith, kafkaVars, Phases
  <1>5. ASSUME NEW i \in todo, ClaimAndClamp(i) PROVE TypeOK'
    <2>1. CASE Claimed(i)
      BY <1>5, <2>1 DEF ClaimAndClamp, kafkaVars
    <2>2. CASE ~ Claimed(i)
      <3> DEFINE r == [id |-> i, ts |-> Clamp(stamp[i]), sweep |-> sweepNow]
      <3>1. r \in Record
        <4>1. i \in Id /\ stamp[i] \in Int /\ sweepNow \in Nat
          BY DEF SweepInv, Fetched
        <4>2. Clamp(stamp[i]) \in Int
          BY <4>1 DEF Clamp
        <4> QED
          BY <4>1, <4>2 DEF Record
      <3>2. Append(outbox, r) \in Seq(Record)
        BY <3>1, AppendFacts
      <3>3. now + SeenTtl \in Nat
        OBVIOUS
      <3> QED
        BY <1>5, <2>2, <3>2, <3>3 DEF ClaimAndClamp, kafkaVars
    <2> QED
      BY <2>1, <2>2
  <1>6. CASE ClaimsDone
    BY <1>6 DEF ClaimsDone, kafkaVars, Phases
  <1>7. CASE Send
    <2>1. Head(outbox) \in Record /\ Tail(outbox) \in Seq(Record)
      BY <1>7, TailFacts DEF Send
    <2>2. Append(handed, Head(outbox)) \in Seq(Record)
      BY <2>1, AppendFacts
    <2>3. Head(outbox).id \in Id
      BY <2>1 DEF Record
    <2> QED
      BY <1>7, <2>1, <2>2, <2>3 DEF Send
  <1>8. CASE SendsDone \/ FlushDone
    BY <1>8 DEF SendsDone, FlushDone, kafkaVars, Phases
  <1>9. CASE SweepFails
    <2>1. <<>> \in Seq(Record)
      BY EmptySeq
    <2> QED
      BY <1>9, <2>1 DEF SweepFails, kafkaVars, Phases
  <1>10. ASSUME NEW i \in pending, Deliver(i) \/ GiveUp(i) PROVE TypeOK'
    BY <1>10 DEF Deliver, GiveUp, sweepVars
  <1>11. CASE Stop \/ Crash
    <2>1. <<>> \in Seq(Record)
      BY EmptySeq
    <2>2. faults' \in 0..MaxFaults
      BY <1>11 DEF Stop, Crash
    <2>3. ProcessEnds
      BY <1>11 DEF Stop, Crash
    <2> QED
      BY <2>1, <2>2, <2>3 DEF ProcessEnds, Phases
  <1>12. CASE Restart
    BY <1>12 DEF Restart, kafkaVars, Phases
  <1>13. CASE UNCHANGED vars
    BY <1>13 DEF vars, sweepVars, kafkaVars
  <1> QED
    BY <1>1, <1>2, <1>3, <1>4, <1>5, <1>6, <1>7, <1>8, <1>9, <1>10, <1>11, <1>12, <1>13
    DEF Next, SweepStep

LEMMA SweepInvStep ==
  ASSUME TypeOK, SweepInv, [Next]_vars
  PROVE  SweepInv'
  <1> USE AgeAssumption, FaultAssumption DEF TypeOK, SweepInv, Sweeping
  <1>1. CASE Elapse
    <2>1. /\ now' = now + 1 /\ (Sweeping => now < started + MaxSweep)
          /\ UNCHANGED <<stamp, expiry, phase, started, sweepNow, todo, outbox>>
      BY <1>1 DEF Elapse, sweepVars
    <2>2. \A i \in Id : stamp'[i] # None => stamp'[i] <= now' + MaxSkew
      <3> SUFFICES ASSUME NEW i \in Id, stamp[i] # None
                   PROVE  stamp[i] <= (now + 1) + MaxSkew
        BY <2>1
      <3>1. stamp[i] \in Int /\ now \in Int /\ MaxSkew \in Int
        BY Numbers
      <3>2. stamp[i] <= now + MaxSkew
        OBVIOUS
      <3> QED
        BY <3>1, <3>2
    <2>3. Sweeping' => started' <= now' /\ now' <= started' + MaxSweep
      BY <2>1
    <2>4. sweepNow' <= now'
      BY <2>1
    <2>5. Claims'
      BY <2>1 DEF Claims
    <2>6. Fetched'
      BY <2>1 DEF Fetched
    <2>7. /\ phase' \in {"claim", "send", "flush"} => started' <= sweepNow'
          /\ phase' # "claim" => todo' = {}
      BY <2>1
    <2> QED
      BY <2>2, <2>3, <2>4, <2>5, <2>6, <2>7
  <1>2. ASSUME NEW i \in Id, NEW ts \in EventTime, Publish(i, ts) PROVE SweepInv'
    <2>1. /\ stamp[i] = None /\ ts <= now + MaxSkew
          /\ stamp' = [stamp EXCEPT ![i] = ts]
          /\ UNCHANGED <<now, expiry, phase, started, sweepNow, todo, outbox>>
      BY <1>2 DEF Publish, sweepVars
    <2>2. \A j \in Id : stamp'[j] = IF j = i THEN ts ELSE stamp[j]
      BY <2>1
    <2>3. i \notin todo
      BY <2>1 DEF Fetched
    <2>4. \A j \in todo : stamp'[j] = stamp[j]
      BY <2>2, <2>3
    <2>5. expiry[i] = None
      BY <2>1 DEF Claims
    <2>6. Fetched' /\ Claims'
      BY <2>1, <2>2, <2>4, <2>5 DEF Fetched, Claims
    <2> QED
      BY <2>1, <2>2, <2>6
  <1>3. CASE StartSweep
    BY <1>3 DEF Fetched, Claims, StartSweep
  <1>4. CASE FetchAll
    <2>1. /\ phase = "fetch" /\ phase' = "claim" /\ sweepNow' = now
          /\ todo' \subseteq {i \in Id : stamp[i] \in {ts \in EventTime : ts >= started - MaxAge}}
          /\ UNCHANGED <<now, stamp, expiry, started>>
      BY <1>4 DEF FetchAll, FetchWith
    <2>2. Fetched'
      <3> SUFFICES ASSUME NEW i \in todo'
                   PROVE  /\ stamp[i] \in EventTime /\ stamp[i] >= started - MaxAge
                          /\ stamp[i] <= now + MaxSkew
        BY <2>1 DEF Fetched
      <3>1. i \in Id /\ stamp[i] \in EventTime /\ stamp[i] >= started - MaxAge
        BY <2>1
      <3> QED
        BY <3>1
    <2>3. Claims'
      BY <2>1 DEF Claims
    <2> QED
      BY <2>1, <2>2, <2>3
  <1>5. ASSUME NEW i \in todo, ClaimAndClamp(i) PROVE SweepInv'
    <2>1. /\ phase = "claim" /\ i \in Id /\ todo' = todo \ {i}
          /\ expiry' = expiry \/ expiry' = [expiry EXCEPT ![i] = now + SeenTtl]
          /\ UNCHANGED <<now, stamp, phase, started, sweepNow>>
      BY <1>5 DEF ClaimAndClamp
    <2>2. Fetched'
      BY <2>1 DEF Fetched
    <2>3. Claims'
      <3>1. CASE expiry' = expiry
        BY <2>1, <3>1 DEF Claims
      <3>2. CASE expiry' = [expiry EXCEPT ![i] = now + SeenTtl]
        <4>1. expiry'[i] = now + SeenTtl /\ \A j \in Id \ {i} : expiry'[j] = expiry[j]
          BY <2>1, <3>2
        <4>2. stamp[i] # None /\ stamp[i] \in Int /\ stamp[i] <= now + MaxSkew
          BY <2>1 DEF Fetched
        <4> QED
          BY <2>1, <4>1, <4>2 DEF Claims
      <3> QED
        BY <2>1, <3>1, <3>2
    <2> QED
      BY <2>1, <2>2, <2>3
  <1>6. CASE ClaimsDone \/ Send \/ SendsDone \/ FlushDone \/ SweepFails
    BY <1>6 DEF Fetched, Claims, ClaimsDone, Send, SendsDone, FlushDone, SweepFails
  <1>7. ASSUME NEW i \in pending, Deliver(i) \/ GiveUp(i) PROVE SweepInv'
    BY <1>7 DEF Fetched, Claims, Deliver, GiveUp, sweepVars
  <1>8. CASE Stop \/ Crash \/ Restart
    BY <1>8 DEF Fetched, Claims, Stop, Crash, Restart, ProcessEnds
  <1>9. CASE UNCHANGED vars
    BY <1>9 DEF Fetched, Claims, vars, sweepVars
  <1> QED
    BY <1>1, <1>2, <1>3, <1>4, <1>5, <1>6, <1>7, <1>8, <1>9 DEF Next, SweepStep

-----------------------------------------------------------------------------
\* What the records of the flow rely on only grows.
LEMMA GoodStays ==
  ASSUME TypeOK, NEW r \in Record, Good(r),
         UNCHANGED stamp, sweepNow' >= sweepNow, sweepNow' \in Nat,
         \A i \in Id : expiry[i] # None => expiry'[i] # None
  PROVE  Good(r)'
  BY DEF Good, Record, TypeOK

\* A step that leaves both ends of the flow alone.
LEMMA FlowFrame ==
  ASSUME TypeOK, FlowInv, UNCHANGED <<handed, expiry, stamp>>,
         outbox' = <<>> \/ (outbox' = outbox /\ sweepNow' = sweepNow),
         sweepNow' >= sweepNow, sweepNow' \in Nat,
         phase' \notin {"claim", "send"} => outbox' = <<>>
  PROVE  FlowInv'
  <1>1. DOMAIN <<>> = {}
    OBVIOUS
  <1>2. \A i \in DOMAIN handed : handed[i] \in Record
    BY AppendFacts, LenProperties, ElementOfSeq DEF TypeOK
  <1>3. \A i \in DOMAIN outbox : outbox[i] \in Record
    BY AppendFacts, LenProperties, ElementOfSeq DEF TypeOK
  <1>4. \A i \in DOMAIN handed' : Good(handed[i])'
    BY <1>2, GoodStays DEF FlowInv
  <1>5. CASE outbox' = <<>>
    BY <1>1, <1>4, <1>5 DEF FlowInv, Before
  <1>6. CASE outbox' = outbox /\ sweepNow' = sweepNow
    <2>1. \A i \in DOMAIN outbox' : Good(outbox[i])'
      BY <1>3, <1>6, GoodStays DEF FlowInv
    <2> QED
      BY <1>4, <1>6, <2>1 DEF FlowInv, Before
  <1> QED
    BY <1>5, <1>6

\* What a step does to the flow when it only hands records on.
LEMMA FlowRecords ==
  ASSUME TypeOK
  PROVE  /\ Len(handed) \in Nat /\ DOMAIN handed = 1..Len(handed)
         /\ Len(outbox) \in Nat /\ DOMAIN outbox = 1..Len(outbox)
         /\ \A i \in DOMAIN handed : handed[i] \in Record
         /\ \A i \in DOMAIN outbox : outbox[i] \in Record
  BY LenProperties, ElementOfSeq DEF TypeOK

\* A claim that lapsed belongs to an article the age filter no longer lets through.
LEMMA LapsedIsTooOld ==
  ASSUME TypeOK, SweepInv, phase = "claim", NEW i \in todo, ~ Claimed(i)
  PROVE  expiry[i] = None
  <1> SUFFICES ASSUME expiry[i] # None PROVE FALSE
    OBVIOUS
  <1>1. /\ i \in Id /\ expiry[i] \in Int /\ stamp[i] \in Int /\ now \in Int
        /\ started \in Int /\ expiry[i] <= now
    <2>1. i \in Id /\ stamp[i] \in EventTime
      BY DEF TypeOK, SweepInv, Fetched
    <2>2. stamp[i] \in Int /\ expiry[i] \in Nat /\ now \in Nat /\ started \in Nat
      BY <2>1, Numbers, AgeAssumption
    <2>3. expiry[i] <= now
      BY <2>2 DEF Claimed
    <2> QED
      BY <2>1, <2>2, <2>3
  <1>2. stamp[i] >= started - MaxAge /\ now <= started + MaxSweep
    BY DEF SweepInv, Sweeping, Fetched
  <1>3. stamp[i] <= expiry[i] - SeenTtl + MaxSkew
    BY <1>1 DEF SweepInv, Claims
  <1> QED
    BY <1>1, <1>2, <1>3, AgeAssumption, ClaimOutlivesAge

LEMMA ClaimKeepsFlow ==
  ASSUME TypeOK, SweepInv, FlowInv, NEW i \in todo, ClaimAndClamp(i), ~ Claimed(i)
  PROVE  FlowInv'
  <1>0. PICK r : r = [id |-> i, ts |-> Clamp(stamp[i]), sweep |-> sweepNow]
    OBVIOUS
  <1>1. /\ phase = "claim" /\ phase' = "claim" /\ i \in Id
        /\ expiry' = [expiry EXCEPT ![i] = now + SeenTtl]
        /\ outbox' = Append(outbox, r)
        /\ UNCHANGED <<stamp, sweepNow, handed>>
    BY <1>0 DEF ClaimAndClamp, kafkaVars, TypeOK
  <1>2. /\ now \in Nat /\ sweepNow \in Nat /\ started \in Nat
        /\ stamp[i] \in Int /\ now + SeenTtl # None /\ Clamp(stamp[i]) \in Int
    <2>1. stamp[i] \in EventTime
      BY DEF SweepInv, Fetched
    <2>2. now \in Nat /\ sweepNow \in Nat /\ started \in Nat /\ stamp[i] \in Int
      BY <1>1, <2>1, Numbers, AgeAssumption
    <2> QED
      BY <2>2, AgeAssumption DEF Clamp
  <1>3. r \in Record /\ r.id = i /\ r.ts = Clamp(stamp[i]) /\ r.sweep = sweepNow
    BY <1>0, <1>1, <1>2 DEF Record
  <1>4. expiry'[i] = now + SeenTtl /\ \A j \in Id \ {i} : expiry'[j] = expiry[j]
    BY <1>1 DEF TypeOK
  <1>5. expiry[i] = None
    BY <1>1, LapsedIsTooOld
  <1>6. Good(r)'
    <2>1. stamp[i] >= started - MaxAge /\ stamp[i] <= sweepNow + MaxSkew
      BY DEF SweepInv, Fetched
    <2>2. sweepNow <= started + MaxSweep
      BY <1>1, <1>2, AgeAssumption DEF SweepInv, Sweeping
    <2>3. stamp[i] >= sweepNow - MaxAge - MaxSweep
      BY <1>2, <2>1, <2>2, AgeAssumption
    <2>4. sweepNow - ClampAge <= Clamp(stamp[i]) /\ Clamp(stamp[i]) <= sweepNow + MaxSkew
      BY <1>2, <2>1, AgeAssumption DEF Clamp
    <2> QED
      BY <1>1, <1>2, <1>3, <1>4, <2>3, <2>4 DEF Good
  <1>7. \A q \in Record : Good(q) => Good(q)' /\ Before(q, r)
    <2> SUFFICES ASSUME NEW q \in Record, Good(q) PROVE Good(q)' /\ Before(q, r)
      OBVIOUS
    <2>1. \A j \in Id : expiry[j] # None => expiry'[j] # None
      BY <1>2, <1>4
    <2>2. Good(q)'
      BY <1>1, <1>2, <2>1, GoodStays
    <2>3. q.id # i /\ q.sweep <= sweepNow
      BY <1>5 DEF Good
    <2> QED
      BY <1>3, <2>2, <2>3 DEF Before
  <1>8. /\ DOMAIN outbox = 1..Len(outbox) /\ Len(outbox) \in Nat
        /\ DOMAIN outbox' = 1..(Len(outbox) + 1)
        /\ outbox'[Len(outbox) + 1] = r
        /\ \A j \in DOMAIN outbox : outbox'[j] = outbox[j]
    BY <1>1, <1>3, AppendFacts DEF TypeOK
  <1>9. \A j \in DOMAIN outbox' : j = Len(outbox) + 1 \/ j \in DOMAIN outbox
    BY <1>8
  <1>10. \A j \in DOMAIN handed' : Good(handed[j])'
    BY <1>1, <1>7, FlowRecords DEF FlowInv
  <1>11. \A j \in DOMAIN outbox' : Good(outbox[j])' /\ outbox'[j].sweep = sweepNow'
    <2> SUFFICES ASSUME NEW j \in DOMAIN outbox'
                 PROVE  Good(outbox[j])' /\ outbox'[j].sweep = sweepNow'
      OBVIOUS
    <2>1. CASE j = Len(outbox) + 1
      <3>1. outbox'[j] = r /\ r.sweep = sweepNow'
        BY <1>1, <1>3, <1>8, <2>1
      <3> QED
        BY <1>6, <3>1 DEF Good
    <2>2. CASE j \in DOMAIN outbox
      <3>1. outbox'[j] = outbox[j] /\ Good(outbox[j]) /\ outbox[j].sweep = sweepNow
        BY <1>8, <2>2 DEF FlowInv
      <3> QED
        BY <1>1, <1>7, <2>2, <3>1, FlowRecords DEF Good
    <2> QED
      BY <1>9, <2>1, <2>2
  <1>12. \A j, k \in DOMAIN handed' : j < k => Before(handed'[j], handed'[k])
    BY <1>1 DEF FlowInv
  <1>13. \A j \in DOMAIN handed' : \A k \in DOMAIN outbox' : Before(handed'[j], outbox'[k])
    <2> SUFFICES ASSUME NEW j \in DOMAIN handed, NEW k \in DOMAIN outbox'
                 PROVE  Before(handed[j], outbox'[k])
      BY <1>1
    <2>1. CASE k = Len(outbox) + 1
      BY <1>7, <1>8, <2>1, FlowRecords DEF FlowInv
    <2>2. CASE k \in DOMAIN outbox
      BY <1>8, <2>2 DEF FlowInv
    <2> QED
      BY <1>9, <2>1, <2>2
  <1>14. \A j, k \in DOMAIN outbox' : j < k => Before(outbox'[j], outbox'[k])
    <2> SUFFICES ASSUME NEW j \in DOMAIN outbox', NEW k \in DOMAIN outbox', j < k
                 PROVE  Before(outbox'[j], outbox'[k])
      OBVIOUS
    <2>1. j \in DOMAIN outbox
      BY <1>8
    <2>2. CASE k = Len(outbox) + 1
      BY <1>7, <1>8, <2>1, <2>2, FlowRecords DEF FlowInv
    <2>3. CASE k \in DOMAIN outbox
      BY <1>8, <2>1, <2>3 DEF FlowInv
    <2> QED
      BY <1>9, <2>2, <2>3
  <1> QED
    BY <1>1, <1>10, <1>11, <1>12, <1>13, <1>14 DEF FlowInv

LEMMA SendKeepsFlow ==
  ASSUME TypeOK, FlowInv, Send
  PROVE  FlowInv'
  <1>1. /\ phase' = "send" /\ outbox # <<>>
        /\ handed' = Append(handed, Head(outbox)) /\ outbox' = Tail(outbox)
        /\ UNCHANGED <<stamp, expiry, sweepNow>>
    BY DEF Send
  <1>2. /\ Head(outbox) \in Record /\ Len(outbox) \in Nat \ {0}
        /\ DOMAIN outbox = 1..Len(outbox) /\ DOMAIN outbox' = 1..(Len(outbox) - 1)
        /\ Head(outbox) = outbox[1]
        /\ \A j \in 1..(Len(outbox) - 1) : outbox'[j] = outbox[j + 1]
    BY <1>1, TailFacts DEF TypeOK
  <1>3. /\ Len(handed) \in Nat /\ DOMAIN handed = 1..Len(handed)
        /\ DOMAIN handed' = 1..(Len(handed) + 1)
        /\ handed'[Len(handed) + 1] = outbox[1]
        /\ \A j \in DOMAIN handed : handed'[j] = handed[j]
    BY <1>1, <1>2, AppendFacts DEF TypeOK
  <1>4. \A j \in DOMAIN outbox' : j + 1 \in DOMAIN outbox /\ j + 1 > 1 /\ outbox'[j] = outbox[j + 1]
    BY <1>2
  <1>5. 1 \in DOMAIN outbox
    BY <1>2
  <1>6. \A j \in DOMAIN handed' : j = Len(handed) + 1 \/ j \in DOMAIN handed
    BY <1>3
  <1>7. \A q : Good(q) => Good(q)'
    BY <1>1 DEF Good
  <1>8. \A j \in DOMAIN handed' : Good(handed[j])'
    <2> SUFFICES ASSUME NEW j \in DOMAIN handed' PROVE Good(handed[j])'
      OBVIOUS
    <2>1. Good(handed'[j])
      BY <1>3, <1>5, <1>6 DEF FlowInv
    <2> QED
      BY <1>1, <2>1 DEF Good
  <1>9. \A j \in DOMAIN outbox' : Good(outbox[j])' /\ outbox'[j].sweep = sweepNow'
    <2> SUFFICES ASSUME NEW j \in DOMAIN outbox'
                 PROVE  Good(outbox[j])' /\ outbox'[j].sweep = sweepNow'
      OBVIOUS
    <2>1. Good(outbox'[j]) /\ outbox'[j].sweep = sweepNow
      BY <1>4 DEF FlowInv
    <2> QED
      BY <1>1, <2>1 DEF Good
  <1>10. \A j, k \in DOMAIN handed' : j < k => Before(handed'[j], handed'[k])
    <2> SUFFICES ASSUME NEW j \in DOMAIN handed', NEW k \in DOMAIN handed', j < k
                 PROVE  Before(handed'[j], handed'[k])
      OBVIOUS
    <2>1. j \in DOMAIN handed
      BY <1>3
    <2> QED
      BY <1>3, <1>5, <1>6, <2>1 DEF FlowInv
  <1>11. \A j \in DOMAIN handed' : \A k \in DOMAIN outbox' : Before(handed'[j], outbox'[k])
    BY <1>3, <1>4, <1>5, <1>6 DEF FlowInv
  <1>12. \A j, k \in DOMAIN outbox' : j < k => Before(outbox'[j], outbox'[k])
    <2> SUFFICES ASSUME NEW j \in DOMAIN outbox', NEW k \in DOMAIN outbox', j < k
                 PROVE  Before(outbox'[j], outbox'[k])
      OBVIOUS
    <2>1. j + 1 < k + 1
      BY <1>2
    <2> QED
      BY <1>4, <2>1 DEF FlowInv
  <1> QED
    BY <1>1, <1>8, <1>9, <1>10, <1>11, <1>12 DEF FlowInv

LEMMA FlowStep ==
  ASSUME TypeOK, SweepInv, FlowInv, [Next]_vars
  PROVE  FlowInv'
  <1>t. now \in Nat /\ sweepNow \in Nat /\ sweepNow <= now
    BY FaultAssumption DEF TypeOK, SweepInv
  <1>1. CASE Elapse
    BY <1>1, <1>t, FlowFrame DEF Elapse, sweepVars, FlowInv
  <1>2. ASSUME NEW i \in Id, NEW ts \in EventTime, Publish(i, ts) PROVE FlowInv'
    <2>1. /\ stamp[i] = None /\ stamp' = [stamp EXCEPT ![i] = ts]
          /\ UNCHANGED <<expiry, phase, sweepNow, outbox, handed>>
      BY <1>2 DEF Publish, sweepVars
    <2>2. expiry[i] = None
      BY <2>1 DEF SweepInv, Claims
    <2>3. \A j \in Id \ {i} : stamp'[j] = stamp[j]
      BY <2>1 DEF TypeOK
    <2>4. \A q \in Record : Good(q) => Good(q)'
      <3> SUFFICES ASSUME NEW q \in Record, Good(q) PROVE Good(q)'
        OBVIOUS
      <3>1. q.id \in Id \ {i}
        BY <2>2 DEF Good, Record
      <3> QED
        BY <2>1, <2>3, <3>1 DEF Good
    <2>5. \A j \in DOMAIN handed' : Good(handed[j])'
      BY <2>1, <2>4, FlowRecords DEF FlowInv, Good
    <2>6. \A j \in DOMAIN outbox' : Good(outbox[j])'
      BY <2>1, <2>4, FlowRecords DEF FlowInv, Good
    <2> QED
      BY <2>1, <2>5, <2>6 DEF FlowInv, Before
  <1>3. CASE StartSweep
    BY <1>3, <1>t, FlowFrame DEF StartSweep, kafkaVars, FlowInv
  <1>4. CASE FetchAll
    <2>1. outbox = <<>>
      BY <1>4 DEF FlowInv, FetchAll, FetchWith
    <2> QED
      BY <1>4, <1>t, <2>1, FlowFrame DEF FetchAll, FetchWith, kafkaVars
  <1>5. ASSUME NEW i \in todo, ClaimAndClamp(i) PROVE FlowInv'
    <2>1. CASE Claimed(i)
      BY <1>5, <1>t, <2>1, FlowFrame DEF ClaimAndClamp, kafkaVars, FlowInv
    <2>2. CASE ~ Claimed(i)
      BY <1>5, <2>2, ClaimKeepsFlow
    <2> QED
      BY <2>1, <2>2
  <1>6. CASE ClaimsDone \/ SendsDone \/ FlushDone
    BY <1>6, <1>t, FlowFrame DEF ClaimsDone, SendsDone, FlushDone, kafkaVars, FlowInv
  <1>7. CASE Send
    BY <1>7, SendKeepsFlow
  <1>8. CASE SweepFails
    BY <1>8, <1>t, FlowFrame DEF SweepFails, kafkaVars
  <1>9. ASSUME NEW i \in pending, Deliver(i) \/ GiveUp(i) PROVE FlowInv'
    BY <1>9, <1>t, FlowFrame DEF Deliver, GiveUp, sweepVars, FlowInv
  <1>10. CASE Stop \/ Crash
    BY <1>10, <1>t, FlowFrame DEF Stop, Crash, ProcessEnds
  <1>11. CASE Restart
    BY <1>11, <1>t, FlowFrame DEF Restart, kafkaVars, FlowInv
  <1>12. CASE UNCHANGED vars
    BY <1>12, <1>t, FlowFrame DEF vars, sweepVars, FlowInv
  <1> QED
    BY <1>1, <1>2, <1>3, <1>4, <1>5, <1>6, <1>7, <1>8, <1>9, <1>10, <1>11, <1>12
    DEF Next, SweepStep

-----------------------------------------------------------------------------
LEMMA InitInv == Init => IInv
  <1> SUFFICES ASSUME Init PROVE IInv
    OBVIOUS
  <1>1. <<>> \in Seq(Record) /\ DOMAIN <<>> = {}
    BY EmptySeq
  <1>2. TypeOK
    BY <1>1, AgeAssumption, FaultAssumption DEF Init, TypeOK, Phases
  <1>3. SweepInv
    BY AgeAssumption DEF Init, SweepInv, Sweeping, Fetched, Claims
  <1>4. FlowInv
    BY <1>1 DEF Init, FlowInv
  <1> QED
    BY <1>2, <1>3, <1>4 DEF IInv

\* The inductive invariant of ingestion holds throughout.
THEOREM IngestionInvariant == Spec => []IInv
  <1>1. IInv /\ [Next]_vars => IInv'
    BY TypeStep, SweepInvStep, FlowStep DEF IInv
  <1> QED
    BY <1>1, InitInv, PTL DEF Spec

\* Type correctness of a sweep, its claims and the producer's buffer.
THEOREM TypeCorrect == Spec => []TypeOK
  <1>1. IInv => TypeOK
    BY DEF IInv
  <1> QED
    BY <1>1, IngestionInvariant, PTL

\* The SET NX claim of is_new lets no article through a second time, over any
\* number of sweeps, failures and restarts.
THEOREM HandedOnce == Spec => []HandedAtMostOnce
  <1>1. IInv => HandedAtMostOnce
    <2> SUFFICES ASSUME IInv, NEW i \in DOMAIN handed, NEW j \in DOMAIN handed,
                        handed[i].id = handed[j].id
                 PROVE  i = j
      BY DEF HandedAtMostOnce
    <2>1. i \in Nat /\ j \in Nat
      BY FlowRecords DEF IInv
    <2>2. ~ i < j /\ ~ j < i
      BY DEF IInv, FlowInv, Before
    <2> QED
      BY <2>1, <2>2
  <1> QED
    BY <1>1, IngestionInvariant, PTL

\* The age filter comes before the clamp: no old article is handed over as new.
THEOREM NewsIsYoung == Spec => []NoStaleNews
  <1>1. IInv => NoStaleNews
    BY DEF IInv, FlowInv, Good, NoStaleNews
  <1> QED
    BY <1>1, IngestionInvariant, PTL

\* clamp_published keeps the event times of consecutive articles within
\* ClampAge + MaxSkew of each other's order.
THEOREM DisorderBound == Spec => []DisorderIsBounded
  <1>1. IInv => DisorderIsBounded
    <2> SUFFICES ASSUME IInv, NEW i \in DOMAIN handed, NEW j \in DOMAIN handed, i < j
                 PROVE  handed[j].ts >= handed[i].ts - ClampAge - MaxSkew
      BY DEF DisorderIsBounded
    <2>1. handed[i] \in Record /\ handed[j] \in Record
      BY FlowRecords DEF IInv
    <2>2. handed[i].ts <= handed[i].sweep + MaxSkew /\ handed[j].ts >= handed[j].sweep - ClampAge
      BY DEF IInv, FlowInv, Good
    <2>3. handed[i].sweep <= handed[j].sweep
      BY DEF IInv, FlowInv, Before
    <2> QED
      BY <2>1, <2>2, <2>3, AgeAssumption DEF Record
  <1> QED
    BY <1>1, IngestionInvariant, PTL
=============================================================================
