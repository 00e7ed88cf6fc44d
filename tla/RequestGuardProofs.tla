------------------------- MODULE RequestGuardProofs -------------------------
(***************************************************************************)
(* What the server is sent, for every cap, every body and every response:  *)
(* the three properties of RequestGuard, from one inductive invariant.     *)
(***************************************************************************)
EXTENDS RequestGuard, TLAPS, SequenceTheorems

\* What a response may begin with, the cap's own refusal apart.
Status  == {"413", "403", "415", "429", "by the app"}
Begins  == {Start(s) : s \in Status}
Message == Begins \cup {Start("413 by the cap"), Part}

\* One start, then parts.
Proper(messages) == \A i \in DOMAIN messages :
                      IF i = 1 THEN messages[i] \in Begins ELSE messages[i] = Part

Leads(some, messages) ==
  Len(some) <= Len(messages) /\ \A i \in 1..Len(some) : some[i] = messages[i]

Shape ==
  /\ unread \in Seq(ChunkSize) /\ received \in Nat /\ delivered \in Nat
  /\ sent \in Seq(Message) /\ wire \in Seq(Message)
  /\ exceeded \in BOOLEAN /\ started \in BOOLEAN

\* The cap's own state: what was counted, and what was let through.
Counted ==
  /\ exceeded = TRUE <=> received > MaxBytes
  /\ received <= MaxBytes => wire = sent /\ delivered = received
  /\ delivered <= MaxBytes

\* What left is the refusal of the cap or the first part of what was sent; over
\* the cap nothing more follows, and a conversation that returned was answered.
Answered ==
  /\ Proper(sent)
  /\ wire = TooLarge \/ Leads(wire, sent)
  /\ started = TRUE <=> wire # <<>>
  /\ stage = "guard" => wire = <<>> /\ received <= MaxBytes
  /\ stage = "app" /\ sent # <<>> => wire # <<>>
  /\ stage = "returned" => wire # <<>>

GuardInv == Shape /\ Counted /\ Answered

-----------------------------------------------------------------------------
LEMMA MessageFacts ==
  /\ \A m \in Begins : m.kind = "start" /\ m # Start("413 by the cap")
  /\ Start("by the app") \in Begins
  /\ Part.kind = "body"
<1>1. \A s : Start(s).kind = "start" /\ Start(s).status = s
  BY DEF Start
<1>2. \A m \in Begins : m.kind = "start" /\ m # Start("413 by the cap")
  BY <1>1 DEF Begins, Status
<1> QED
  BY <1>2 DEF Begins, Status, Part

LEMMA TooLargeFacts ==
  /\ TooLarge \in Seq(Message) /\ TooLarge # <<>> /\ Len(TooLarge) = 2
  /\ TooLarge[1] = Start("413 by the cap") /\ TooLarge[2] = Part
BY DEF TooLarge, Answer, Message

LEMMA AnswerFacts ==
  ASSUME NEW status \in {"413", "403", "415", "429"}
  PROVE  /\ Answer(status) \in Seq(Message) /\ Answer(status) # <<>>
         /\ Proper(Answer(status)) /\ Leads(Answer(status), Answer(status))
<1>1. Start(status) \in Begins
  BY DEF Begins, Status
<1> HIDE DEF Begins
<1>2. Answer(status) \in Seq(Message) /\ Len(Answer(status)) = 2
      /\ Answer(status)[1] = Start(status) /\ Answer(status)[2] = Part
  <2>1. Start(status) \in Message /\ Part \in Message
    BY <1>1 DEF Message
  <2> QED
    BY <2>1 DEF Answer
<1>3. DOMAIN Answer(status) = 1..2 /\ Answer(status) # <<>>
  BY <1>2 DEF Answer
<1> QED
  BY <1>1, <1>2, <1>3 DEF Proper, Leads

\* A message after the last one sent.
LEMMA SendFacts ==
  ASSUME sent \in Seq(Message), Proper(sent), NEW m \in Message,
         IF sent = <<>> THEN m \in Begins ELSE m = Part
  PROVE  /\ Append(sent, m) \in Seq(Message) /\ Append(sent, m) # <<>>
         /\ Proper(Append(sent, m))
         /\ Leads(wire, sent) /\ wire \in Seq(Message) => Leads(wire, Append(sent, m))
         /\ Leads(Append(sent, m), Append(sent, m))
<1> DEFINE next == Append(sent, m)
<1>1. next \in Seq(Message) /\ Len(next) = Len(sent) + 1 /\ next # <<>>
  OBVIOUS
<1>2. \A i \in DOMAIN next : next[i] = IF i = Len(sent) + 1 THEN m ELSE sent[i]
  OBVIOUS
<1>3. DOMAIN next = 1..(Len(sent) + 1) /\ DOMAIN sent = 1..Len(sent) /\ Len(sent) \in Nat
  BY <1>1
<1>4. sent = <<>> <=> Len(sent) = 0
  OBVIOUS
<1> HIDE DEF next
<1>5. Proper(next)
  BY <1>2, <1>3, <1>4 DEF Proper
<1>6. Leads(wire, sent) /\ wire \in Seq(Message) => Leads(wire, next)
  BY <1>1, <1>2, <1>3 DEF Leads
<1>7. Leads(next, next)
  BY <1>1 DEF Leads
<1> QED
  BY <1>1, <1>5, <1>6, <1>7 DEF next

-----------------------------------------------------------------------------
LEMMA InitHolds == Init => GuardInv
<1> SUFFICES ASSUME Init PROVE GuardInv
  OBVIOUS
<1>1. unread \in Seq(ChunkSize)
  <2>1. request.body \in Bodies
    BY DEF Init, Request
  <2>2. PICK n \in 0..MaxChunks : request.body \in [1..n -> ChunkSize]
    BY <2>1 DEF Bodies
  <2> QED
    BY <2>2, CapAssumption, SeqDef DEF Init
<1>2. Shape
  <2>1. <<>> \in Seq(Message)
    OBVIOUS
  <2> QED
    BY <1>1, <2>1 DEF Init, Shape
<1>3. Counted /\ Answered
  BY CapAssumption DEF Init, Counted, Answered, Proper, Leads
<1> QED
  BY <1>2, <1>3 DEF GuardInv

LEMMA RefuseKeeps ==
  ASSUME GuardInv, NEW status \in {"413", "403", "415", "429"}, Refuse(status)
  PROVE  GuardInv'
<1>1. /\ stage = "guard" /\ stage' = "returned"
      /\ started' = TRUE /\ sent' = Answer(status) /\ wire' = Answer(status)
      /\ UNCHANGED <<unread, received, exceeded, delivered>>
  BY DEF Refuse
<1>2. received <= MaxBytes
  BY <1>1 DEF GuardInv, Answered
<1>3. Shape'
  BY <1>1, AnswerFacts DEF GuardInv, Shape
<1>4. Counted'
  BY <1>1, <1>2 DEF GuardInv, Counted
<1>5. Answered'
  BY <1>1, AnswerFacts DEF Answered
<1> QED
  BY <1>3, <1>4, <1>5 DEF GuardInv

LEMMA CallNextKeeps ==
  ASSUME GuardInv, CallNext
  PROVE  GuardInv'
<1>1. /\ stage = "guard" /\ stage' = "app"
      /\ UNCHANGED <<unread, received, exceeded, started, sent, wire, delivered>>
  BY DEF CallNext
<1>2. sent = <<>>
  BY <1>1 DEF GuardInv, Answered, Counted
<1> QED
  BY <1>1, <1>2 DEF GuardInv, Shape, Counted, Answered, Proper, Leads

LEMMA ReceiveKeeps ==
  ASSUME GuardInv, Receive
  PROVE  GuardInv'
<1> DEFINE chunk == Head(unread)
           all   == received + chunk
<1>1. /\ stage = "app" /\ unread # <<>> /\ unread' = Tail(unread) /\ received' = all
      /\ UNCHANGED <<started, stage, sent, wire>>
      /\ all > MaxBytes => exceeded' = TRUE /\ delivered' = delivered
      /\ ~ all > MaxBytes => delivered' = delivered + chunk /\ exceeded' = exceeded
  BY DEF Receive, ReceiveCounting
<1>2. unread \in Seq(ChunkSize)
  BY DEF GuardInv, Shape
<1>3. chunk \in ChunkSize /\ Tail(unread) \in Seq(ChunkSize)
  BY <1>1, <1>2
<1>4. chunk \in Nat /\ chunk > 0
  <2> HIDE DEF chunk
  <2> QED
    BY <1>3, CapAssumption
<1> HIDE DEF chunk
<1>5. received \in Nat /\ delivered \in Nat /\ all \in Nat /\ all > received /\ MaxBytes \in Nat
  BY <1>4, CapAssumption DEF GuardInv, Shape
<1>6. Shape'
  <2>1. exceeded \in BOOLEAN
    BY DEF GuardInv, Shape
  <2>2. CASE all > MaxBytes
    BY <1>1, <1>3, <1>5, <2>1, <2>2 DEF GuardInv, Shape
  <2>3. CASE ~ all > MaxBytes
    <3>1. delivered' = delivered + chunk /\ delivered' \in Nat
      BY <1>1, <1>4, <1>5, <2>3
    <3> QED
      BY <1>1, <1>3, <1>5, <2>1, <2>3, <3>1 DEF GuardInv, Shape
  <2> QED
    BY <2>2, <2>3
<1>7. Counted'
  BY <1>1, <1>4, <1>5 DEF GuardInv, Counted
<1>8. Answered'
  BY <1>1 DEF GuardInv, Answered, Proper, Leads
<1> QED
  BY <1>6, <1>7, <1>8 DEF GuardInv

\* What SendStart and SendBody share: a message joins what was sent, and joins what
\* left unless the cap was crossed.
LEMMA SentKeeps ==
  ASSUME GuardInv, stage = "app", NEW m \in Message,
         IF sent = <<>> THEN m \in Begins ELSE m = Part,
         sent' = Append(sent, m), started' = TRUE,
         UNCHANGED <<unread, received, exceeded, stage, delivered>>,
         ~ exceeded => wire' = Append(wire, m),
         exceeded => wire' = IF started THEN wire ELSE TooLarge
  PROVE  GuardInv'
<1>1. /\ sent \in Seq(Message) /\ wire \in Seq(Message) /\ Proper(sent)
      /\ exceeded \in BOOLEAN /\ started \in BOOLEAN
      /\ received \in Nat /\ MaxBytes \in Nat
  BY CapAssumption DEF GuardInv, Shape, Answered
<1>2. /\ sent' \in Seq(Message) /\ sent' # <<>> /\ Proper(sent')
      /\ Leads(wire, sent) => Leads(wire, sent')
      /\ Leads(sent', sent')
  BY <1>1, SendFacts DEF Proper, Leads
<1>3. CASE exceeded = TRUE
  <2>1. wire' = IF started THEN wire ELSE TooLarge
    BY <1>3
  <2>2. wire' \in Seq(Message) /\ wire' # <<>> /\ (wire' = TooLarge \/ Leads(wire', sent'))
    BY <1>1, <1>2, <2>1, TooLargeFacts DEF GuardInv, Answered
  <2>3. Shape'
    BY <1>2, <2>2 DEF GuardInv, Shape
  <2>4. Counted'
    BY <1>1, <1>3 DEF GuardInv, Counted
  <2>5. Answered'
    BY <1>2, <2>2 DEF GuardInv, Answered
  <2> QED
    BY <2>3, <2>4, <2>5 DEF GuardInv
<1>4. CASE exceeded = FALSE
  <2>1. wire = sent /\ wire' = sent'
    BY <1>1, <1>4 DEF GuardInv, Counted
  <2>2. Shape'
    BY <1>2, <2>1 DEF GuardInv, Shape
  <2>3. Counted'
    BY <2>1 DEF GuardInv, Counted
  <2>4. Answered'
    BY <1>2, <2>1 DEF GuardInv, Answered
  <2> QED
    BY <2>2, <2>3, <2>4 DEF GuardInv
<1> QED
  BY <1>1, <1>3, <1>4

LEMMA SendStartKeeps ==
  ASSUME GuardInv, SendStart
  PROVE  GuardInv'
<1> DEFINE m == Start("by the app")
<1>1. /\ stage = "app" /\ sent = <<>> /\ sent' = <<m>> /\ started' = TRUE
      /\ UNCHANGED <<unread, received, exceeded, stage, delivered>>
      /\ wire' = IF ~ exceeded THEN wire \o sent' ELSE IF started THEN wire ELSE wire \o TooLarge
  BY DEF SendStart
<1>2. m \in Begins /\ m \in Message
  BY MessageFacts DEF Message
<1> HIDE DEF m
<1>3. wire \in Seq(Message) /\ (started = TRUE <=> wire # <<>>)
  BY DEF GuardInv, Shape, Answered
<1>4. ~ exceeded => wire' = Append(wire, m)
  BY <1>1, <1>2, <1>3
<1>5. exceeded => wire' = IF started THEN wire ELSE TooLarge
  <2>1. <<>> \o TooLarge = TooLarge
    BY TooLargeFacts, ConcatEmptySeq
  <2> QED
    BY <1>1, <1>3, <2>1
<1>6. sent' = Append(sent, m)
  BY <1>1
<1> QED
  BY <1>1, <1>2, <1>4, <1>5, <1>6, SentKeeps

LEMMA SendBodyKeeps ==
  ASSUME GuardInv, SendBody
  PROVE  GuardInv'
<1>1. /\ stage = "app" /\ sent # <<>> /\ sent' = Append(sent, Part)
      /\ wire' = IF exceeded THEN wire ELSE Append(wire, Part)
      /\ UNCHANGED <<unread, received, exceeded, started, stage, delivered>>
  BY DEF SendBody
<1>2. started = TRUE
  BY <1>1 DEF GuardInv, Answered
<1>3. Part \in Message
  BY DEF Message
<1> QED
  BY <1>1, <1>2, <1>3, SentKeeps

LEMMA ReturnKeeps ==
  ASSUME GuardInv, Return
  PROVE  GuardInv'
<1>1. /\ stage = "app" /\ Len(sent) > 1 /\ stage' = "returned"
      /\ UNCHANGED <<unread, received, exceeded, started, sent, wire, delivered>>
  BY DEF Return
<1>2. sent # <<>>
  BY <1>1 DEF GuardInv, Shape
<1> QED
  BY <1>1, <1>2 DEF GuardInv, Shape, Counted, Answered, Proper, Leads

LEMMA RaiseKeeps ==
  ASSUME GuardInv, Raise
  PROVE  GuardInv'
<1>1. /\ stage = "app" /\ UNCHANGED <<unread, received, exceeded, sent, delivered>>
      /\ IF exceeded
         THEN /\ started' = TRUE
              /\ wire' = IF started THEN wire ELSE wire \o TooLarge
              /\ stage' = "returned"
         ELSE stage' = "raised" /\ UNCHANGED <<started, wire>>
  BY DEF Raise
<1>2. /\ wire \in Seq(Message) /\ exceeded \in BOOLEAN /\ started \in BOOLEAN
      /\ (started = TRUE <=> wire # <<>>)
      /\ received \in Nat /\ MaxBytes \in Nat
  BY CapAssumption DEF GuardInv, Shape, Answered
<1>3. CASE exceeded = TRUE
  <2>1. wire' = IF started THEN wire ELSE TooLarge
    <3>1. <<>> \o TooLarge = TooLarge
      BY TooLargeFacts, ConcatEmptySeq
    <3> QED
      BY <1>1, <1>2, <1>3, <3>1
  <2>2. /\ wire' \in Seq(Message) /\ wire' # <<>>
        /\ wire' = TooLarge \/ wire' = wire
    BY <1>2, <2>1, TooLargeFacts
  <2>3. started' = TRUE /\ stage' = "returned"
    BY <1>1, <1>3
  <2>4. Shape'
    BY <1>1, <2>2, <2>3 DEF GuardInv, Shape
  <2>5. Counted'
    BY <1>1, <1>2, <1>3 DEF GuardInv, Counted
  <2>6. Answered'
    BY <1>1, <2>2, <2>3 DEF GuardInv, Answered, Proper, Leads
  <2> QED
    BY <2>4, <2>5, <2>6 DEF GuardInv
<1>4. CASE exceeded = FALSE
  BY <1>1, <1>4 DEF GuardInv, Shape, Counted, Answered, Proper, Leads
<1> QED
  BY <1>2, <1>3, <1>4

\* The inductive invariant of a guarded request.
THEOREM GuardInvariant == Spec => []GuardInv
<1>1. GuardInv /\ [Next]_vars => GuardInv'
  <2>1. ASSUME GuardInv, Next PROVE GuardInv'
    BY <2>1, RefuseKeeps, CallNextKeeps, ReceiveKeeps, SendStartKeeps, SendBodyKeeps,
       ReturnKeeps, RaiseKeeps DEF Next
  <2>2. ASSUME GuardInv, UNCHANGED vars PROVE GuardInv'
    BY <2>2 DEF vars, GuardInv, Shape, Counted, Answered, Proper, Leads
  <2> QED
    BY <2>1, <2>2
<1> QED
  BY <1>1, InitHolds, PTL DEF Spec

-----------------------------------------------------------------------------
\* The server gets one response, whatever the application reads, sends and raises.
THEOREM ServerGetsOneResponse == Spec => []OneResponse
<1>1. GuardInv => OneResponse
  <2> SUFFICES ASSUME GuardInv PROVE OneResponse
    OBVIOUS
  <2>1. wire \in Seq(Message) /\ sent \in Seq(Message)
    BY DEF GuardInv, Shape
  <2>2. CASE wire = TooLarge
    <3>1. DOMAIN wire = {1, 2} /\ wire[1].kind = "start" /\ wire[2].kind # "start"
      <4>1. Start("413 by the cap").kind = "start"
        BY DEF Start
      <4>2. Part.kind # "start"
        BY DEF Part
      <4>3. DOMAIN TooLarge = {1, 2}
        <5>1. DOMAIN TooLarge = 1..2
          BY TooLargeFacts, LenProperties
        <5> QED
          BY <5>1
      <4> QED
        BY <2>2, <4>1, <4>2, <4>3, TooLargeFacts
    <3>2. Starts(wire) = {1}
      BY <3>1 DEF Starts
    <3> QED
      BY <2>2, <3>2 DEF OneResponse
  <2>3. CASE Leads(wire, sent)
    <3>1. \A i \in DOMAIN wire : IF i = 1 THEN wire[i] \in Begins ELSE wire[i] = Part
      BY <2>1, <2>3 DEF GuardInv, Answered, Proper, Leads
    <3>2. wire # <<>> => 1 \in DOMAIN wire
      BY <2>1
    <3>3. Starts(wire) \subseteq {1} /\ (wire # <<>> => 1 \in Starts(wire))
      BY <3>1, <3>2, MessageFacts DEF Starts
    <3>4. wire # <<>> => wire[1] # TooLarge[1]
      BY <3>1, <3>2, MessageFacts, TooLargeFacts
    <3> QED
      BY <3>3, <3>4 DEF OneResponse
  <2> QED
    BY <2>2, <2>3 DEF GuardInv, Answered
<1> QED
  BY <1>1, GuardInvariant, PTL

\* Up to the cap nothing is changed, and no more than the cap reaches the application.
THEOREM CapChangesNothingBelow == Spec => []CapIsTransparent
<1>1. GuardInv => CapIsTransparent
  BY DEF GuardInv, Counted, CapIsTransparent
<1> QED
  BY <1>1, GuardInvariant, PTL

\* A conversation over the cap ends with an answer.
THEOREM OversizedRequestsAreAnswered == Spec => []OversizedIsAnswered
<1>1. GuardInv => OversizedIsAnswered
  <2> SUFFICES ASSUME GuardInv, stage = "returned", wire # TooLarge
               PROVE  wire # <<>> /\ wire = SubSeq(sent, 1, Len(wire))
    BY DEF OversizedIsAnswered
  <2>1. wire # <<>> /\ Leads(wire, sent) /\ wire \in Seq(Message) /\ sent \in Seq(Message)
    BY DEF GuardInv, Shape, Answered
  <2>2. Len(wire) \in Nat /\ Len(wire) <= Len(sent) /\ \A i \in 1..Len(wire) : wire[i] = sent[i]
    BY <2>1 DEF Leads
  <2>3. wire = SubSeq(sent, 1, Len(wire))
    <3>1. SubSeq(sent, 1, Len(wire)) = [i \in 1..Len(wire) |-> sent[i]]
      BY <2>1, <2>2
    <3>2. wire = [i \in 1..Len(wire) |-> wire[i]]
      BY <2>1
    <3> QED
      BY <2>2, <3>1, <3>2
  <2> QED
    BY <2>1, <2>3
<1> QED
  BY <1>1, GuardInvariant, PTL
=============================================================================
