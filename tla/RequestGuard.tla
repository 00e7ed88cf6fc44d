---------------------------- MODULE RequestGuard ----------------------------
(***************************************************************************)
(* What stands between the server and the application (guard.py): the body *)
(* cap BodySizeLimit, outermost, and GuardMiddleware inside it.  One       *)
(* request is one ASGI conversation: chunks of the body come in, response  *)
(* messages go out, in any order that the application chooses, because the *)
(* middleware streams a response while it still listens to the request.    *)
(*                                                                         *)
(* The application is external: it reads, catches what a read raises or    *)
(* not, answers at most once, returns only after it answered (the ASGI     *)
(* protocol), and may raise at any time.                                   *)
(***************************************************************************)
EXTENDS Integers, Sequences, FiniteSetsExt

CONSTANTS
  MaxBytes,     \* MAX_BODY_BYTES
  ChunkSize,    \* the sizes chunks may have
  MaxChunks,    \* bound: chunks of a body
  MaxParts      \* bound: body messages of a response

ASSUME CapAssumption ==
  /\ MaxBytes \in Nat /\ MaxChunks \in Nat /\ MaxParts \in Nat
  /\ ChunkSize \subseteq Nat \ {0}

VARIABLES
  request,     \* what the server was sent
  unread,      \* body chunks the server still holds
  received,    \* state["received"]
  exceeded,    \* state["exceeded"]
  started,     \* state["started"]
  stage,       \* who has the request: guard, app, or how it ended
  sent,        \* history: response messages from inside the cap
  wire,        \* response messages the server got
  delivered    \* history: bytes the application got

vars == <<request, unread, received, exceeded, started, stage, sent, wire, delivered>>

-----------------------------------------------------------------------------
Bodies == UNION {[1..n -> ChunkSize] : n \in 0..MaxChunks}

Total(chunks) == MapThenSumSet(LAMBDA i : chunks[i], DOMAIN chunks)

\* A body is announced by its length or comes in chunks without one; a server
\* passes on exactly as much as an announced length says.
Request == {r \in [length : {"absent", "number", "garbled", "chunked"}, body : Bodies,
                   unsafe : BOOLEAN, foreign : BOOLEAN, api : BOOLEAN,
                   ctype : {"absent", "json", "other"}] :
              r.length = "absent" => r.body = <<>>}

Start(status) == [kind |-> "start", status |-> status]
Part          == [kind |-> "body"]
Answer(status) == <<Start(status), Part>>
TooLarge == Answer("413 by the cap")

Init ==
  /\ request \in Request
  /\ unread = request.body
  /\ received = 0 /\ exceeded = FALSE /\ started = FALSE
  /\ stage = "guard" /\ sent = <<>> /\ wire = <<>> /\ delivered = 0

-----------------------------------------------------------------------------
\* GuardMiddleware.dispatch: the rules in the order they are tried.
LengthRefused ==
  \/ request.length = "garbled"
  \/ request.length = "number" /\ Total(request.body) > MaxBytes

OriginRefused == request.unsafe /\ request.foreign

HasBody == request.length = "chunked" \/ request.body # <<>>
TypeRefused ==
  /\ request.unsafe /\ request.api
  /\ request.ctype # "absent" \/ HasBody
  /\ request.ctype # "json"

Verdicts ==
  IF LengthRefused THEN {"413"}
  ELSE IF OriginRefused THEN {"403"}
  ELSE IF TypeRefused THEN {"415"}
  ELSE IF request.api THEN {"429", "pass"}     \* hit on API_PER_IP
  ELSE {"pass"}

\* A refusal is answered without reading the body.
Refuse(status) ==
  /\ stage = "guard" /\ status \in Verdicts \ {"pass"}
  /\ started' = TRUE
  /\ sent' = Answer(status) /\ wire' = Answer(status)
  /\ stage' = "returned"
  /\ UNCHANGED <<request, unread, received, exceeded, delivered>>

CallNext ==
  /\ stage = "guard" /\ "pass" \in Verdicts
  /\ stage' = "app"
  /\ UNCHANGED <<request, unread, received, exceeded, started, sent, wire, delivered>>

-----------------------------------------------------------------------------
\* limited_receive, when the bytes counted by `count` are over the cap or not.
ReceiveCounting(count) ==
  /\ stage = "app" /\ unread # <<>>
  /\ unread' = Tail(unread)
  /\ received' = count
  /\ IF count > MaxBytes
     THEN exceeded' = TRUE /\ UNCHANGED delivered       \* raises into the reader
     ELSE delivered' = delivered + Head(unread) /\ UNCHANGED exceeded
  /\ UNCHANGED <<request, started, stage, sent, wire>>

\* Mutant of Receive: each chunk is compared with the cap on its own.
ReceivePerChunk == ReceiveCounting(Head(unread))

\* limited_receive: whoever reads, the bytes are added up.
Receive == ReceiveCounting(received + Head(unread))

\* Mutant of SendStart: once the cap is crossed, nothing at all is let through.
SendStartSilenced ==
  /\ stage = "app" /\ sent = <<>>
  /\ sent' = <<Start("by the app")>>
  /\ IF exceeded
     THEN UNCHANGED <<started, wire>>
     ELSE started' = TRUE /\ wire' = wire \o sent'
  /\ UNCHANGED <<request, unread, received, exceeded, stage, delivered>>

\* tracking_send of the response start.  Over the cap the 413 takes its place,
\* whatever the application made of the error.
SendStart ==
  /\ stage = "app" /\ sent = <<>>
  /\ sent' = <<Start("by the app")>>
  /\ started' = TRUE
  /\ wire' = IF ~ exceeded THEN wire \o sent' ELSE IF started THEN wire ELSE wire \o TooLarge
  /\ UNCHANGED <<request, unread, received, exceeded, stage, delivered>>

\* tracking_send of a part of the response body, dropped over the cap.
SendBody ==
  /\ stage = "app" /\ sent # <<>> /\ Len(sent) <= MaxParts
  /\ sent' = Append(sent, Part)
  /\ wire' = IF exceeded THEN wire ELSE Append(wire, Part)
  /\ UNCHANGED <<request, unread, received, exceeded, started, stage, delivered>>

Return ==
  /\ stage = "app" /\ Len(sent) > 1
  /\ stage' = "returned"
  /\ UNCHANGED <<request, unread, received, exceeded, started, sent, wire, delivered>>

\* Mutant of Raise: the refusal is sent although the response has begun.
RaiseAnswered ==
  /\ stage = "app"
  /\ IF exceeded
     THEN started' = TRUE /\ wire' = wire \o TooLarge /\ stage' = "returned"
     ELSE stage' = "raised" /\ UNCHANGED <<started, wire>>
  /\ UNCHANGED <<request, unread, received, exceeded, sent, delivered>>

\* An exception leaves the application.  Over the cap, whatever it is, it ends
\* here: with the 413 if nothing has left yet, otherwise the response stays as
\* it is.  Within the cap the server sees it.
Raise ==
  /\ stage = "app"
  /\ IF exceeded
     THEN /\ started' = TRUE
          /\ wire' = IF started THEN wire ELSE wire \o TooLarge
          /\ stage' = "returned"
     ELSE stage' = "raised" /\ UNCHANGED <<started, wire>>
  /\ UNCHANGED <<request, unread, received, exceeded, sent, delivered>>

Next ==
  \/ \E status \in {"413", "403", "415", "429"} : Refuse(status)
  \/ CallNext
  \/ Receive \/ SendStart \/ SendBody
  \/ Return \/ Raise

Spec == Init /\ [][Next]_vars

-----------------------------------------------------------------------------
Starts(messages) == {i \in DOMAIN messages : messages[i].kind = "start"}

\* However reads, answers and errors follow one another, the server gets one
\* response: a single start, first, and a 413 of the cap whole and on its own.
OneResponse ==
  /\ Starts(wire) \subseteq {1}
  /\ wire # <<>> => 1 \in Starts(wire)
  /\ wire # <<>> /\ wire[1] = TooLarge[1] => wire = TooLarge

\* Until more than the cap has been read, the cap changes nothing: the server gets
\* every message as it was sent and sees the application's own errors.  The body
\* that reaches the application is never longer than the cap.
CapIsTransparent ==
  /\ received <= MaxBytes => wire = sent /\ delivered = received
  /\ delivered <= MaxBytes

\* A conversation over the cap is answered: with the 413, or, when the response
\* had begun before the cap was crossed, with what was sent until then.
OversizedIsAnswered ==
  received > MaxBytes /\ stage = "returned" =>
    \/ wire = TooLarge
    \/ wire # <<>> /\ wire = SubSeq(sent, 1, Len(wire))
=============================================================================
