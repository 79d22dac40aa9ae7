----------------------------- MODULE BodyLimit -----------------------------
(***************************************************************************)
(* RequestBodyLimitMiddleware of app/api.py: one HTTP request between a    *)
(* client and the application.  The middleware reads the body to its end,  *)
(* counting, and then replays it to the application as one event.  The     *)
(* client sends, stops and disconnects as it likes, while the middleware   *)
(* reads and while the application works; its content-length header may    *)
(* be missing, no number, or wrong.                                        *)
(*                                                                         *)
(* The ASGI server is external: receive() waits for something to report,   *)
(* then gives any part of the bytes that have arrived, or the disconnect.  *)
(***************************************************************************)
EXTENDS Integers, Sequences

CONSTANTS
  Byte,        \* the values of a byte
  Chunk,       \* what a client may send at once
  Declared,    \* the numbers a content-length header may hold
  Limit,       \* REQUEST_LIMIT_BYTES
  MaxSent,     \* bound on the bytes a client sends
  MaxReceives, \* bound on the application's calls of receive()
  Null

ASSUME BodyAssumption ==
  /\ Chunk \subseteq Seq(Byte) /\ Declared \subseteq Int
  /\ Limit \in Nat /\ MaxSent \in Nat /\ MaxReceives \in Nat
  /\ Null \notin Int

VARIABLES
  client,    \* "sending", "complete" or "gone"
  sent,      \* history: every byte the client has sent
  pending,   \* the bytes that have arrived and have not been received
  place,     \* where the middleware is
  declared,  \* the content-length: a number, or Null (none, or not a number)
  body,      \* the chunks received so far, joined
  seen,      \* the events the application has received
  answer     \* who has answered: "none", "413" or "application"

bodyVars == <<client, sent, pending, place, declared, body, seen, answer>>

Event == [type : {"request"}, body : Seq(Byte)] \cup [type : {"disconnect"}]
Disconnect == [type |-> "disconnect"]
-----------------------------------------------------------------------------
(* The client, and the server that buffers for it.                         *)

Send(c) == /\ client = "sending" /\ Len(sent) + Len(c) <= MaxSent
           /\ sent' = sent \o c /\ pending' = pending \o c
           /\ UNCHANGED <<client, place, declared, body, seen, answer>>

Finish == /\ client = "sending" /\ client' = "complete"
          /\ UNCHANGED <<sent, pending, place, declared, body, seen, answer>>

Leave == /\ client # "gone" /\ client' = "gone"
         /\ UNCHANGED <<sent, pending, place, declared, body, seen, answer>>

(* receive() has n bytes to report; none at all, only to end the body.     *)
Reports(n) == /\ client # "gone" /\ n \in 0 .. Len(pending)
              /\ n = 0 => pending = <<>> /\ client = "complete"

More(n) == client = "sending" \/ n < Len(pending)
-----------------------------------------------------------------------------
(* The middleware: __call__.                                               *)

(* Mutant of Exceeds: the limit itself is refused.                         *)
Reaches(n) == n >= Limit

Exceeds(n) == n > Limit

Refuse == place' = "refused" /\ answer' = "413"

CheckHeader ==
  /\ place = "headers"
  /\ IF declared # Null /\ Exceeds(declared)
     THEN Refuse
     ELSE place' = "reading" /\ UNCHANGED answer
  /\ UNCHANGED <<client, sent, pending, declared, body, seen>>

(* Mutant of TooLong: a declared length is believed.                       *)
TooLongIfUndeclared(total) == declared = Null /\ Exceeds(total)

TooLong(total) == Exceeds(total)

(* Mutant of Receive: what comes first is taken for the whole body.        *)
ReceiveOnce ==
  /\ place = "reading"
  /\ \E n \in 0 .. Len(pending) :
       /\ Reports(n)
       /\ pending' = SubSeq(pending, n + 1, Len(pending))
       /\ IF TooLong(Len(body) + n)
          THEN Refuse /\ UNCHANGED body
          ELSE /\ body' = body \o SubSeq(pending, 1, n)
               /\ place' = "replay"
               /\ UNCHANGED answer
  /\ UNCHANGED <<client, sent, declared, seen>>

Receive ==
  /\ place = "reading"
  /\ \E n \in 0 .. Len(pending) :
       /\ Reports(n)
       /\ pending' = SubSeq(pending, n + 1, Len(pending))
       /\ IF TooLong(Len(body) + n)
          THEN Refuse /\ UNCHANGED body
          ELSE /\ body' = body \o SubSeq(pending, 1, n)
               /\ place' = IF More(n) THEN "reading" ELSE "replay"
               /\ UNCHANGED answer
  /\ UNCHANGED <<client, sent, declared, seen>>

(* Mutant of ReceiveDisconnect: it is one of the events that are skipped.  *)
SkipDisconnect == place = "reading" /\ client = "gone" /\ UNCHANGED bodyVars

ReceiveDisconnect ==
  /\ place = "reading" /\ client = "gone"
  /\ place' = "disconnected"
  /\ UNCHANGED <<client, sent, pending, declared, body, seen, answer>>
-----------------------------------------------------------------------------
(* The application, and what its receive() gives it: replay_once, or       *)
(* disconnected_receive.                                                   *)

Replay == IF place = "replay" /\ seen = <<>>
          THEN [type |-> "request", body |-> body]
          ELSE Disconnect

Called == place \in {"replay", "disconnected"} /\ answer = "none"

ApplicationReceives == /\ Called /\ Len(seen) < MaxReceives
                       /\ seen' = Append(seen, Replay)
                       /\ UNCHANGED <<client, sent, pending, place, declared,
                                      body, answer>>

ApplicationAnswers == /\ Called /\ answer' = "application"
                      /\ UNCHANGED <<client, sent, pending, place, declared,
                                     body, seen>>
-----------------------------------------------------------------------------
BodyInit == /\ client = "sending" /\ sent = <<>> /\ pending = <<>>
            /\ place = "headers" /\ declared \in Declared \cup {Null}
            /\ body = <<>> /\ seen = <<>> /\ answer = "none"

Middleware == CheckHeader \/ Receive \/ ReceiveDisconnect

BodyNext == \/ \E c \in Chunk : Send(c)
            \/ Finish \/ Leave
            \/ Middleware \/ ApplicationReceives \/ ApplicationAnswers

BodySpec == BodyInit /\ [][BodyNext]_bodyVars

(* The event loop runs the middleware when there is something to receive,  *)
(* and the application answers.  The client owes nothing.                  *)
FairBody == BodySpec /\ WF_bodyVars(Middleware) /\ WF_bodyVars(ApplicationAnswers)
-----------------------------------------------------------------------------
(* The request, its buffers and the application's events are of their kind.*)
BodyTypeOK ==
  /\ client \in {"sending", "complete", "gone"}
  /\ sent \in Seq(Byte) /\ pending \in Seq(Byte) /\ body \in Seq(Byte)
  /\ place \in {"headers", "reading", "replay", "disconnected", "refused"}
  /\ declared \in Declared \cup {Null}
  /\ seen \in Seq(Event)
  /\ answer \in {"none", "413", "application"}

(* However much a client sends, in however many chunks and whatever it     *)
(* declares, no more than the limit is kept of it.                         *)
BufferBounded == Len(body) <= Limit

(* The application reads what the client sent: all of it, nothing else,    *)
(* only when the client had ended it, and only once, as the comment of the *)
(* class says; every other event is a disconnect.                          *)
WholeBody ==
  \A i \in DOMAIN seen :
    seen[i].type = "request" =>
      /\ seen[i].body = sent
      /\ client # "sending" /\ Len(sent) <= Limit
      /\ \A j \in DOMAIN seen : seen[j].type = "request" => j = i

(* A request is refused only if the client declared, or sent, too much;    *)
(* the application then has not been called, and no task was created.      *)
RefusalsAreJust ==
  answer = "413" =>
    /\ seen = <<>>
    /\ Len(sent) > Limit \/ (declared # Null /\ declared > Limit)
-----------------------------------------------------------------------------
(* What the invariants above need to be inductive: nothing of what was     *)
(* sent is lost, or reordered, on its way into body.                       *)
Accounted ==
  /\ place \in {"headers", "reading", "replay"} => sent = body \o pending
  /\ place = "replay" => client # "sending" /\ pending = <<>>

(* The application is called only when the middleware has done with it,    *)
(* and is given the body first, or never.                                  *)
Replayed ==
  /\ place \in {"headers", "reading", "refused"} => seen = <<>>
  /\ \A i \in DOMAIN seen :
       seen[i] = IF place = "replay" /\ i = 1 THEN [type |-> "request", body |-> body]
                                              ELSE Disconnect
  /\ answer = "413" <=> place = "refused"
  /\ answer = "application" => place \in {"replay", "disconnected"}

(* The inductive invariant of a request.                                   *)
BodyIInv == /\ BodyTypeOK /\ BufferBounded /\ RefusalsAreJust
            /\ Accounted /\ Replayed
-----------------------------------------------------------------------------
(* A request that its client ends, leaves, or overfills is answered.       *)
EveryRequestEnds ==
  (client # "sending" \/ Len(sent) > Limit) ~> answer # "none"
=============================================================================
