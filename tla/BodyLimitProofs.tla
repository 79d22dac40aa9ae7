-------------------------- MODULE BodyLimitProofs --------------------------
(***************************************************************************)
(* What the request body limit keeps to, for every limit, every way to cut *)
(* a body into chunks and every content-length.                            *)
(***************************************************************************)
EXTENDS BodyLimit, SequenceTheorems, TLAPS

LEMMA Associative ==
  \A S : \A s, t, u \in Seq(S) : (s \o t) \o u = s \o (t \o u)
BY ConcatAssociative

(* To receive a part of what has arrived loses and reorders nothing.       *)
LEMMA TakeAndRest ==
  \A p, b \in Seq(Byte) : \A n \in 0 .. Len(p) :
    /\ SubSeq(p, 1, n) \in Seq(Byte) /\ Len(SubSeq(p, 1, n)) = n
    /\ SubSeq(p, n + 1, Len(p)) \in Seq(Byte)
    /\ n = Len(p) => SubSeq(p, n + 1, Len(p)) = <<>>
    /\ b \o p = (b \o SubSeq(p, 1, n)) \o SubSeq(p, n + 1, Len(p))
<1> TAKE p, b \in Seq(Byte)
<1> TAKE n \in 0 .. Len(p)
<1> DEFINE part == SubSeq(p, 1, n)
           rest == SubSeq(p, n + 1, Len(p))
<1>0. Len(p) \in Nat /\ n \in Nat /\ \A i \in 1 .. Len(p) : p[i] \in Byte
  BY LenProperties, ElementOfSeq
<1>1. part \in Seq(Byte) /\ Len(part) = n /\ \A i \in 1 .. n : part[i] = p[i]
  <2>1. \A i \in 1 .. n : p[i] \in Byte
    BY <1>0
  <2>2. 1 \in Int /\ n \in Int
    BY <1>0
  <2> HIDE DEF part
  <2>3. /\ part \in Seq(Byte)
        /\ Len(part) = IF 1 <= n THEN n - 1 + 1 ELSE 0
        /\ \A i \in 1 .. n - 1 + 1 : part[i] = p[1 + i - 1]
    BY <2>1, <2>2, SubSeqProperties DEF part
  <2> QED BY <2>3, <1>0
<1>2. /\ rest \in Seq(Byte) /\ Len(rest) = Len(p) - n
      /\ \A i \in 1 .. Len(p) - n : rest[i] = p[n + i]
  <2>1. \A i \in n + 1 .. Len(p) : p[i] \in Byte
    BY <1>0
  <2>2. n + 1 \in Int /\ Len(p) \in Int
    BY <1>0
  <2> HIDE DEF rest
  <2>3. /\ rest \in Seq(Byte)
        /\ Len(rest) = IF n + 1 <= Len(p) THEN Len(p) - (n + 1) + 1 ELSE 0
        /\ \A i \in 1 .. Len(p) - (n + 1) + 1 : rest[i] = p[n + 1 + i - 1]
    BY <2>1, <2>2, SubSeqProperties DEF rest
  <2> QED BY <2>3, <1>0
<1> HIDE DEF part, rest
<1>3. n = Len(p) => rest = <<>>
  BY <1>2, <1>0, EmptySeq
<1>4. p = part \o rest
  <2>1. /\ part \o rest \in Seq(Byte) /\ Len(part \o rest) = Len(part) + Len(rest)
        /\ \A i \in 1 .. Len(part) + Len(rest) :
             (part \o rest)[i] = IF i <= Len(part) THEN part[i] ELSE rest[i - Len(part)]
    BY <1>1, <1>2, ConcatProperties
  <2>2. Len(p) = Len(part \o rest)
    BY <2>1, <1>0, <1>1, <1>2
  <2>3. \A i \in 1 .. Len(p) : p[i] = (part \o rest)[i]
    BY <2>1, <1>0, <1>1, <1>2
  <2> QED BY <2>1, <2>2, <2>3, SeqEqual
<1>5. b \o p = (b \o part) \o rest
  <2>1. (b \o part) \o rest = b \o (part \o rest)
    BY <1>1, <1>2, Associative
  <2> QED BY <2>1, <1>4
<1> QED BY <1>1, <1>2, <1>3, <1>5 DEF part, rest
-----------------------------------------------------------------------------
LEMMA BodyInitially == BodyInit => BodyIInv
<1> SUFFICES ASSUME BodyInit PROVE BodyIInv
  OBVIOUS
<1>1. <<>> \in Seq(Byte) /\ <<>> \in Seq(Event) /\ Len(<<>>) = 0
  BY EmptySeq
<1>2. BodyTypeOK
  BY <1>1 DEF BodyInit, BodyTypeOK
<1>3. BufferBounded
  BY <1>1, BodyAssumption DEF BodyInit, BufferBounded
<1>4. <<>> = <<>> \o <<>>
  BY <1>1, ConcatEmptySeq
<1> QED BY <1>2, <1>3, <1>4 DEF BodyInit, BodyIInv, RefusalsAreJust, Accounted, Replayed

(* The bytes the client sends go to the end of what has arrived.           *)
LEMMA SendKeeps ==
  ASSUME BodyIInv, NEW c \in Chunk, Send(c) PROVE BodyIInv'
<1>1. c \in Seq(Byte) /\ sent \in Seq(Byte) /\ pending \in Seq(Byte) /\ body \in Seq(Byte)
  BY BodyAssumption DEF BodyIInv, BodyTypeOK
<1>2. /\ sent \o c \in Seq(Byte) /\ pending \o c \in Seq(Byte)
      /\ Len(sent \o c) = Len(sent) + Len(c)
      /\ Len(c) \in Nat /\ Len(sent) \in Nat
  BY <1>1, ConcatProperties, LenProperties
<1>3. (body \o pending) \o c = body \o (pending \o c)
  BY <1>1, Associative
<1> USE DEF BodyIInv, Send
<1>4. BodyTypeOK'
  BY <1>2 DEF BodyTypeOK
<1>5. BufferBounded'
  BY DEF BufferBounded
<1>6. RefusalsAreJust'
  BY <1>2, BodyAssumption DEF RefusalsAreJust
<1>7. Accounted'
  BY <1>3 DEF Accounted
<1>8. Replayed'
  BY DEF Replayed
<1> QED BY <1>4, <1>5, <1>6, <1>7, <1>8

LEMMA CheckHeaderKeeps ==
  ASSUME BodyIInv, CheckHeader PROVE BodyIInv'
<1> USE DEF BodyIInv, CheckHeader, Refuse, Exceeds
<1>1. BodyTypeOK'
  BY DEF BodyTypeOK
<1>2. BufferBounded'
  BY DEF BufferBounded
<1>3. RefusalsAreJust' /\ Replayed'
  BY DEF RefusalsAreJust, Replayed
<1>4. Accounted'
  BY DEF Accounted
<1> QED BY <1>1, <1>2, <1>3, <1>4

LEMMA ReceiveKeeps ==
  ASSUME BodyIInv, Receive PROVE BodyIInv'
<1>1. PICK n \in 0 .. Len(pending) :
        /\ Reports(n)
        /\ pending' = SubSeq(pending, n + 1, Len(pending))
        /\ IF TooLong(Len(body) + n)
           THEN Refuse /\ UNCHANGED body
           ELSE /\ body' = body \o SubSeq(pending, 1, n)
                /\ place' = IF More(n) THEN "reading" ELSE "replay"
                /\ UNCHANGED answer
  BY DEF Receive
<1>2. /\ place = "reading" /\ answer = "none" /\ seen = <<>>
      /\ UNCHANGED <<client, sent, declared, seen>>
  BY DEF Receive, BodyIInv, Replayed, BodyTypeOK
<1>3. /\ sent \in Seq(Byte) /\ pending \in Seq(Byte) /\ body \in Seq(Byte)
      /\ sent = body \o pending
  BY <1>2 DEF BodyIInv, BodyTypeOK, Accounted
<1> DEFINE part == SubSeq(pending, 1, n)
<1>4. /\ part \in Seq(Byte) /\ pending' \in Seq(Byte) /\ Len(part) = n
      /\ n = Len(pending) => pending' = <<>>
      /\ sent = (body \o part) \o pending'
  <2>1. /\ SubSeq(pending, 1, n) \in Seq(Byte) /\ Len(SubSeq(pending, 1, n)) = n
        /\ SubSeq(pending, n + 1, Len(pending)) \in Seq(Byte)
        /\ n = Len(pending) => SubSeq(pending, n + 1, Len(pending)) = <<>>
        /\ body \o pending = (body \o SubSeq(pending, 1, n))
                                \o SubSeq(pending, n + 1, Len(pending))
    <3> HIDE <1>1, <1>2
    <3> QED BY <1>3, TakeAndRest, Zenon
  <2>2. pending' = SubSeq(pending, n + 1, Len(pending))
    BY <1>1
  <2> QED BY <2>1, <2>2, <1>3
<1> HIDE DEF part
<1> USE DEF BodyIInv
<1>5. /\ Len(body) \in Nat /\ Len(pending) \in Nat /\ n \in Nat
      /\ Len(sent) = Len(body) + Len(pending)
      /\ body \o part \in Seq(Byte) /\ Len(body \o part) = Len(body) + n
  BY <1>3, <1>4, ConcatProperties, LenProperties
<1>6. CASE TooLong(Len(body) + n)
  <2>1. place' = "refused" /\ answer' = "413" /\ body' = body
    BY <1>1, <1>6 DEF Refuse
  <2>2. Len(sent) > Limit
    BY <1>5, <1>6, <1>1, BodyAssumption DEF TooLong, Exceeds
  <2>3. BodyTypeOK'
    BY <1>2, <1>3, <1>4, <2>1 DEF BodyTypeOK
  <2>4. BufferBounded' /\ RefusalsAreJust' /\ Accounted' /\ Replayed'
    BY <1>2, <2>1, <2>2 DEF BufferBounded, RefusalsAreJust, Accounted, Replayed
  <2> QED BY <2>3, <2>4
<1>7. CASE ~TooLong(Len(body) + n)
  <2>1. /\ body' = body \o part /\ answer' = "none"
        /\ place' = IF More(n) THEN "reading" ELSE "replay"
    BY <1>1, <1>2, <1>7 DEF part
  <2>2. BodyTypeOK'
    BY <1>2, <1>3, <1>4, <1>5, <2>1 DEF BodyTypeOK
  <2>3. BufferBounded'
    BY <1>5, <1>7, <2>1, BodyAssumption DEF BufferBounded, TooLong, Exceeds
  <2>4. RefusalsAreJust'
    BY <2>1 DEF RefusalsAreJust
  <2>5. place' = "replay" => client' # "sending" /\ pending' = <<>>
    <3>1. ~More(n) => client # "sending" /\ n = Len(pending)
      BY <1>1, <1>5 DEF More
    <3> QED BY <3>1, <2>1, <1>2, <1>4
  <2>6. Accounted'
    BY <1>2, <1>4, <2>1, <2>5 DEF Accounted
  <2>7. Replayed'
    BY <1>2, <2>1 DEF Replayed
  <2> QED BY <2>2, <2>3, <2>4, <2>6, <2>7
<1> QED BY <1>6, <1>7

LEMMA ApplicationReceivesKeeps ==
  ASSUME BodyIInv, ApplicationReceives PROVE BodyIInv'
<1> USE DEF BodyIInv, ApplicationReceives
<1>1. seen \in Seq(Event) /\ body \in Seq(Byte)
  BY DEF BodyTypeOK
<1>2. Replay \in Event
  BY <1>1 DEF Replay, Event, Disconnect
<1>3. /\ seen' \in Seq(Event) /\ Len(seen) \in Nat /\ Len(seen') = Len(seen) + 1
      /\ \A i \in 1 .. Len(seen') : seen'[i] = IF i <= Len(seen) THEN seen[i] ELSE Replay
      /\ DOMAIN seen = 1 .. Len(seen) /\ DOMAIN seen' = 1 .. Len(seen')
  BY <1>1, <1>2, AppendProperties, LenProperties
<1>4. BodyTypeOK'
  BY <1>3 DEF BodyTypeOK
<1>5. BufferBounded' /\ Accounted'
  BY DEF BufferBounded, Accounted
<1>6. RefusalsAreJust'
  BY DEF RefusalsAreJust, Called
<1>7. Replayed'
  <2>1. seen = <<>> <=> Len(seen) = 0
    BY <1>1, EmptySeq
  <2>2. place \in {"replay", "disconnected"} /\ answer = "none"
    BY DEF Called
  <2>3. ASSUME NEW i \in DOMAIN seen'
        PROVE  seen'[i] = IF place = "replay" /\ i = 1
                          THEN [type |-> "request", body |-> body] ELSE Disconnect
    <3>1. CASE i <= Len(seen)
      BY <3>1, <1>3 DEF Replayed
    <3>2. CASE i = Len(seen) + 1
      BY <3>2, <1>3, <2>1 DEF Replay
    <3> QED BY <3>1, <3>2, <1>3
  <2> QED BY <2>2, <2>3 DEF Replayed
<1> QED BY <1>4, <1>5, <1>6, <1>7

LEMMA BodyStep == BodyIInv /\ [BodyNext]_bodyVars => BodyIInv'
<1> SUFFICES ASSUME BodyIInv, [BodyNext]_bodyVars PROVE BodyIInv'
  OBVIOUS
<1>1. ASSUME NEW c \in Chunk, Send(c) PROVE BodyIInv'
  BY <1>1, SendKeeps
<1>2. CASE Finish
  BY <1>2 DEF Finish, BodyIInv, BodyTypeOK, BufferBounded, RefusalsAreJust, Accounted, Replayed
<1>3. CASE Leave
  BY <1>3 DEF Leave, BodyIInv, BodyTypeOK, BufferBounded, RefusalsAreJust, Accounted, Replayed
<1>4. CASE CheckHeader
  BY <1>4, CheckHeaderKeeps
<1>5. CASE Receive
  BY <1>5, ReceiveKeeps
<1>6. CASE ReceiveDisconnect
  <2> USE <1>6 DEF ReceiveDisconnect, BodyIInv
  <2>1. seen = <<>> /\ answer # "413" /\ answer # "application"
    BY DEF Replayed
  <2> QED BY <2>1 DEF BodyTypeOK, BufferBounded, RefusalsAreJust, Accounted, Replayed
<1>7. CASE ApplicationReceives
  BY <1>7, ApplicationReceivesKeeps
<1>8. CASE ApplicationAnswers
  BY <1>8 DEF ApplicationAnswers, Called, BodyIInv, BodyTypeOK, BufferBounded,
              RefusalsAreJust, Accounted, Replayed
<1>9. CASE UNCHANGED bodyVars
  BY <1>9 DEF bodyVars, BodyIInv, BodyTypeOK, BufferBounded, RefusalsAreJust,
              Accounted, Replayed
<1> QED BY <1>1, <1>2, <1>3, <1>4, <1>5, <1>6, <1>7, <1>8, <1>9 DEF BodyNext, Middleware

(* The inductive invariant holds of every request.                         *)
THEOREM BodyInvariant == BodySpec => []BodyIInv
<1>1. BodyInit => BodyIInv
  BY BodyInitially
<1>2. BodyIInv /\ [BodyNext]_bodyVars => BodyIInv'
  BY BodyStep
<1> QED BY <1>1, <1>2, PTL DEF BodySpec

(* No more than the limit is ever kept of a body.                          *)
THEOREM BuffersAreBounded == BodySpec => []BufferBounded
<1>1. BodyIInv => BufferBounded
  BY DEF BodyIInv
<1> QED BY <1>1, BodyInvariant, PTL

(* A request is refused only for what its client declared or sent.         *)
THEOREM RefusalsAreJustified == BodySpec => []RefusalsAreJust
<1>1. BodyIInv => RefusalsAreJust
  BY DEF BodyIInv
<1> QED BY <1>1, BodyInvariant, PTL

(* What the application reads is the whole body, within the limit, and it  *)
(* reads it once.                                                          *)
THEOREM BodiesAreWhole == BodySpec => []WholeBody
<1>1. BodyIInv => WholeBody
  <2> SUFFICES ASSUME BodyIInv, NEW i \in DOMAIN seen, seen[i].type = "request"
               PROVE  /\ seen[i].body = sent
                      /\ client # "sending" /\ Len(sent) <= Limit
                      /\ \A j \in DOMAIN seen : seen[j].type = "request" => j = i
    BY DEF WholeBody
  <2>1. place = "replay" /\ seen[i].body = body
    BY DEF BodyIInv, Replayed, Disconnect
  <2>2. sent = body \o <<>> /\ client # "sending"
    BY <2>1 DEF BodyIInv, Accounted
  <2>3. sent = body
    BY <2>2, ConcatEmptySeq DEF BodyIInv, BodyTypeOK
  <2>4. \A j \in DOMAIN seen : seen[j].type = "request" => j = i
    BY DEF BodyIInv, Replayed, Disconnect
  <2> QED BY <2>1, <2>2, <2>3, <2>4 DEF BodyIInv, BufferBounded
<1> QED BY <1>1, BodyInvariant, PTL
=============================================================================
