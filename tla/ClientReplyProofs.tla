-------------------------- MODULE ClientReplyProofs --------------------------
(***************************************************************************)
(* Machine-checked theorems about what MicroAirClient hands to its caller: *)
(* replies that are whole, a write state that is true, a link that is      *)
(* clean before the next command, and all of it an implementation of       *)
(* TransportContract.  They rest on an invariant of what may be on its way *)
(* over the link of the current transaction.                               *)
(***************************************************************************)
EXTENDS MicroAirClientProofs, SequenceTheorems

-------------------------------------------------------------------------------
(* The inductive invariant                                                  *)

\* Nothing is on its way over link g, in either direction.
Quiet(g) ==
  /\ \A p \in uplink : p.link # g
  /\ g \in Gens => air[g] = <<>>

\* Links, handles and what is in flight belong to generations already begun, and
\* the handle is that of the current one.
Numbered ==
  /\ handle # NoLink => handle = generation
  /\ closing # NoLink => closing < generation
  /\ \A g \in links \cup lost : g <= generation
  /\ links \cap lost = {}
  /\ \A p \in uplink : p.link \in links
  /\ \A g \in Gens : g > generation => air[g] = <<>>

\* The fields of _run are set exactly while a command runs.
Running ==
  /\ stage \in {"command", "draining"} => gwrite # "none" /\ pending # "none"
  /\ stage \notin {"command", "draining"} =>
       gwrite = "none" /\ pending = "none" /\ command = NoCommand /\ ~guarded
  /\ guarded => command = "ReadEEP"

\* Before a command, and once it has its answer, a poisoned client lost its link.
Honest ==
  (stage \in {"settling", "ready"} \/ (stage = "command" /\ pending = "ok")) =>
    (poisoned => handle \notin links)

\* What is left of an accepted reply of n frames once k of them are off the air.
Remaining(n, k) ==
  [i \in 1..(n - k) + 1 |-> IF i <= n - k THEN Frame(k + i, n) ELSE Envelope("ok")]

\* What the buffer may hold by then: never more than left the air, and if nothing
\* was dropped exactly the first k frames.
Collected(n, k) ==
  /\ Len(buffer) <= k
  /\ \A i \in 1..Len(buffer) : buffer[i].size = n
  /\ Len(buffer) = k => \A i \in 1..k : buffer[i] = Frame(i, n)

\* The payload of the command in flight.
Asked == [link |-> generation, op |-> command, current |-> TRUE]

\* It is alone on its way to the device, which has said nothing yet.
Waiting ==
  /\ Asked \in uplink
  /\ \A p \in uplink : p.link = generation => p = Asked
  /\ air[generation] = <<>>
  /\ buffer = <<>>

\* The device has received it, and its answer is on the way.
Answered == \A p \in uplink : p.link # generation
Refusing == Answered /\ air[generation] = <<Envelope("fail")>>
ReplyingFrom(n, k) ==
  /\ Answered
  /\ air[generation] = Remaining(n, k)
  /\ command = "ReadLive" => n = 1
  /\ pending = "open" => Collected(n, k)
Replying == \E n \in Nat : \E k \in 0..n : ReplyingFrom(n, k)

\* One question, one answer: what the current link carries at any time.
Exchange ==
  /\ gwrite \in {"none", "created", "sending"} =>
       Quiet(generation) /\ buffer = <<>> /\ pending \notin {"ok", "refused"}
  /\ gwrite \in {"sent", "done", "error"} =>
       Waiting \/ Refusing \/ Replying \/ Quiet(generation)
  /\ pending \in {"ok", "refused"} => Quiet(generation)

\* No payload of the last write_* call is on its way to the device.
NoWrite == \A p \in uplink : ~(p.op = "Write" /\ p.current)

\* What write_state and the answers in flight say of that payload.
Outcome ==
  /\ write_state = "not_attempted" => parameter = "unsent" /\ NoWrite
  /\ write_state = "acknowledged" => parameter = "accepted" /\ NoWrite
  /\ guarded => write_state = "not_attempted"
  /\ command = "Write" =>
       /\ (gwrite = "created") <=> (write_state = "not_attempted")
       /\ gwrite = "sending" => NoWrite /\ write_state = "attempted"
       /\ \A p \in uplink : p.op = "Write" /\ p.current => p.link = generation
       /\ air[generation] # <<>> =>
            parameter = IF Head(air[generation]).kind = "fail" THEN "refused"
                                                               ELSE "accepted"
       /\ pending = "refused" => parameter = "refused"

ReplyInv == Numbered /\ Running /\ Honest /\ Exchange /\ Outcome /\ ReplyIntegrity

-------------------------------------------------------------------------------
(* Replies                                                                  *)

\* A reply on the air is never empty; its head is the next frame, or the envelope
\* behind the last one.
LEMMA RemainingHead ==
  ASSUME NEW n \in Nat, NEW k \in 0..n
  PROVE  /\ Remaining(n, k) \in Seq(Notes)
         /\ Len(Remaining(n, k)) = (n - k) + 1
         /\ Remaining(n, k) # <<>>
         /\ Head(Remaining(n, k)) = IF k < n THEN Frame(k + 1, n) ELSE Envelope("ok")
<1>1. /\ (n - k) + 1 \in Nat
      /\ \A i \in 1..(n - k) + 1 :
           (IF i <= n - k THEN Frame(k + i, n) ELSE Envelope("ok")) \in Notes
  BY DEF Frame, Envelope, Notes
<1>2. Remaining(n, k) \in Seq(Notes) /\ Len(Remaining(n, k)) = (n - k) + 1
  BY <1>1 DEF Remaining
<1>3. Remaining(n, k)[1] = IF k < n THEN Frame(k + 1, n) ELSE Envelope("ok")
  BY DEF Remaining
<1> QED
  BY <1>2, <1>3

\* Taking the head leaves the reply with one frame less, or nothing.
LEMMA RemainingTail ==
  ASSUME NEW n \in Nat, NEW k \in 0..n
  PROVE  Tail(Remaining(n, k)) = IF k < n THEN Remaining(n, k + 1) ELSE <<>>
<1> DEFINE s == Remaining(n, k)
<1>1. s \in Seq(Notes) /\ s # <<>> /\ Len(s) = (n - k) + 1
  BY RemainingHead
<1>2. CASE k < n
  <2> DEFINE r == Remaining(n, k + 1)
  <2>1. r \in Seq(Notes) /\ Len(r) = n - k
    <3>1. k + 1 \in 0..n /\ (n - (k + 1)) + 1 = n - k
      BY <1>2
    <3> QED
      BY <3>1, RemainingHead
  <2>2. \A i \in 1..n - k : s[i + 1] = r[i]
    BY <1>2 DEF Remaining
  <2> HIDE DEF s, r
  <2>3. /\ Len(Tail(s)) = n - k /\ Tail(s) \in Seq(Notes)
        /\ \A i \in 1..n - k : Tail(s)[i] = s[i + 1]
    BY <1>1, HeadTailProperties
  <2>4. Tail(s) = r
    BY <2>1, <2>2, <2>3, SeqEqual
  <2> QED
    BY <1>2, <2>4 DEF s, r
<1>3. CASE ~(k < n)
  <2> HIDE DEF s
  <2>1. Len(Tail(s)) = 0 /\ Tail(s) \in Seq(Notes)
    <3>1. Len(s) = 1
      BY <1>1, <1>3
    <3> QED
      BY <1>1, <3>1, HeadTailProperties
  <2>2. Tail(s) = <<>>
    BY <2>1, EmptySeq
  <2> QED
    BY <1>3, <2>2 DEF s
<1> QED
  BY <1>2, <1>3

\* What is sent for the current command is current already.
LEMMA MarkCurrent ==
  ASSUME NEW s \in Seq(Notes), \A i \in 1..Len(s) : s[i].current = TRUE
  PROVE  Mark(s, TRUE) = s
<1>1. \A note \in Notes : note.current = TRUE => [note EXCEPT !.current = TRUE] = note
  BY DEF Notes
<1>2. /\ DOMAIN s = 1..Len(s) /\ \A i \in 1..Len(s) : s[i] \in Notes
      /\ s = [i \in 1..Len(s) |-> s[i]]
  BY LenProperties
<1>3. Mark(s, TRUE) = [i \in 1..Len(s) |-> s[i]]
  BY <1>1, <1>2 DEF Mark
<1> QED
  BY <1>2, <1>3

\* The image a device sends, and the envelope behind it, as they leave.
LEMMA WholeReply ==
  ASSUME NEW n \in Nat
  PROVE  Mark(Append(Image(n), Envelope("ok")), TRUE) = Remaining(n, 0)
<1> DEFINE s == Append(Image(n), Envelope("ok"))
           r == Remaining(n, 0)
<1>1. Image(n) \in Seq(Notes) /\ Len(Image(n)) = n /\ Envelope("ok") \in Notes
  BY DEF Image, Frame, Envelope, Notes
<1>2. /\ s \in Seq(Notes) /\ Len(s) = n + 1
      /\ \A i \in 1..n : s[i] = Frame(i, n)
      /\ s[n + 1] = Envelope("ok")
  BY <1>1 DEF Image
<1>3. r \in Seq(Notes) /\ Len(r) = n + 1
  <2>1. 0 \in 0..n /\ (n - 0) + 1 = n + 1
    OBVIOUS
  <2> QED
    BY <2>1, RemainingHead
<1>4. /\ \A i \in 1..n : r[i] = Frame(i, n)
      /\ r[n + 1] = Envelope("ok")
  BY DEF Remaining
<1> HIDE DEF s, r
<1>5. \A i \in 1..n + 1 : i \in 1..n \/ i = n + 1
  OBVIOUS
<1>6. s = r
  BY <1>2, <1>3, <1>4, <1>5, SeqEqual
<1>7. \A i \in 1..Len(s) : s[i].current = TRUE
  <2>1. \A i \in 1..n : s[i].current = TRUE
    <3>1. ASSUME NEW i PROVE Frame(i, n).current = TRUE
      BY DEF Frame
    <3> QED
      BY <1>2, <3>1, Zenon
  <2>2. s[n + 1].current = TRUE
    BY <1>2 DEF Envelope
  <2> QED
    BY <1>2, <1>5, <2>1, <2>2
<1>8. Mark(s, TRUE) = s
  BY <1>2, <1>7, MarkCurrent
<1> QED
  BY <1>6, <1>8 DEF s, r

LEMMA NothingBefore ==
  ASSUME NEW s \in Seq(Notes)
  PROVE  <<>> \o s = s
<1>1. <<>> \in Seq(Notes) /\ Len(<<>>) = 0
  OBVIOUS
<1>2. /\ Len(<<>> \o s) = Len(s) /\ <<>> \o s \in Seq(Notes)
      /\ \A i \in 1..Len(s) : (<<>> \o s)[i] = s[i]
  BY <1>1, ConcatProperties, LenProperties
<1> QED
  BY <1>2, SeqEqual

\* Nothing marked is nothing, and a refusal of the current command is current.
LEMMA ShortReply ==
  /\ \A b : Mark(<<>>, b) = <<>>
  /\ Mark(<<Envelope("fail")>>, TRUE) = <<Envelope("fail")>>
<1>1. \A b : Mark(<<>>, b) = <<>>
  BY DEF Mark
<1>2. Mark(<<Envelope("fail")>>, TRUE) = <<Envelope("fail")>>
  <2>1. Envelope("fail") \in Notes /\ Envelope("fail").current = TRUE
    BY DEF Envelope, Notes
  <2>2. <<Envelope("fail")>> \in Seq(Notes) /\ Len(<<Envelope("fail")>>) = 1
    BY <2>1
  <2>3. \A i \in 1..1 : <<Envelope("fail")>>[i] = Envelope("fail")
    OBVIOUS
  <2> QED
    BY <2>1, <2>2, <2>3, MarkCurrent
<1> QED
  BY <1>1, <1>2

\* What a device that carries out command c answers is an image, of one frame for
\* a live read and of none for a write.
LEMMA ReplyIsImage ==
  ASSUME NEW c \in Commands, NEW data \in Replies(c)
  PROVE  \E n \in Nat : data = Image(n) /\ (c = "ReadLive" => n = 1) /\ (c = "Write" => n = 0)
<1>1. CASE c = "ReadLive"
  BY <1>1 DEF Replies
<1>2. CASE c = "ReadEEP"
  BY <1>2, SizeAssumption DEF Replies
<1>3. CASE c = "Write"
  <2>1. data = <<>>
    BY <1>3 DEF Replies
  <2>2. Image(0) = <<>>
    BY DEF Image
  <2> QED
    BY <1>3, <2>1, <2>2
<1> QED
  BY <1>1, <1>2, <1>3 DEF Commands

-------------------------------------------------------------------------------
(* Steps that leave the exchange alone                                      *)

USE DEF NoLink, NoCommand, Gens

\* A command that has been handed over runs on a generation that has begun.
LEMMA RunningGeneration ==
  ASSUME LinkInv, Running
  PROVE  /\ gwrite \in {"none", "created", "sending", "sent", "done", "error"}
         /\ gwrite # "none" \/ pending # "none" \/ command # NoCommand =>
              stage \in {"command", "draining"} /\ generation \in Gens
  BY DEF LinkInv, TypeOK, ControlTypes, Budget, Running

\* The exchange is only about the link of the current generation.
LEMMA ExchangeFrame ==
  ASSUME LinkInv, Running, Exchange,
         UNCHANGED <<generation, command, pending, gwrite, buffer>>,
         generation \in Gens => air'[generation] = air[generation],
         \A p : p.link = generation => (p \in uplink' <=> p \in uplink)
  PROVE  Exchange'
<1>1. Quiet(generation) => Quiet(generation)'
  BY DEF Quiet
<1>2. CASE generation \in Gens
  <2>1. Waiting => Waiting'
    BY <1>2 DEF Waiting, Asked
  <2>2. Refusing => Refusing'
    BY <1>2 DEF Refusing, Answered
  <2>3. ASSUME NEW n \in Nat, NEW k \in 0..n, ReplyingFrom(n, k)
        PROVE  ReplyingFrom(n, k)'
    BY <1>2, <2>3 DEF ReplyingFrom, Answered, Collected
  <2>4. Replying => Replying'
    BY <2>3 DEF Replying
  <2> QED
    BY <1>1, <2>1, <2>2, <2>4 DEF Exchange
<1>3. CASE generation \notin Gens
  BY <1>1, <1>3, RunningGeneration DEF Exchange
<1> QED
  BY <1>2, <1>3

\* So is what is said of a parameter write, and of payloads that may still arrive.
LEMMA OutcomeFrame ==
  ASSUME LinkInv, Running, Outcome,
         UNCHANGED <<generation, command, guarded, pending, gwrite, write_state,
                     parameter>>,
         generation \in Gens => air'[generation] = air[generation],
         \A p \in uplink' : p.op = "Write" /\ p.current => p \in uplink
  PROVE  Outcome'
<1>1. NoWrite => NoWrite'
  BY DEF NoWrite
<1> QED
  BY <1>1, RunningGeneration DEF Outcome

LEMMA IntegrityFrame ==
  ASSUME ReplyIntegrity, UNCHANGED <<command, pending, buffer>>
  PROVE  ReplyIntegrity'
  BY DEF ReplyIntegrity

LEMMA ReplyInit == Init => ReplyInv
<1> SUFFICES ASSUME Init PROVE ReplyInv
  OBVIOUS
<1>1. Numbered /\ Running /\ Honest
  BY DEF Init, Numbered, Running, Honest
<1>2. Exchange
  BY DEF Init, Exchange, Quiet
<1>3. Outcome /\ ReplyIntegrity
  BY DEF Init, Outcome, NoWrite, ReplyIntegrity
<1> QED
  BY <1>1, <1>2, <1>3 DEF ReplyInv

\* A generation that has not begun is quiet.
LEMMA NextIsQuiet ==
  ASSUME LinkInv, Numbered
  PROVE  /\ \A p \in uplink : p.link # generation + 1
         /\ generation + 1 \in Gens => air[generation + 1] = <<>>
<1>1. generation \in Nat /\ links \subseteq Gens
  BY BoundAssumption DEF LinkInv, TypeOK, ControlTypes, RadioTypes
<1> QED
  BY <1>1 DEF Numbered

\* A disconnect ends the exchange with whatever is still in flight.
LEMMA DisconnectStep ==
  ASSUME LinkInv, ReplyInv, NEW next \in {"dropping", "closing"},
         Disconnect(next), UNCHANGED <<radio, outcome>>
  PROVE  ReplyInv'
<1>1. generation \in Nat /\ links \subseteq Gens /\ lost \subseteq Gens
  BY BoundAssumption DEF LinkInv, TypeOK, ControlTypes, RadioTypes
<1>2. Numbered'
  BY <1>1 DEF ReplyInv, Numbered, Disconnect, radio
<1>3. Running' /\ Honest'
  BY DEF Running, Honest, Disconnect
<1>4. Exchange'
  BY NextIsQuiet DEF ReplyInv, Exchange, Quiet, Disconnect, radio
<1>5. Outcome' /\ ReplyIntegrity'
  BY DEF ReplyInv, Outcome, NoWrite, ReplyIntegrity, Disconnect, radio, outcome
<1> QED
  BY <1>2, <1>3, <1>4, <1>5 DEF ReplyInv

\* A command is issued over a quiet link, with everything before it aged.
LEMMA IssueStep ==
  ASSUME LinkInv, ReplyInv, Quiet(generation), stage \in {"ready", "command"},
         NEW c \in Commands, NEW preflight,
         Issue(c, preflight), UNCHANGED <<generation, client>>,
         preflight => c = "ReadEEP" /\ write_state' = "not_attempted",
         c = "Write" => write_state' = "not_attempted",
         write_state' = "not_attempted" => parameter' = "unsent",
         write_state' = "acknowledged" => parameter' = "accepted"
  PROVE  ReplyInv'
<1>1. /\ generation \in Gens /\ links \subseteq Gens
      /\ air \in [Gens -> Seq(Notes)] /\ uplink \subseteq Payloads
  BY DEF LinkInv, TypeOK, ControlTypes, RadioTypes, Budget
<1>2. /\ UNCHANGED <<links, leaked, lost>>
      /\ \A g \in Gens : air[g] = <<>> => air'[g] = <<>>
      /\ \A p \in uplink' : p.current = FALSE /\ \E q \in uplink : p.link = q.link
  <2>1. \A g \in Gens : air[g] = <<>> => air'[g] = <<>>
    BY ShortReply DEF Issue, AgeRadio
  <2>2. \A p \in uplink' : p.current = FALSE /\ \E q \in uplink : p.link = q.link
    BY <1>1 DEF Issue, AgeRadio, Payloads
  <2> QED
    BY <2>1, <2>2 DEF Issue, AgeRadio
<1>3. Numbered'
  BY <1>1, <1>2 DEF ReplyInv, Numbered, client
<1>4. Running' /\ Honest' /\ ReplyIntegrity'
  BY DEF Issue, Running, Honest, ReplyIntegrity, Commands
<1>5. Quiet(generation)'
  BY <1>1, <1>2 DEF Quiet
<1>6. Exchange'
  BY <1>5 DEF Issue, Exchange
<1>7. NoWrite'
  BY <1>2 DEF NoWrite
<1>8. air'[generation'] = <<>>
  BY <1>1, <1>5 DEF Quiet
<1>9. Outcome'
  BY <1>2, <1>7, <1>8 DEF Issue, Outcome
<1> QED
  BY <1>3, <1>4, <1>6, <1>9 DEF ReplyInv

-------------------------------------------------------------------------------
(* Payloads and notifications                                               *)

\* The payload leaves over a quiet link and is alone on it.
LEMMA PayloadStep ==
  ASSUME LinkInv, ReplyInv, NEW t \in Tasks, PayloadLeaves(t)
  PROVE  ReplyInv'
<1>1. /\ gwrite = "sending" /\ handle \in links /\ links \subseteq Gens
      /\ generation = handle /\ generation \in Gens
  BY DEF LinkInv, TypeOK, RadioTypes, ReplyInv, Numbered, PayloadLeaves
<1>2. /\ uplink' = uplink \cup {Asked} /\ gwrite' = "sent"
      /\ UNCHANGED <<session, client, command, guarded, pending, buffer, links, lost,
                     air, write_state>>
  BY <1>1 DEF PayloadLeaves, Asked
<1>3. Quiet(generation) /\ buffer = <<>> /\ pending \notin {"ok", "refused"}
  BY <1>1 DEF ReplyInv, Exchange
<1>4. Numbered'
  BY <1>1, <1>2 DEF ReplyInv, Numbered, Asked, session, client
<1>5. Running' /\ Honest' /\ ReplyIntegrity'
  BY <1>1, <1>2 DEF ReplyInv, Running, Honest, ReplyIntegrity, session, client
<1>6. Waiting'
  BY <1>1, <1>2, <1>3 DEF Waiting, Quiet, Asked, session
<1>7. Exchange'
  BY <1>2, <1>3, <1>6 DEF Exchange
<1>8. Outcome'
  <2>1. CASE command = "Write"
    <3>1. /\ NoWrite /\ write_state = "attempted" /\ ~guarded
          /\ air[generation] = <<>>
      BY <1>1, <1>3, <2>1 DEF ReplyInv, Outcome, Quiet
    <3> QED
      BY <1>2, <1>3, <2>1, <3>1 DEF Outcome, NoWrite, Asked, session
  <2>2. CASE command # "Write"
    <3>1. parameter' = parameter /\ (NoWrite => NoWrite')
      BY <1>2, <2>2 DEF PayloadLeaves, NoWrite, Asked
    <3> QED
      BY <1>2, <2>2, <3>1 DEF ReplyInv, Outcome
  <2> QED
    BY <2>1, <2>2
<1> QED
  BY <1>4, <1>5, <1>7, <1>8 DEF ReplyInv

\* A link that goes down takes the payloads on it along.
LEMMA LinkDownStep ==
  ASSUME LinkInv, ReplyInv, NEW g \in Gens,
         links' = links \ {g}, lost' = lost \cup (links \cap {g}),
         uplink' = {p \in uplink : p.link # g}, closing' \in {closing, NoLink},
         UNCHANGED <<session, poisoned, handle, request, air, outcome>>
  PROVE  ReplyInv'
<1>1. Numbered'
  BY DEF ReplyInv, Numbered, session
<1>2. Running' /\ Honest' /\ ReplyIntegrity'
  BY DEF ReplyInv, Running, Honest, ReplyIntegrity, session, request
<1>3. Exchange'
  <2>1. CASE g # generation
    BY <2>1, ExchangeFrame DEF ReplyInv, session, request
  <2>2. CASE g = generation
    <3>1. Quiet(generation) => Quiet(generation)'
      BY DEF Quiet, session
    <3>2. Waiting => Quiet(generation)'
      BY <2>2 DEF Waiting, Quiet, session
    <3>3. Refusing => Refusing'
      BY DEF Refusing, Answered, session
    <3>4. ASSUME NEW n \in Nat, NEW k \in 0..n, ReplyingFrom(n, k)
          PROVE  ReplyingFrom(n, k)'
      BY <3>4 DEF ReplyingFrom, Answered, Collected, session, request
    <3>5. Replying => Replying'
      BY <3>4 DEF Replying
    <3> QED
      BY <3>1, <3>2, <3>3, <3>5 DEF ReplyInv, Exchange, session, request
  <2> QED
    BY <2>1, <2>2
<1>4. Outcome'
  BY OutcomeFrame DEF ReplyInv, session, request, outcome
<1> QED
  BY <1>1, <1>2, <1>3, <1>4 DEF ReplyInv

\* The device answers the payload in flight, or one of an earlier link.
LEMMA AnswerStep ==
  ASSUME LinkInv, ReplyInv, NEW p \in uplink, DeviceAnswers(p)
  PROVE  ReplyInv'
<1>1. PICK accepts \in BOOLEAN, data \in Replies(p.op) :
        /\ air' = [air EXCEPT ![p.link] = @ \o
                     Mark(IF accepts THEN Append(data, Envelope("ok"))
                                     ELSE <<Envelope("fail")>>, p.current)]
        /\ parameter' = IF p.op = "Write" /\ p.current
                           THEN IF accepts THEN "accepted" ELSE "refused"
                           ELSE parameter
  BY DEF DeviceAnswers
<1>2. /\ p \in Payloads /\ p.link \in Gens /\ p.link \in links /\ p.op \in Commands
      /\ air \in [Gens -> Seq(Notes)] /\ generation \in Nat
  BY BoundAssumption
     DEF LinkInv, TypeOK, ControlTypes, RadioTypes, Payloads, ReplyInv, Numbered
<1>3. /\ uplink' = uplink \ {p}
      /\ UNCHANGED <<session, client, request, links, leaked, lost, write_state>>
  BY DEF DeviceAnswers
<1>4. \A g \in Gens : g # p.link => air'[g] = air[g]
  BY <1>1, <1>2
<1>5. Numbered'
  BY <1>2, <1>3, <1>4 DEF ReplyInv, Numbered, session, client
<1>6. Running' /\ Honest' /\ ReplyIntegrity'
  BY <1>3 DEF ReplyInv, Running, Honest, ReplyIntegrity, session, client, request
<1>7. p.op = "Write" /\ p.current =>
        ~NoWrite /\ write_state = "attempted" /\ (command = "Write" => p.link = generation)
  BY DEF ReplyInv, Outcome, NoWrite, LinkInv, TypeOK, ControlTypes
<1>8. CASE p.link # generation
  <2>1. Exchange'
    BY <1>2, <1>3, <1>4, <1>8, ExchangeFrame DEF ReplyInv, session, request
  <2>2. Outcome'
    <3>1. CASE p.op = "Write" /\ p.current
      <4>1. write_state = "attempted" /\ command # "Write" /\ ~guarded
        BY <1>7, <1>8, <3>1 DEF ReplyInv, Outcome
      <4> QED
        BY <1>3, <4>1 DEF Outcome, request
    <3>2. CASE ~(p.op = "Write" /\ p.current)
      <4>1. parameter' = parameter
        BY <1>1, <3>2
      <4> QED
        BY <1>2, <1>3, <1>4, <1>8, <4>1, OutcomeFrame DEF ReplyInv, session, request
    <3> QED
      BY <3>1, <3>2
  <2> QED
    BY <1>5, <1>6, <2>1, <2>2 DEF ReplyInv
<1>9. CASE p.link = generation
  <2>1. /\ gwrite \in {"sent", "done", "error"} /\ Waiting
        /\ pending \notin {"ok", "refused"} /\ command \in Commands
    <3>1. ~Quiet(generation) /\ ~Refusing /\ ~Replying
      BY <1>9 DEF Quiet, Refusing, Replying, ReplyingFrom, Answered
    <3>2. gwrite \in {"sent", "done", "error"} /\ Waiting
            /\ pending \notin {"ok", "refused"}
      BY <3>1, RunningGeneration DEF ReplyInv, Exchange
    <3>3. command \in Commands
      BY <3>2, RunningGeneration DEF LinkInv, Budget, ReplyInv
    <3> QED
      BY <3>2, <3>3
  <2>2. /\ p = Asked /\ p.op = command /\ p.current = TRUE
        /\ air[generation] = <<>> /\ buffer = <<>>
    BY <1>9, <2>1 DEF Waiting, Asked
  <2>3. Answered'
    BY <1>3, <1>9, <2>1, <2>2 DEF Answered, Waiting, session
  <2>4. CASE accepts
    <3>1. PICK n \in Nat : data = Image(n) /\ (command = "ReadLive" => n = 1)
      BY <2>1, <2>2, ReplyIsImage
    <3>2. /\ 0 \in 0..n /\ Remaining(n, 0) \in Seq(Notes) /\ Remaining(n, 0) # <<>>
          /\ Head(Remaining(n, 0)).kind # "fail"
      <4>1. 0 \in 0..n
        OBVIOUS
      <4>2. /\ Remaining(n, 0) \in Seq(Notes) /\ Remaining(n, 0) # <<>>
            /\ Head(Remaining(n, 0)) = IF 0 < n THEN Frame(0 + 1, n) ELSE Envelope("ok")
        BY <4>1, RemainingHead
      <4>3. Frame(0 + 1, n).kind = "data" /\ Envelope("ok").kind = "ok"
        BY DEF Frame, Envelope
      <4> QED
        BY <4>1, <4>2, <4>3
    <3>3. air'[generation] = Remaining(n, 0)
      <4>1. air'[generation] = <<>> \o Mark(Append(Image(n), Envelope("ok")), TRUE)
        BY <1>1, <1>2, <1>9, <2>2, <2>4, <3>1
      <4>2. Mark(Append(Image(n), Envelope("ok")), TRUE) = Remaining(n, 0)
        BY WholeReply
      <4> QED
        BY <3>2, <4>1, <4>2, NothingBefore
    <3>4. ReplyingFrom(n, 0)'
      <4>1. Collected(n, 0)'
        BY <1>3, <2>2 DEF Collected, request
      <4> QED
        BY <1>3, <2>3, <3>1, <3>3, <4>1 DEF ReplyingFrom, Remaining, session, request
    <3>5. Exchange'
      BY <1>3, <2>1, <3>2, <3>4 DEF Exchange, Replying, session, request
    <3>6. Outcome'
      <4>1. CASE command = "Write"
        <5>1. /\ parameter' = "accepted" /\ write_state' = "attempted" /\ ~guarded
              /\ gwrite # "created"
          BY <1>1, <1>3, <1>7, <2>1, <2>2, <2>4, <4>1 DEF ReplyInv, Outcome
        <5> QED
          BY <1>3, <2>1, <2>3, <3>2, <3>3, <4>1, <5>1
             DEF ReplyInv, Outcome, Answered, session, request
      <4>2. CASE command # "Write"
        <5>1. parameter' = parameter /\ (NoWrite => NoWrite')
          BY <1>1, <1>3, <2>2, <4>2 DEF NoWrite
        <5> QED
          BY <1>3, <4>2, <5>1 DEF ReplyInv, Outcome, request
      <4> QED
        BY <4>1, <4>2
    <3> QED
      BY <1>5, <1>6, <3>5, <3>6 DEF ReplyInv
  <2>5. CASE ~accepts
    <3>1. air'[generation] = <<Envelope("fail")>>
      <4>1. air'[generation] = <<>> \o Mark(<<Envelope("fail")>>, TRUE)
        BY <1>1, <1>2, <1>9, <2>2, <2>5
      <4>2. <<Envelope("fail")>> \in Seq(Notes)
        BY DEF Envelope, Notes
      <4> QED
        BY <4>1, <4>2, ShortReply, NothingBefore
    <3>2. Head(<<Envelope("fail")>>).kind = "fail"
      BY DEF Envelope
    <3>3. Exchange'
      BY <1>3, <2>1, <2>3, <3>1 DEF Exchange, Refusing, session, request
    <3>4. Outcome'
      <4>1. CASE command = "Write"
        <5>1. /\ parameter' = "refused" /\ write_state' = "attempted" /\ ~guarded
              /\ gwrite # "created"
          BY <1>1, <1>3, <1>7, <2>1, <2>2, <2>5, <4>1 DEF ReplyInv, Outcome
        <5> QED
          BY <1>3, <2>1, <2>3, <3>1, <3>2, <4>1, <5>1
             DEF ReplyInv, Outcome, Answered, session, request
      <4>2. CASE command # "Write"
        <5>1. parameter' = parameter /\ (NoWrite => NoWrite')
          BY <1>1, <1>3, <2>2, <4>2 DEF NoWrite
        <5> QED
          BY <1>3, <4>2, <5>1 DEF ReplyInv, Outcome, request
      <4> QED
        BY <4>1, <4>2
    <3> QED
      BY <1>5, <1>6, <3>3, <3>4 DEF ReplyInv
  <2> QED
    BY <2>4, <2>5
<1> QED
  BY <1>8, <1>9

\* The next note on the current link is the refusal, a frame or the envelope.
LEMMA HeadOff ==
  ASSUME LinkInv, ReplyInv, generation \in Gens, air[generation] # <<>>,
         air' = [air EXCEPT ![generation] = Tail(@)]
  PROVE  /\ gwrite \in {"sent", "done", "error"} /\ pending \notin {"ok", "refused"}
         /\ Answered
         /\ \/ /\ Refusing /\ Head(air[generation]) = Envelope("fail")
               /\ air'[generation] = <<>>
            \/ \E n \in Nat : \E k \in 0..n :
                 /\ ReplyingFrom(n, k) /\ k < n
                 /\ Head(air[generation]) = Frame(k + 1, n)
                 /\ air'[generation] = Remaining(n, k + 1)
            \/ \E n \in Nat :
                 /\ ReplyingFrom(n, n)
                 /\ Head(air[generation]) = Envelope("ok")
                 /\ air'[generation] = <<>>
<1>1. air'[generation] = Tail(air[generation])
  BY DEF LinkInv, TypeOK, RadioTypes
<1>2. gwrite \in {"sent", "done", "error"} /\ pending \notin {"ok", "refused"}
  BY RunningGeneration DEF ReplyInv, Exchange, Quiet
<1>3. Refusing \/ Replying
  BY <1>2 DEF ReplyInv, Exchange, Quiet, Waiting
<1>4. CASE Refusing
  BY <1>1, <1>2, <1>4 DEF Refusing, Envelope
<1>5. CASE Replying
  <2>0. PICK n \in Nat : \E k \in 0..n : ReplyingFrom(n, k)
    BY <1>5 DEF Replying
  <2>1. PICK k \in 0..n : ReplyingFrom(n, k)
    BY <2>0
  <2>2. air[generation] = Remaining(n, k) /\ Answered
    BY <2>1 DEF ReplyingFrom
  <2>3. /\ Head(air[generation]) = IF k < n THEN Frame(k + 1, n) ELSE Envelope("ok")
        /\ air'[generation] = IF k < n THEN Remaining(n, k + 1) ELSE <<>>
    BY <1>1, <2>2, RemainingHead, RemainingTail
  <2>4. ~(k < n) => k = n
    OBVIOUS
  <2> QED
    BY <1>2, <2>1, <2>2, <2>3, <2>4
<1> QED
  BY <1>3, <1>4, <1>5

\* What is left of a reply accepts as long as it is on the air.
LEMMA StillAccepting ==
  ASSUME NEW n \in Nat, NEW k \in 0..n
  PROVE  Head(Remaining(n, k)).kind # "fail"
<1>1. Frame(k + 1, n).kind = "data" /\ Envelope("ok").kind = "ok"
  BY DEF Frame, Envelope
<1> QED
  BY <1>1, RemainingHead

\* A note that is dropped, or that nobody listens to, leaves a gap at most.
LEMMA NoteGone ==
  ASSUME LinkInv, ReplyInv, NEW g \in Gens, air[g] # <<>>,
         air' = [air EXCEPT ![g] = Tail(@)],
         UNCHANGED <<session, client, request, links, leaked, lost, uplink, outcome>>
  PROVE  ReplyInv'
<1>1. air \in [Gens -> Seq(Notes)] /\ generation \in Nat
  BY BoundAssumption DEF LinkInv, TypeOK, ControlTypes, RadioTypes
<1>2. \A h \in Gens : h # g => air'[h] = air[h]
  BY <1>1
<1>3. Numbered'
  BY <1>1, <1>2 DEF ReplyInv, Numbered, session, client
<1>4. Running' /\ Honest' /\ ReplyIntegrity'
  BY DEF ReplyInv, Running, Honest, ReplyIntegrity, session, client, request
<1>5. CASE g # generation
  <2>1. Exchange' /\ Outcome'
    BY <1>2, <1>5, ExchangeFrame, OutcomeFrame DEF ReplyInv, session, request, outcome
  <2> QED
    BY <1>3, <1>4, <2>1 DEF ReplyInv
<1>6. CASE g = generation
  <2>1. gwrite \in {"sent", "done", "error"} /\ pending \notin {"ok", "refused"} /\ Answered
    BY <1>6, HeadOff
  <2>2. ASSUME air'[generation] = <<>> PROVE ReplyInv'
    <3>1. Quiet(generation)'
      BY <2>1, <2>2 DEF Quiet, Answered, session
    <3>2. Exchange'
      BY <2>1, <3>1 DEF Exchange, session, request
    <3>3. Outcome'
      BY <2>2 DEF ReplyInv, Outcome, NoWrite, session, request, outcome
    <3> QED
      BY <1>3, <1>4, <3>2, <3>3 DEF ReplyInv
  <2>3. ASSUME NEW n \in Nat, NEW k \in 0..n, ReplyingFrom(n, k), k < n,
               air'[generation] = Remaining(n, k + 1)
        PROVE  ReplyInv'
    <3>1. k + 1 \in 0..n /\ buffer \in Seq(Notes)
      BY <2>3 DEF LinkInv, TypeOK, RadioTypes
    <3>2. pending = "open" => Collected(n, k + 1)'
      BY <2>3, <3>1 DEF ReplyingFrom, Collected, request
    <3>3. ReplyingFrom(n, k + 1)'
      BY <2>3, <3>2 DEF ReplyingFrom, Answered, Remaining, session, request
    <3>4. Exchange'
      BY <2>1, <3>1, <3>3 DEF Exchange, Replying, session, request
    <3>5. /\ air[generation] # <<>> /\ Head(air[generation]).kind # "fail"
          /\ Head(air'[generation]).kind # "fail"
      BY <1>6, <2>3, <3>1, StillAccepting DEF ReplyingFrom
    <3>6. Outcome'
      BY <3>5 DEF ReplyInv, Outcome, NoWrite, session, request, outcome
    <3> QED
      BY <1>3, <1>4, <3>4, <3>6 DEF ReplyInv
  <2> QED
    BY <1>6, <2>2, <2>3, HeadOff
<1> QED
  BY <1>5, <1>6

\* The current link's next note reaches the command that waits for it.
LEMMA HeardStep ==
  ASSUME LinkInv, ReplyInv, generation \in Gens, Listening(generation),
         Notification(generation)
  PROVE  ReplyInv'
<1> DEFINE note == Head(air[generation])
<1>1. /\ air[generation] # <<>> /\ air' = [air EXCEPT ![generation] = Tail(@)]
      /\ IF note.kind = "data" THEN Accumulate(note) ELSE Complete(note)
      /\ UNCHANGED <<session, handle, closing, command, guarded, gwrite, links,
                     leaked, lost, uplink, parameter>>
  BY DEF Notification
<1>2. /\ air \in [Gens -> Seq(Notes)] /\ generation \in Nat /\ buffer \in Seq(Notes)
      /\ command \in Commands /\ stage \in {"command", "draining"}
  <2>1. command \in Commands /\ stage \in {"command", "draining"}
    BY RunningGeneration DEF Listening, LinkInv, Budget, ReplyInv
  <2> QED
    BY <2>1, BoundAssumption DEF LinkInv, TypeOK, ControlTypes, RadioTypes
<1>3. /\ gwrite \in {"sent", "done", "error"} /\ pending = "open" /\ ~poisoned
      /\ Answered
  BY <1>1, HeadOff DEF Listening
<1>4. \A h \in Gens : h # generation => air'[h] = air[h]
  BY <1>1, <1>2
<1>5. Numbered'
  BY <1>1, <1>2, <1>4 DEF ReplyInv, Numbered, session
<1>6. command = "Write" => NoWrite /\ write_state # "not_attempted" /\ ~guarded
  BY <1>3 DEF ReplyInv, Running, Outcome, Answered, NoWrite
<1> HIDE DEF note
<1>7. ASSUME note = Envelope("fail"), air'[generation] = <<>>, Refusing
      PROVE  ReplyInv'
  <2>1. /\ pending' = "refused" /\ poisoned' /\ UNCHANGED <<write_state, buffer>>
    BY <1>1, <1>3, <1>7 DEF Complete, Fail, Envelope
  <2>2. Running' /\ Honest' /\ ReplyIntegrity'
    BY <1>1, <1>2, <2>1 DEF ReplyInv, Running, Honest, ReplyIntegrity, session
  <2>3. Quiet(generation)'
    BY <1>1, <1>3, <1>7 DEF Quiet, Answered, session
  <2>4. Exchange'
    BY <1>1, <1>3, <2>1, <2>3 DEF Exchange, session
  <2>5. command = "Write" => parameter = "refused"
    BY <1>1, <1>7 DEF note, ReplyInv, Outcome, Envelope
  <2>6. Outcome'
    BY <1>1, <1>7, <2>1, <2>5 DEF ReplyInv, Outcome, NoWrite, session
  <2> QED
    BY <1>5, <2>2, <2>4, <2>6 DEF ReplyInv
<1>8. ASSUME NEW n \in Nat, NEW k \in 0..n, ReplyingFrom(n, k), k < n,
             note = Frame(k + 1, n), air'[generation] = Remaining(n, k + 1)
      PROVE  ReplyInv'
  <2>1. Accumulate(note) /\ UNCHANGED write_state /\ note \in Notes
    BY <1>1, <1>8 DEF Accumulate, Frame, Notes
  <2>2. pending' \in {"open", "failed"} /\ (poisoned' => pending' = "failed")
    BY <1>3, <2>1 DEF Accumulate, Fail
  <2>3. k + 1 \in 0..n
    BY <1>8
  <2>4. pending' = "open" => Collected(n, k + 1)'
    <3>1. Collected(n, k)
      BY <1>3, <1>8 DEF ReplyingFrom
    <3>2. CASE buffer' = buffer
      BY <1>2, <3>1, <3>2 DEF Collected
    <3>3. CASE buffer' = Append(buffer, note)
      <4>1. /\ Len(buffer') = Len(buffer) + 1
            /\ \A i \in 1..Len(buffer) : buffer'[i] = buffer[i]
            /\ buffer'[Len(buffer) + 1] = Frame(k + 1, n)
        BY <1>2, <1>8, <2>1, <3>3, AppendProperties
      <4>2. Len(buffer) \in Nat /\ Frame(k + 1, n).size = n
        BY <1>2 DEF Frame
      <4> QED
        BY <3>1, <4>1, <4>2 DEF Collected
    <3> QED
      BY <2>1, <3>2, <3>3 DEF Accumulate
  <2>5. ReplyingFrom(n, k + 1)'
    BY <1>1, <1>8, <2>4 DEF ReplyingFrom, Answered, Remaining, session
  <2>6. Exchange'
    BY <1>1, <1>3, <2>2, <2>3, <2>5 DEF Exchange, Replying, session
  <2>7. Running' /\ Honest' /\ ReplyIntegrity'
    BY <1>1, <1>2, <2>2 DEF ReplyInv, Running, Honest, ReplyIntegrity, session
  <2>8. /\ air[generation] # <<>> /\ Head(air[generation]).kind # "fail"
        /\ Head(air'[generation]).kind # "fail"
    BY <1>1, <1>8, <2>3, StillAccepting DEF ReplyingFrom
  <2>9. Outcome'
    BY <1>1, <2>1, <2>2, <2>8 DEF ReplyInv, Outcome, NoWrite, session
  <2> QED
    BY <1>5, <2>6, <2>7, <2>9 DEF ReplyInv
<1>9. ASSUME NEW n \in Nat, ReplyingFrom(n, n), note = Envelope("ok"),
             air'[generation] = <<>>
      PROVE  ReplyInv'
  <2>1. Complete(note) /\ note.kind = "ok" /\ buffer' = buffer
    BY <1>1, <1>9 DEF Complete, Envelope
  <2>2. /\ pending' = IF Parses(command, buffer) THEN "ok" ELSE "failed"
        /\ poisoned' <=> ~Parses(command, buffer)
        /\ write_state' = IF command = "Write" THEN "acknowledged" ELSE write_state
    BY <1>3, <2>1 DEF Complete, Fail
  <2>3. Quiet(generation)'
    BY <1>1, <1>3, <1>9 DEF Quiet, Answered, session
  <2>4. Exchange'
    BY <1>1, <1>3, <2>2, <2>3 DEF Exchange, session
  <2>5. Running' /\ Honest'
    BY <1>1, <1>2, <2>2 DEF ReplyInv, Running, Honest, session
  <2>6. command = "Write" => parameter = "accepted"
    BY <1>1, <1>9 DEF note, ReplyInv, Outcome, Envelope
  <2>7. Outcome'
    <3>1. CASE command = "Write"
      <4>1. NoWrite' /\ ~guarded' /\ write_state' = "acknowledged"
        BY <1>1, <1>6, <2>2, <3>1 DEF NoWrite
      <4>2. parameter' = "accepted" /\ pending' # "refused"
        BY <1>1, <2>2, <2>6, <3>1
      <4> QED
        BY <1>1, <1>3, <1>9, <4>1, <4>2 DEF Outcome, NoWrite, session
    <3>2. CASE command # "Write"
      BY <1>1, <2>2, <3>2 DEF ReplyInv, Outcome, NoWrite
    <3> QED
      BY <3>1, <3>2
  <2>8. ReplyIntegrity'
    <3> SUFFICES ASSUME Parses(command, buffer), command \in {"ReadLive", "ReadEEP"}
                 PROVE  buffer = Image(buffer[1].size)
      BY <1>1, <2>1, <2>2 DEF ReplyIntegrity
    <3>1. Collected(n, n) /\ Len(buffer) \in Nat
      BY <1>2, <1>3, <1>9 DEF ReplyingFrom
    <3>2. Len(buffer) = n /\ n >= 1
      <4>1. CASE command = "ReadLive"
        BY <1>9, <4>1 DEF Parses, ReplyingFrom
      <4>2. CASE command = "ReadEEP"
        <5>1. Len(buffer) >= 1 /\ buffer[1].size = Len(buffer)
          BY <3>1, <4>2, SizeAssumption DEF Parses
        <5> QED
          BY <3>1, <5>1 DEF Collected
      <4> QED
        BY <4>1, <4>2
    <3>3. buffer[1].size = n /\ \A i \in 1..n : buffer[i] = Frame(i, n)
      BY <3>1, <3>2 DEF Collected
    <3>4. /\ Image(n) \in Seq(Notes) /\ Len(Image(n)) = n
          /\ \A i \in 1..n : Image(n)[i] = Frame(i, n)
      BY DEF Image, Frame, Notes
    <3>5. buffer = Image(n)
      BY <1>2, <3>2, <3>3, <3>4, SeqEqual
    <3> QED
      BY <3>3, <3>5
  <2> QED
    BY <1>5, <2>4, <2>5, <2>7, <2>8 DEF ReplyInv
<1> QED
  BY <1>1, <1>7, <1>8, <1>9, HeadOff DEF note

LEMMA NotificationStep ==
  ASSUME LinkInv, ReplyInv, NEW g \in Gens, Notification(g)
  PROVE  ReplyInv'
<1>1. CASE Listening(g)
  BY <1>1, HeardStep DEF Listening
<1>2. CASE ~Listening(g)
  BY <1>2, NoteGone
     DEF Notification, session, client, request, outcome
<1> QED
  BY <1>1, <1>2

-------------------------------------------------------------------------------
(* Every step                                                               *)

\* Steps that only move the owner on.
LEMMA ControlStep ==
  ASSUME LinkInv, ReplyInv,
         UNCHANGED <<generation, poisoned, handle, closing, request, radio, outcome>>,
         stage' \in {"command", "draining"} <=> stage \in {"command", "draining"},
         stage' \in {"settling", "ready"} => ~poisoned \/ handle \notin links \/
           stage \in {"settling", "ready"},
         stage' = "command" => stage = "command"
  PROVE  ReplyInv'
<1>1. Numbered'
  BY DEF ReplyInv, Numbered, radio
<1>2. Running' /\ Honest' /\ ReplyIntegrity'
  BY DEF ReplyInv, Running, Honest, ReplyIntegrity, request, radio
<1>3. Exchange'
  BY ExchangeFrame DEF ReplyInv, request, radio
<1>4. Outcome'
  BY OutcomeFrame DEF ReplyInv, request, radio, outcome
<1> QED
  BY <1>1, <1>2, <1>3, <1>4 DEF ReplyInv

\* A command that has its answer, and one that has not started, left a quiet link.
LEMMA QuietWhenAnswered ==
  ASSUME LinkInv, ReplyInv,
         pending = "ok" \/ stage \notin {"command", "draining"}
  PROVE  Quiet(generation)
  BY DEF ReplyInv, Running, Exchange

LEMMA BeginStep ==
  ASSUME LinkInv, ReplyInv, NEW t \in Tasks, Begin(t)
  PROVE  ReplyInv'
<1>1. /\ generation \in Nat /\ generation' = generation + 1 /\ stage = "free"
      /\ handle = NoLink /\ closing = NoLink /\ stage' = "connecting" /\ poisoned' = FALSE
      /\ UNCHANGED <<handle, closing, request, radio, outcome>>
  BY BoundAssumption DEF LinkInv, Budget, TypeOK, ControlTypes, Begin
<1>2. /\ gwrite = "none" /\ pending = "none" /\ command = NoCommand /\ ~guarded
  BY <1>1 DEF ReplyInv, Running
<1>3. Numbered'
  <2>1. UNCHANGED <<links, lost, uplink, air>>
    BY <1>1 DEF radio
  <2>2. \A g \in links' \cup lost' : g <= generation'
    <3>1. links \subseteq Gens /\ lost \subseteq Gens
      BY DEF LinkInv, TypeOK, RadioTypes
    <3> QED
      BY <1>1, <2>1, <3>1 DEF ReplyInv, Numbered
  <2>3. \A g \in Gens : g > generation' => air'[g] = <<>>
    BY <1>1, <2>1 DEF ReplyInv, Numbered
  <2> QED
    BY <1>1, <2>1, <2>2, <2>3 DEF ReplyInv, Numbered
<1>4. Running' /\ Honest' /\ ReplyIntegrity'
  BY <1>1, <1>2 DEF Running, Honest, ReplyIntegrity, request
<1>5. Exchange'
  BY <1>1, <1>2, NextIsQuiet DEF ReplyInv, Exchange, Quiet, request, radio
<1>6. Outcome'
  BY <1>1, <1>2 DEF ReplyInv, Outcome, NoWrite, request, radio, outcome
<1> QED
  BY <1>3, <1>4, <1>5, <1>6 DEF ReplyInv

\* The handle of a transaction is the link it has just opened.
LEMMA ConnectStep ==
  ASSUME LinkInv, ReplyInv, NEW t \in Tasks, ConnectReturns(t)
  PROVE  ReplyInv'
<1>1. /\ handle' = generation /\ stage = "connecting" /\ stage' = "preparing"
      /\ UNCHANGED <<generation, poisoned, closing, request, radio, outcome>>
  BY DEF ConnectReturns
<1>2. Numbered'
  BY <1>1 DEF ReplyInv, Numbered, radio
<1>3. Running' /\ Honest' /\ ReplyIntegrity'
  BY <1>1 DEF ReplyInv, Running, Honest, ReplyIntegrity, request
<1>4. Exchange'
  BY <1>1, ExchangeFrame DEF ReplyInv, request, radio
<1>5. Outcome'
  BY <1>1, OutcomeFrame DEF ReplyInv, request, radio, outcome
<1> QED
  BY <1>2, <1>3, <1>4, <1>5 DEF ReplyInv

\* A write refused before any I/O sends nothing: what is in flight is aged.
LEMMA RefuseStep ==
  ASSUME LinkInv, ReplyInv, NEW t \in Tasks, RefuseWrite(t)
  PROVE  ReplyInv'
<1>1. /\ stage = "ready" /\ write_state' = "not_attempted" /\ parameter' = "unsent"
      /\ AgeRadio /\ UNCHANGED <<session, client, request>>
  BY DEF RefuseWrite
<1>2. /\ links \subseteq Gens /\ generation \in Nat
      /\ air \in [Gens -> Seq(Notes)] /\ uplink \subseteq Payloads
  BY BoundAssumption DEF LinkInv, TypeOK, ControlTypes, RadioTypes
<1>3. /\ gwrite = "none" /\ pending = "none" /\ command = NoCommand /\ ~guarded
  BY <1>1 DEF ReplyInv, Running
<1>4. /\ UNCHANGED <<links, leaked, lost>>
      /\ \A g \in Gens : air[g] = <<>> => air'[g] = <<>>
      /\ \A p \in uplink' : p.current = FALSE /\ \E q \in uplink : p.link = q.link
  <2>1. \A g \in Gens : air[g] = <<>> => air'[g] = <<>>
    BY <1>1, ShortReply DEF AgeRadio
  <2>2. \A p \in uplink' : p.current = FALSE /\ \E q \in uplink : p.link = q.link
    BY <1>1, <1>2 DEF AgeRadio, Payloads
  <2> QED
    BY <1>1, <2>1, <2>2 DEF AgeRadio
<1>5. Numbered'
  BY <1>1, <1>2, <1>4 DEF ReplyInv, Numbered, session, client
<1>6. Running' /\ Honest' /\ ReplyIntegrity'
  BY <1>1, <1>3, <1>4 DEF ReplyInv, Running, Honest, ReplyIntegrity,
     session, client, request
<1>7. Exchange'
  BY <1>1, <1>2, <1>3, <1>4 DEF ReplyInv, Exchange, Quiet, session, request
<1>8. Outcome'
  BY <1>1, <1>3, <1>4 DEF Outcome, NoWrite, request
<1> QED
  BY <1>5, <1>6, <1>7, <1>8 DEF ReplyInv

\* write_state is raised before the payload can leave.
LEMMA SendStep ==
  ASSUME LinkInv, ReplyInv, NEW t \in Tasks, SendPayload(t)
  PROVE  ReplyInv'
<1>1. /\ gwrite = "created" /\ gwrite' = "sending" /\ stage = "command"
      /\ write_state' = IF command = "Write" THEN "attempted" ELSE write_state
      /\ UNCHANGED <<session, client, command, guarded, pending, buffer, radio,
                     parameter>>
  BY DEF SendPayload
<1>2. Numbered'
  BY <1>1 DEF ReplyInv, Numbered, session, client, radio
<1>3. Running' /\ Honest' /\ ReplyIntegrity'
  BY <1>1 DEF ReplyInv, Running, Honest, ReplyIntegrity, session, client, radio
<1>4. Exchange'
  BY <1>1 DEF ReplyInv, Exchange, Quiet, session, radio
<1>5. Outcome'
  <2>1. CASE command = "Write"
    <3>1. NoWrite /\ ~guarded
      BY <1>1, <2>1 DEF ReplyInv, Running, Outcome
    <3> QED
      BY <1>1, <2>1, <3>1 DEF ReplyInv, Outcome, NoWrite, session, radio
  <2>2. CASE command # "Write"
    BY <1>1, <2>2 DEF ReplyInv, Outcome, NoWrite, session, radio
  <2> QED
    BY <2>1, <2>2
<1> QED
  BY <1>2, <1>3, <1>4, <1>5 DEF ReplyInv

\* A write that returns or raises says nothing of the answer.
LEMMA WriteReturnsStep ==
  ASSUME LinkInv, ReplyInv, NEW t \in Tasks, WriteReturns(t)
  PROVE  ReplyInv'
<1>1. /\ gwrite \in {"sending", "sent"} /\ gwrite' \in {"done", "error"}
      /\ UNCHANGED <<session, client, command, guarded, pending, buffer, radio,
                     outcome>>
  BY DEF WriteReturns
<1>2. Numbered'
  BY <1>1 DEF ReplyInv, Numbered, session, client, radio
<1>3. Running' /\ Honest' /\ ReplyIntegrity'
  BY <1>1 DEF ReplyInv, Running, Honest, ReplyIntegrity, session, client, radio
<1>4. Exchange'
  <2>1. Quiet(generation) => Quiet(generation)'
    BY <1>1 DEF Quiet, session, radio
  <2>2. Waiting => Waiting'
    BY <1>1 DEF Waiting, Asked, session, radio
  <2>3. Refusing => Refusing'
    BY <1>1 DEF Refusing, Answered, session, radio
  <2>4. Replying => Replying'
    <3>1. ASSUME NEW n \in Nat, NEW k \in 0..n, ReplyingFrom(n, k)
          PROVE  ReplyingFrom(n, k)'
      BY <1>1, <3>1 DEF ReplyingFrom, Answered, Collected, session, radio
    <3> QED
      BY <3>1 DEF Replying
  <2> QED
    BY <1>1, <2>1, <2>2, <2>3, <2>4 DEF ReplyInv, Exchange
<1>5. Outcome'
  BY <1>1 DEF ReplyInv, Outcome, NoWrite, session, radio, outcome
<1> QED
  BY <1>2, <1>3, <1>4, <1>5 DEF ReplyInv

\* _run returns: nothing is left of the command.
LEMMA ReturnStep ==
  ASSUME LinkInv, ReplyInv, NEW t \in Tasks, CommandReturns(t)
  PROVE  ReplyInv'
<1>1. /\ stage = "command" /\ stage' = "ready" /\ pending = "ok"
      /\ command' = NoCommand /\ guarded' = FALSE /\ pending' = "none"
      /\ gwrite' = "none" /\ buffer' = <<>>
      /\ UNCHANGED <<generation, client, radio, outcome>>
  BY DEF CommandReturns, EndCommand
<1>2. Numbered'
  BY <1>1 DEF ReplyInv, Numbered, client, radio
<1>3. Running' /\ Honest' /\ ReplyIntegrity'
  BY <1>1 DEF ReplyInv, Running, Honest, ReplyIntegrity, client, radio
<1>4. Exchange'
  BY <1>1, QuietWhenAnswered DEF Exchange, Quiet, radio
<1>5. Outcome'
  BY <1>1 DEF ReplyInv, Outcome, NoWrite, radio, outcome
<1> QED
  BY <1>2, <1>3, <1>4, <1>5 DEF ReplyInv

\* A link comes up for the transaction that is connecting.
LEMMA OpenStep ==
  ASSUME LinkInv, ReplyInv, LinkOpens
  PROVE  ReplyInv'
<1>1. /\ stage = "connecting" /\ links' = links \cup {generation}
      /\ generation \notin links \cup lost /\ generation \in Nat
      /\ UNCHANGED <<session, client, request, leaked, lost, uplink, air, outcome>>
  BY BoundAssumption DEF LinkInv, TypeOK, ControlTypes, LinkOpens
<1>2. Numbered'
  BY <1>1 DEF ReplyInv, Numbered, session, client
<1>3. Running' /\ Honest' /\ ReplyIntegrity'
  BY <1>1 DEF ReplyInv, Running, Honest, ReplyIntegrity, session, client, request
<1>4. Exchange'
  BY <1>1, ExchangeFrame DEF ReplyInv, session, request
<1>5. Outcome'
  BY <1>1, OutcomeFrame DEF ReplyInv, session, request, outcome
<1> QED
  BY <1>2, <1>3, <1>4, <1>5 DEF ReplyInv

\* A late callback fails the command that runs only if it is of its own link,
\* which is down by then.
LEMMA CallbackStep ==
  ASSUME LinkInv, ReplyInv, NEW g \in Gens, DisconnectedCallback(g)
  PROVE  ReplyInv'
<1>1. /\ g \in lost /\ lost' = lost \ {g} /\ g \notin links
      /\ IF g = generation THEN Fail("failed") ELSE UNCHANGED <<poisoned, pending>>
      /\ UNCHANGED <<session, handle, closing, command, guarded, gwrite, buffer,
                     links, leaked, uplink, air, outcome>>
  BY DEF DisconnectedCallback, ReplyInv, Numbered
<1>2. Numbered'
  BY <1>1 DEF ReplyInv, Numbered, session
<1>3. Running' /\ Honest' /\ ReplyIntegrity'
  <2>1. poisoned' => poisoned \/ handle = NoLink \/ handle \notin links
    BY <1>1 DEF ReplyInv, Numbered
  <2>2. NoLink \notin links
    BY DEF LinkInv, TypeOK, RadioTypes
  <2>3. pending' \in {pending, "failed"} /\ (pending = "none" <=> pending' = "none")
    BY <1>1 DEF Fail
  <2>4. Running'
    BY <1>1, <2>3 DEF ReplyInv, Running, session
  <2>5. Honest'
    BY <1>1, <2>1, <2>2, <2>3 DEF ReplyInv, Honest, session
  <2>6. ReplyIntegrity'
    BY <1>1, <2>3 DEF ReplyInv, ReplyIntegrity
  <2> QED
    BY <2>4, <2>5, <2>6
<1>4. Exchange' /\ Outcome'
  <2>1. CASE pending' = pending
    BY <1>1, <2>1, ExchangeFrame, OutcomeFrame DEF ReplyInv, session, outcome
  <2>2. CASE pending' # pending
    <3>1. pending = "open" /\ pending' = "failed"
      BY <1>1, <2>2 DEF Fail
    <3>2. Quiet(generation) => Quiet(generation)'
      BY <1>1 DEF Quiet, session
    <3>3. Waiting => Waiting'
      BY <1>1 DEF Waiting, Asked, session
    <3>4. Refusing => Refusing'
      BY <1>1 DEF Refusing, Answered, session
    <3>5. Replying => Replying'
      <4>1. ASSUME NEW n \in Nat, NEW k \in 0..n, ReplyingFrom(n, k)
            PROVE  ReplyingFrom(n, k)'
        BY <1>1, <3>1, <4>1 DEF ReplyingFrom, Answered, session
      <4> QED
        BY <4>1 DEF Replying
    <3>6. Exchange'
      BY <1>1, <3>1, <3>2, <3>3, <3>4, <3>5 DEF ReplyInv, Exchange
    <3>7. Outcome'
      BY <1>1, <3>1 DEF ReplyInv, Outcome, NoWrite, session, outcome
    <3> QED
      BY <3>6, <3>7
  <2> QED
    BY <2>1, <2>2
<1> QED
  BY <1>2, <1>3, <1>4 DEF ReplyInv

\* No step of the owner or of the radio breaks the invariant.
LEMMA ReplyStep == LinkInv /\ ReplyInv /\ [Next]_vars => ReplyInv'
<1> SUFFICES ASSUME LinkInv, ReplyInv, [Next]_vars PROVE ReplyInv'
  OBVIOUS
<1>1. CASE UNCHANGED vars
  BY <1>1, ControlStep DEF vars, session, client
<1>2. ASSUME NEW t \in Tasks, Owner(t) PROVE ReplyInv'
  <2>1. CASE Begin(t) \/ ConnectReturns(t) \/ RefuseWrite(t) \/ SendPayload(t)
               \/ PayloadLeaves(t) \/ WriteReturns(t) \/ CommandReturns(t)
    BY <2>1, BeginStep, ConnectStep, RefuseStep, SendStep, PayloadStep,
       WriteReturnsStep, ReturnStep
  <2>2. CASE ConnectFails(t) \/ PrepareFails(t) \/ Drain(t) \/ Leave(t)
    BY <2>2, DisconnectStep DEF ConnectFails, PrepareFails, Drain, Leave
  <2>3. CASE Subscribed(t) \/ Settled(t) \/ TimeOut(t) \/ CommandFails(t)
               \/ Resume(t) \/ Release(t) \/ Cancel(t)
    <3>1. CASE Subscribed(t) \/ Settled(t)
      BY <3>1, ControlStep DEF Subscribed, Settled, Healthy, client
    <3>2. CASE TimeOut(t) \/ CommandFails(t)
      BY <3>2, ControlStep DEF TimeOut, CommandFails, client
    <3>3. CASE Resume(t)
      <4>1. handle \notin links
        BY <3>3 DEF Resume, LinkInv, Budget, TypeOK, RadioTypes
      <4> QED
        BY <3>3, <4>1, ControlStep DEF Resume, client
    <3>4. CASE Release(t)
      BY <3>4, ControlStep DEF Release, client
    <3>5. CASE Cancel(t)
      BY <3>5, ControlStep DEF Cancel, client
    <3> QED
      BY <2>3, <3>1, <3>2, <3>3, <3>4, <3>5
  <2>4. ASSUME NEW c \in {"ReadLive", "ReadEEP"}, StartRead(t, c) PROVE ReplyInv'
    <3>1. /\ stage = "ready" /\ Quiet(generation) /\ c \in Commands
          /\ Issue(c, FALSE) /\ UNCHANGED <<generation, client, outcome>>
      BY <2>4, QuietWhenAnswered DEF StartRead, Commands
    <3>2. /\ write_state' = "not_attempted" => parameter' = "unsent"
          /\ write_state' = "acknowledged" => parameter' = "accepted"
      BY <3>1 DEF ReplyInv, Outcome, outcome
    <3> QED
      BY <3>1, <3>2, IssueStep
  <2>5. CASE StartWrite(t)
    <3>1. /\ stage = "ready" /\ Quiet(generation) /\ "ReadEEP" \in Commands
          /\ Issue("ReadEEP", TRUE) /\ UNCHANGED <<generation, client>>
          /\ write_state' = "not_attempted" /\ parameter' = "unsent"
      BY <2>5, QuietWhenAnswered DEF StartWrite, Commands
    <3> QED
      BY <3>1, IssueStep
  <2>6. CASE PreflightPasses(t)
    <3>1. /\ stage = "command" /\ Quiet(generation) /\ "Write" \in Commands
          /\ Issue("Write", FALSE) /\ UNCHANGED <<generation, client, outcome>>
          /\ guarded
      BY <2>6, QuietWhenAnswered DEF PreflightPasses, Commands
    <3>2. write_state' = "not_attempted" /\ parameter' = "unsent"
      BY <3>1 DEF ReplyInv, Outcome, outcome
    <3> QED
      BY <3>1, <3>2, IssueStep
  <2>7. CASE LinkCloses(t)
    <3>1. closing \in Gens
      BY <2>7 DEF LinkCloses, LinkInv, TypeOK, ControlTypes
    <3> QED
      BY <2>7, <3>1, LinkDownStep DEF LinkCloses
  <2>8. CASE CloseFails(t)
    <3>1. closing' = NoLink
          /\ UNCHANGED <<session, poisoned, handle, request, links, lost, uplink, air,
                         outcome>>
      BY <2>8 DEF CloseFails
    <3>2. Numbered' /\ Running' /\ Honest' /\ ReplyIntegrity'
      BY <3>1 DEF ReplyInv, Numbered, Running, Honest, ReplyIntegrity, session, request
    <3>3. Exchange' /\ Outcome'
      BY <3>1, ExchangeFrame, OutcomeFrame DEF ReplyInv, session, request, outcome
    <3> QED
      BY <3>2, <3>3 DEF ReplyInv
  <2> QED
    BY <1>2, <2>1, <2>2, <2>3, <2>4, <2>5, <2>6, <2>7, <2>8 DEF Owner
<1>3. CASE Radio
  <2>1. CASE LinkOpens
    BY <2>1, OpenStep
  <2>2. ASSUME NEW g \in Gens, LinkBreaks(g) PROVE ReplyInv'
    <3>1. lost \cup (links \cap {g}) = lost \cup {g}
      BY <2>2 DEF LinkBreaks
    <3> QED
      BY <2>2, <3>1, LinkDownStep DEF LinkBreaks, client
  <2>3. ASSUME NEW g \in Gens,
               DisconnectedCallback(g) \/ NoteLost(g) \/ Notification(g)
        PROVE  ReplyInv'
    BY <2>3, CallbackStep, NoteGone, NotificationStep DEF NoteLost
  <2>4. ASSUME NEW p \in uplink, DeviceAnswers(p) PROVE ReplyInv'
    BY <2>4, AnswerStep
  <2> QED
    BY <1>3, <2>1, <2>2, <2>3, <2>4 DEF Radio
<1> QED
  BY <1>1, <1>2, <1>3 DEF Next

LEMMA ReplyAlways == Spec => []ReplyInv
<1>1. Init => LinkInv /\ ReplyInv
  BY LinkInit, ReplyInit
<1>2. LinkInv /\ ReplyInv /\ [Next]_vars => (LinkInv /\ ReplyInv)'
  BY LinkStep, ReplyStep
<1> QED
  BY <1>1, <1>2, PTL DEF Spec

-------------------------------------------------------------------------------
(* The transport as its users see it                                        *)

\* p carries the parameter of the last write_* call.
Carries(p) == p.op = "Write" /\ p.current

\* It is on its way to the device once at most; as long as it is, and as long as the
\* write task has it, nothing has become of it.
WriteOnce ==
  /\ \A p, q \in uplink : Carries(p) /\ Carries(q) => p = q
  /\ (\E p \in uplink : Carries(p)) => parameter = "sent"
  /\ command = "Write" /\ gwrite \in {"created", "sending"} => parameter = "unsent"

LEMMA OnceFrame ==
  ASSUME WriteOnce, uplink' \subseteq uplink, parameter' = parameter,
         command' = "Write" /\ gwrite' \in {"created", "sending"} =>
           command = "Write" /\ gwrite \in {"created", "sending"}
  PROVE  WriteOnce'
BY DEF WriteOnce, Carries

LEMMA OnceAged ==
  ASSUME LinkInv, AgeRadio,
         command' = "Write" /\ gwrite' \in {"created", "sending"} => parameter' = "unsent"
  PROVE  WriteOnce'
<1>1. \A p \in uplink' : ~Carries(p)
  BY DEF LinkInv, TypeOK, RadioTypes, Payloads, AgeRadio, Carries
<1> QED
  BY <1>1 DEF WriteOnce, Carries

LEMMA OnceOwner ==
  ASSUME LinkInv, ReplyInv, WriteOnce, NEW t \in Tasks, Owner(t)
  PROVE  WriteOnce'
<1>1. ASSUME NEW d, Disconnect(d), UNCHANGED <<radio, outcome>> PROVE WriteOnce'
  BY <1>1, OnceFrame DEF Disconnect, radio, outcome
<1>2. CASE \/ Begin(t) \/ ConnectReturns(t) \/ Subscribed(t) \/ Settled(t)
           \/ TimeOut(t) \/ CommandFails(t) \/ Resume(t) \/ Release(t) \/ Cancel(t)
  <2>1. UNCHANGED <<request, radio, outcome>>
    BY <1>2 DEF Begin, ConnectReturns, Subscribed, Settled, TimeOut, CommandFails, Resume,
       Release, Cancel
  <2> QED
    BY <2>1, OnceFrame DEF request, radio, outcome
<1>3. CASE ConnectFails(t) \/ PrepareFails(t) \/ Drain(t) \/ Leave(t)
  BY <1>1, <1>3 DEF ConnectFails, PrepareFails, Drain, Leave
<1>4. ASSUME NEW c \in {"ReadLive", "ReadEEP"}, StartRead(t, c) PROVE WriteOnce'
  BY <1>4, OnceAged DEF StartRead, Issue
<1>5. CASE StartWrite(t)
  BY <1>5, OnceAged DEF StartWrite, Issue
<1>6. CASE RefuseWrite(t)
  <2>1. AgeRadio /\ command' = NoCommand
    BY <1>6 DEF RefuseWrite, ReplyInv, Running, request
  <2> QED
    BY <2>1, OnceAged
<1>7. CASE SendPayload(t)
  BY <1>7, OnceFrame DEF SendPayload, radio
<1>8. CASE PayloadLeaves(t)
  <2>1. /\ gwrite = "sending" /\ gwrite' = "sent" /\ UNCHANGED command
        /\ uplink' = uplink \cup {[link |-> handle, op |-> command, current |-> TRUE]}
        /\ parameter' = IF command = "Write" THEN "sent" ELSE parameter
    BY <1>8 DEF PayloadLeaves
  <2>2. CASE command = "Write"
    <3>1. \A p \in uplink : ~Carries(p)
      BY <2>1, <2>2 DEF ReplyInv, Outcome, NoWrite, Carries
    <3> QED
      BY <2>1, <2>2, <3>1 DEF WriteOnce, Carries
  <2>3. CASE command # "Write"
    BY <2>1, <2>3 DEF WriteOnce, Carries
  <2> QED
    BY <2>2, <2>3
<1>9. CASE WriteReturns(t)
  BY <1>9, OnceFrame DEF WriteReturns, radio, outcome
<1>10. CASE CommandReturns(t)
  BY <1>10, OnceFrame DEF CommandReturns, EndCommand, radio, outcome
<1>11. CASE PreflightPasses(t)
  BY <1>11, OnceAged DEF PreflightPasses, Issue, ReplyInv, Outcome, outcome
<1>12. CASE LinkCloses(t) \/ CloseFails(t)
  BY <1>12, OnceFrame DEF LinkCloses, CloseFails, request, outcome
<1> QED
  BY <1>2, <1>3, <1>4, <1>5, <1>6, <1>7, <1>8, <1>9, <1>10, <1>11, <1>12 DEF Owner

LEMMA OnceRadio ==
  ASSUME WriteOnce, Radio
  PROVE  WriteOnce'
<1>1. CASE LinkOpens
  BY <1>1, OnceFrame DEF LinkOpens, request, outcome
<1>2. ASSUME NEW g \in Gens,
             LinkBreaks(g) \/ DisconnectedCallback(g) \/ NoteLost(g) \/ Notification(g)
      PROVE  WriteOnce'
  <2>1. uplink' \subseteq uplink /\ UNCHANGED <<parameter, command, gwrite>>
    BY <1>2 DEF LinkBreaks, DisconnectedCallback, NoteLost, Notification, request, outcome
  <2> QED
    BY <2>1, OnceFrame
<1>3. ASSUME NEW p \in uplink, DeviceAnswers(p) PROVE WriteOnce'
  <2>1. /\ uplink' = uplink \ {p} /\ UNCHANGED <<command, gwrite>>
        /\ Carries(p) \/ UNCHANGED parameter
    BY <1>3 DEF DeviceAnswers, Carries, request
  <2>2. CASE Carries(p)
    <3>1. \A q \in uplink' : ~Carries(q)
      BY <2>1, <2>2 DEF WriteOnce
    <3>2. ~(command = "Write" /\ gwrite \in {"created", "sending"})
      BY <2>2 DEF WriteOnce
    <3> QED
      BY <2>1, <3>1, <3>2 DEF WriteOnce, Carries
  <2>3. CASE UNCHANGED parameter
    BY <2>1, <2>3, OnceFrame
  <2> QED
    BY <2>1, <2>2, <2>3
<1> QED
  BY <1>1, <1>2, <1>3 DEF Radio

LEMMA OnceStep == LinkInv /\ ReplyInv /\ WriteOnce /\ [Next]_vars => WriteOnce'
<1>1. UNCHANGED vars /\ WriteOnce => WriteOnce'
  BY OnceFrame DEF vars, request, radio, outcome
<1> QED
  BY <1>1, OnceOwner, OnceRadio DEF Next

\* The links that were given up are those of transactions before this one.
GivenUp == \A g \in leaked : g < generation

LEMMA GivenUpStep == LinkInv /\ ReplyInv /\ GivenUp /\ [Next]_vars => GivenUp'
<1> SUFFICES ASSUME LinkInv, ReplyInv, GivenUp, [Next]_vars PROVE GivenUp'
  OBVIOUS
<1>1. generation \in Nat /\ \A g \in leaked : g \in Nat
  BY BoundAssumption DEF LinkInv, TypeOK, ControlTypes, RadioTypes
<1>2. CASE UNCHANGED leaked /\ generation' \in {generation, generation + 1}
  BY <1>1, <1>2 DEF GivenUp
<1>3. ASSUME NEW t \in Tasks, CloseFails(t) PROVE GivenUp'
  BY <1>1, <1>3 DEF CloseFails, GivenUp, ReplyInv, Numbered, session
<1>4. ASSUME NEW t \in Tasks, Owner(t), ~CloseFails(t) PROVE GivenUp'
  <2>1. UNCHANGED leaked /\ generation' \in {generation, generation + 1}
    BY <1>4 DEF Owner, Begin, ConnectReturns, ConnectFails, Subscribed, Settled, PrepareFails,
       StartRead, StartWrite, RefuseWrite, SendPayload, PayloadLeaves, WriteReturns,
       CommandReturns, PreflightPasses, TimeOut, CommandFails, Drain, LinkCloses, Resume,
       Leave, Release, Cancel, Disconnect, Issue, AgeRadio, session, radio
  <2> QED
    BY <1>2, <2>1
<1>5. CASE Radio
  <2>1. UNCHANGED <<leaked, generation>>
    BY <1>5 DEF Radio, LinkOpens, LinkBreaks, DisconnectedCallback, NoteLost, Notification,
       DeviceAnswers, session
  <2> QED
    BY <1>2, <2>1
<1>6. CASE UNCHANGED vars
  BY <1>2, <1>6 DEF vars, session, radio
<1> QED
  BY <1>3, <1>4, <1>5, <1>6 DEF Next

Mapped == [Transport!Next]_(Transport!transport)

\* What a task does about the link alone, and what neither it nor the radio shows.
LEMMA Unseen ==
  ASSUME UNCHANGED <<owner, outcome>>, (links \ leaked)' = links \ leaked
  PROVE  Mapped
BY DEF Mapped, Transport!transport, outcome

LEMMA GoesDown ==
  ASSUME LinkInv, UNCHANGED <<owner, outcome>>, NEW g, (links \ leaked)' = (links \ leaked) \ {g}
  PROVE  Mapped
<1>1. PICK h \in Nat : links \ leaked \subseteq {h}
  BY OneUp
<1>2. CASE links \ leaked = {} \/ g # h
  <2>1. (links \ leaked)' = links \ leaked
    BY <1>1, <1>2
  <2> QED
    BY <2>1, Unseen
<1>3. CASE links \ leaked # {} /\ g = h
  <2>1. owner # NoTask /\ (links \ leaked)' = {}
    BY <1>1, <1>3, OneUp
  <2>2. Transport!Disconnect
    BY <2>1 DEF Transport!Disconnect, outcome
  <2> QED
    BY <2>2 DEF Mapped, Transport!Next
<1> QED
  BY <1>2, <1>3

LEMMA MappedOwner ==
  ASSUME LinkInv, ReplyInv, WriteOnce, GivenUp, NEW t \in Tasks, Owner(t)
  PROVE  Mapped
<1> USE DEF radio, outcome
<1>1. CASE Begin(t)
  <2>1. owner = NoTask /\ owner' = t /\ UNCHANGED <<links, leaked, write_state, parameter>>
    BY <1>1 DEF Begin
  <2>2. Transport!Begin(t)
    BY <2>1, OneUp DEF Transport!Begin
  <2> QED
    BY <2>2 DEF Mapped, Transport!Next
<1>2. CASE \/ ConnectReturns(t) \/ ConnectFails(t) \/ Subscribed(t) \/ Settled(t)
           \/ PrepareFails(t) \/ WriteReturns(t) \/ CommandReturns(t) \/ TimeOut(t)
           \/ CommandFails(t) \/ Drain(t) \/ Resume(t) \/ Leave(t) \/ Cancel(t)
  <2>1. UNCHANGED <<owner, links, leaked, write_state, parameter>>
    BY <1>2 DEF ConnectReturns, ConnectFails, Subscribed, Settled, PrepareFails, WriteReturns,
       CommandReturns, TimeOut, CommandFails, Drain, Resume, Leave, Cancel, session
  <2> QED
    BY <2>1, Unseen
<1>3. CASE PreflightPasses(t) \/ \E c \in {"ReadLive", "ReadEEP"} : StartRead(t, c)
  <2>1. UNCHANGED <<owner, links, leaked, write_state, parameter>>
    BY <1>3 DEF PreflightPasses, StartRead, Issue, AgeRadio
  <2> QED
    BY <2>1, Unseen
<1>4. CASE StartWrite(t) \/ RefuseWrite(t)
  <2>1. /\ owner = t /\ UNCHANGED <<owner, links, leaked>>
        /\ write_state' = "not_attempted" /\ parameter' = "unsent"
    BY <1>4 DEF StartWrite, RefuseWrite, Issue, AgeRadio, session
  <2>2. Transport!Ask
    BY <2>1, NoTaskAssumption DEF Transport!Ask
  <2> QED
    BY <2>2 DEF Mapped, Transport!Next
<1>5. CASE SendPayload(t)
  <2>1. /\ owner = t /\ gwrite = "created" /\ UNCHANGED <<owner, links, leaked, parameter>>
        /\ write_state' = IF command = "Write" THEN "attempted" ELSE write_state
    BY <1>5 DEF SendPayload, session
  <2>2. CASE command = "Write"
    <3>1. Transport!Record
      BY <2>1, <2>2, NoTaskAssumption DEF Transport!Record, ReplyInv, Outcome
    <3> QED
      BY <3>1 DEF Mapped, Transport!Next
  <2>3. CASE command # "Write"
    BY <2>1, <2>3, Unseen
  <2> QED
    BY <2>2, <2>3
<1>6. CASE PayloadLeaves(t)
  <2>1. /\ owner = t /\ gwrite = "sending" /\ handle \in links
        /\ UNCHANGED <<owner, links, leaked, write_state>>
        /\ parameter' = IF command = "Write" THEN "sent" ELSE parameter
    BY <1>6 DEF PayloadLeaves, session
  <2>2. CASE command = "Write"
    <3>1. handle \notin leaked
      BY <2>1 DEF LinkInv, TypeOK, ControlTypes, RadioTypes, ReplyInv, Numbered, GivenUp
    <3>2. Transport!Send
      BY <2>1, <2>2, <3>1 DEF Transport!Send, ReplyInv, Outcome, WriteOnce
    <3> QED
      BY <3>2 DEF Mapped, Transport!Next
  <2>3. CASE command # "Write"
    BY <2>1, <2>3, Unseen
  <2> QED
    BY <2>2, <2>3
<1>7. CASE LinkCloses(t)
  BY <1>7, GoesDown DEF LinkCloses, session
<1>8. CASE CloseFails(t)
  BY <1>8, GoesDown DEF CloseFails, session
<1>9. CASE Release(t)
  <2>1. stage = "closing" /\ closing = NoLink /\ owner = t /\ owner' = NoTask
        /\ UNCHANGED <<links, leaked, write_state, parameter>>
    BY <1>9 DEF Release
  <2>2. links \ leaked = {}
    BY <2>1 DEF LinkInv, Budget, Held, TypeOK, RadioTypes
  <2>3. Transport!End
    BY <2>1, <2>2, NoTaskAssumption DEF Transport!End
  <2> QED
    BY <2>3 DEF Mapped, Transport!Next
<1> QED
  BY <1>1, <1>2, <1>3, <1>4, <1>5, <1>6, <1>7, <1>8, <1>9 DEF Owner

LEMMA MappedRadio ==
  ASSUME LinkInv, ReplyInv, WriteOnce, GivenUp, Radio
  PROVE  Mapped
<1> USE DEF outcome
<1>1. CASE LinkOpens
  <2>1. /\ stage = "connecting" /\ links' = links \cup {generation} /\ generation \notin links
        /\ UNCHANGED <<owner, leaked, write_state, parameter>>
    BY <1>1 DEF LinkOpens, session
  <2>2. generation \in Gens /\ generation \notin leaked /\ owner # NoTask
    BY <2>1, BoundAssumption DEF LinkInv, Budget, GivenUp
  <2>3. links \ leaked = {} /\ (links \ leaked)' = {generation}
    BY <2>1, <2>2 DEF LinkInv, Held
  <2>4. Transport!Connect(generation)
    BY <2>1, <2>2, <2>3 DEF Transport!Connect
  <2> QED
    BY <2>2, <2>4 DEF Mapped, Transport!Next
<1>2. ASSUME NEW g \in Gens, LinkBreaks(g) PROVE Mapped
  BY <1>2, GoesDown DEF LinkBreaks, session
<1>3. ASSUME NEW g \in Gens, DisconnectedCallback(g) \/ NoteLost(g) PROVE Mapped
  <2>1. UNCHANGED <<owner, links, leaked, write_state, parameter>>
    BY <1>3 DEF DisconnectedCallback, NoteLost, session
  <2> QED
    BY <2>1, Unseen
<1>4. ASSUME NEW g \in Gens, Notification(g) PROVE Mapped
  <2>1. UNCHANGED <<owner, links, leaked, parameter>>
    BY <1>4 DEF Notification, session
  <2>2. CASE UNCHANGED write_state
    BY <2>1, <2>2, Unseen
  <2>3. CASE write_state' # write_state
    <3>1. /\ Listening(g) /\ Head(air[g]).kind = "ok" /\ command = "Write"
          /\ air[g] # <<>> /\ write_state' = "acknowledged"
      BY <1>4, <2>3 DEF Notification, Accumulate, Complete
    <3>2. /\ g = generation /\ parameter = "accepted"
      BY <3>1 DEF Listening, ReplyInv, Outcome
    <3>3. write_state = "attempted"
      BY <2>3, <3>1, <3>2 DEF LinkInv, TypeOK, ControlTypes, ReplyInv, Outcome
    <3>4. owner # NoTask
      BY <3>1 DEF LinkInv, Budget, ReplyInv, Running, Listening
    <3>5. Transport!Confirm
      BY <2>1, <3>1, <3>2, <3>3, <3>4 DEF Transport!Confirm
    <3> QED
      BY <3>5 DEF Mapped, Transport!Next
  <2> QED
    BY <2>2, <2>3
<1>5. ASSUME NEW p \in uplink, DeviceAnswers(p) PROVE Mapped
  <2>1. /\ UNCHANGED <<owner, links, leaked, write_state>>
        /\ IF Carries(p) THEN parameter' \in {"accepted", "refused"} ELSE UNCHANGED parameter
    BY <1>5 DEF DeviceAnswers, Carries, session
  <2>2. CASE Carries(p)
    <3>1. Transport!Answer
      BY <2>1, <2>2 DEF Transport!Answer, WriteOnce
    <3> QED
      BY <3>1 DEF Mapped, Transport!Next
  <2>3. CASE ~Carries(p)
    BY <2>1, <2>3, Unseen
  <2> QED
    BY <2>2, <2>3
<1> QED
  BY <1>1, <1>2, <1>3, <1>4, <1>5 DEF Radio

-------------------------------------------------------------------------------
(* Theorems                                                                 *)

\* What _notification lets through to the caller of a read is the whole reply to
\* this very command, whatever the radio drops and whichever callbacks come late.
THEOREM RepliesWhole == Spec => []ReplyIntegrity
<1>1. ReplyInv => ReplyIntegrity
  BY DEF ReplyInv
<1> QED
  BY ReplyAlways, <1>1, PTL

\* write_state, recorded before the payload can leave and raised by the
\* completion envelope alone, never understates what the unit did with it.
THEOREM WriteStateTrue == Spec => []WriteStateTruthful
<1>1. ReplyInv => WriteStateTruthful
  BY DEF ReplyInv, Outcome, WriteStateTruthful
<1> QED
  BY ReplyAlways, <1>1, PTL

\* A transaction that is ready for its next command has nothing on its link, for a
\* failed command always disconnects; and no callback of an earlier link poisons it.
THEOREM ReadyClean == Spec => []ReadyIsClean
<1>1. LinkInv /\ ReplyInv => ReadyIsClean
  <2> SUFFICES ASSUME LinkInv, ReplyInv, stage = "ready" PROVE ReadyIsClean
    BY DEF ReadyIsClean
  <2>1. ASSUME Healthy PROVE air[handle] = <<>> /\ \A p \in uplink : p.link # handle
    <3>1. Quiet(generation)
      BY QuietWhenAnswered
    <3>2. handle = generation /\ handle \in Gens
      BY <2>1 DEF Healthy, LinkInv, TypeOK, RadioTypes, ReplyInv, Numbered
    <3> QED
      BY <3>1, <3>2 DEF Quiet
  <2>2. ASSUME ~Healthy PROVE handle \notin links
    BY <2>2 DEF Healthy, LinkInv, TypeOK, RadioTypes, ReplyInv, Honest
  <2> QED
    BY <2>1, <2>2 DEF ReadyIsClean
<1>2. Spec => []LinkInv
  BY LinkInit, LinkStep, PTL DEF Spec
<1> QED
  BY ReplyAlways, <1>1, <1>2, PTL

\* The client implements what TransportContract promises its users: see
\* KeepsTransport.
THEOREM TransportKept == Spec => KeepsTransport
<1> DEFINE Inv == LinkInv /\ ReplyInv /\ WriteOnce /\ GivenUp
<1>1. Init => Inv /\ Transport!Init
  BY LinkInit, ReplyInit DEF Init, Transport!Init, WriteOnce, GivenUp
<1>2. Inv /\ [Next]_vars => Inv'
  BY LinkStep, ReplyStep, OnceStep, GivenUpStep
<1>3. Inv /\ [Next]_vars => Mapped
  <2> SUFFICES ASSUME Inv, [Next]_vars PROVE Mapped
    OBVIOUS
  <2>1. CASE UNCHANGED vars
    BY <2>1, Unseen DEF vars, session, radio
  <2> QED
    BY <2>1, MappedOwner, MappedRadio DEF Next
<1> QED
  BY <1>1, <1>2, <1>3, PTL DEF Spec, KeepsTransport, Transport!Spec, Mapped
===============================================================================
