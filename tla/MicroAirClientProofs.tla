------------------------- MODULE MicroAirClientProofs -------------------------
(***************************************************************************)
(* Machine-checked theorems about MicroAirClient, for any set of tasks,    *)
(* any bound on generations and any image sizes.                           *)
(***************************************************************************)
EXTENDS MicroAirClient, FiniteSetTheorems, TLAPS

\* Where the owner stands decides how many generations it may still spend and
\* which of handle and closing can name a link.
Budget ==
  /\ (stage = "free") <=> (owner = NoTask)
  /\ stage # "free" => generation \in Gens
  /\ stage \in {"connecting", "preparing", "settling", "command", "draining"} =>
       generation + 2 <= MaxGen
  /\ stage = "ready" =>
       generation + (IF handle = NoLink THEN 1 ELSE 2) <= MaxGen
  /\ stage = "dropping" => generation + 1 <= MaxGen
  /\ stage \in {"preparing", "settling", "command", "draining"} => handle # NoLink
  /\ stage \in {"free", "connecting", "dropping", "closing"} => handle = NoLink
  /\ stage \notin {"dropping", "closing"} => closing = NoLink
  /\ stage \in {"command", "draining"} => command \in Commands

\* The links the owner answers for.
Held == IF stage = "connecting" THEN {generation} ELSE {handle, closing}

\* TypeOK and LinkOwnership are not inductive: that a link belongs to the
\* owner is only preserved if the owner's handle says which one it is.
LinkInv == TypeOK /\ Budget /\ links \ leaked \subseteq Held

USE DEF NoLink, NoCommand, Gens

\* Marking notifications keeps their shape.
LEMMA MarkType ==
  ASSUME NEW s \in Seq(Notes), NEW b \in BOOLEAN
  PROVE  Mark(s, b) \in Seq(Notes)
<1>1. PICK n \in Nat : s \in [1..n -> Notes]
  OBVIOUS
<1>2. \A i \in 1..n : [s[i] EXCEPT !.current = b] \in Notes
  BY <1>1 DEF Notes
<1> QED
  BY <1>1, <1>2 DEF Mark

LEMMA AgeType ==
  ASSUME RadioTypes, AgeRadio
  PROVE  /\ uplink' \subseteq Payloads
         /\ air' \in [Gens -> Seq(Notes)]
         /\ UNCHANGED <<links, leaked, lost>>
<1>1. uplink' \subseteq Payloads
  BY DEF RadioTypes, AgeRadio, Payloads
<1>2. \A g \in Gens : Mark(air[g], FALSE) \in Seq(Notes)
  BY MarkType DEF RadioTypes
<1>3. air' \in [Gens -> Seq(Notes)]
  BY <1>2 DEF AgeRadio
<1> QED
  BY <1>1, <1>3 DEF AgeRadio

LEMMA SendType ==
  ASSUME RadioTypes, NEW p \in uplink, DeviceAnswers(p)
  PROVE  air' \in [Gens -> Seq(Notes)]
<1>1. PICK accepts \in BOOLEAN, data \in Replies(p.op) :
        air' = [air EXCEPT ![p.link] = @ \o
                  Mark(IF accepts THEN Append(data, Envelope("ok"))
                                  ELSE <<Envelope("fail")>>, p.current)]
  BY DEF DeviceAnswers
<1>2. p \in Payloads
  BY DEF RadioTypes
<1>3. \A n \in Nat : Image(n) \in Seq(Notes)
  BY DEF Image, Frame, Notes
<1>4. data \in Seq(Notes)
  <2>1. CASE p.op = "ReadLive"
    BY <1>3, <2>1 DEF Replies
  <2>2. CASE p.op = "ReadEEP"
    BY <1>3, <2>2, SizeAssumption DEF Replies
  <2>3. CASE p.op \notin {"ReadLive", "ReadEEP"}
    <3>1. data = <<>>
      BY <2>3 DEF Replies
    <3> QED
      BY <3>1
  <2> QED
    BY <2>1, <2>2, <2>3
<1>5. Envelope("ok") \in Notes /\ Envelope("fail") \in Notes
  BY DEF Envelope, Notes
<1> DEFINE reply == IF accepts THEN Append(data, Envelope("ok"))
                               ELSE <<Envelope("fail")>>
<1>6. reply \in Seq(Notes)
  BY <1>4, <1>5
<1> HIDE DEF reply
<1>7. Mark(reply, p.current) \in Seq(Notes)
  BY <1>2, <1>6, MarkType DEF Payloads
<1>8. air' = [air EXCEPT ![p.link] = @ \o Mark(reply, p.current)]
  BY <1>1 DEF reply
<1>9. p.link \in Gens /\ air[p.link] \in Seq(Notes)
  BY <1>2 DEF Payloads, RadioTypes
<1>10. air[p.link] \o Mark(reply, p.current) \in Seq(Notes)
  BY <1>7, <1>9
<1> QED
  BY <1>8, <1>9, <1>10 DEF RadioTypes

LEMMA TakeType ==
  ASSUME RadioTypes, NEW g \in Gens, air[g] # <<>>,
         air' = [air EXCEPT ![g] = Tail(@)]
  PROVE  air' \in [Gens -> Seq(Notes)] /\ Head(air[g]) \in Notes
<1>1. air[g] \in Seq(Notes)
  BY DEF RadioTypes
<1>2. Tail(air[g]) \in Seq(Notes) /\ Head(air[g]) \in Notes
  BY <1>1
<1> QED
  BY <1>2 DEF RadioTypes

LEMMA LinkInit == Init => LinkInv
<1> SUFFICES ASSUME Init PROVE LinkInv
  OBVIOUS
<1>1. FlagTypes
  BY Zenon DEF Init, FlagTypes
<1>2. ControlTypes
  BY BoundAssumption DEF Init, ControlTypes, Stages
<1>3. RadioTypes
  BY DEF Init, RadioTypes
<1>4. Budget /\ links \ leaked \subseteq Held
  BY NoTaskAssumption DEF Init, Budget, Held
<1> QED
  BY <1>1, <1>2, <1>3, <1>4 DEF LinkInv, TypeOK

\* No step of the owner or of the radio breaks the invariant.
LEMMA LinkStep == LinkInv /\ [Next]_vars => LinkInv'
<1> SUFFICES ASSUME LinkInv, [Next]_vars PROVE LinkInv'
  OBVIOUS
<1> USE BoundAssumption, NoTaskAssumption
<1>0. CASE UNCHANGED vars
  BY <1>0 DEF LinkInv, TypeOK, FlagTypes, ControlTypes, RadioTypes, Budget, Held, vars, session, client, request,
              radio, outcome
<1>1. ASSUME NEW t \in Tasks, Begin(t) PROVE LinkInv'
  <2>1. FlagTypes'
    BY <1>1, Zenon DEF LinkInv, TypeOK, FlagTypes, Begin,
       session, client, request, radio, outcome
  <2>2. ControlTypes'
    BY <1>1 DEF LinkInv, TypeOK, ControlTypes, Budget, Stages, Begin,
       session, client, request, radio, outcome
  <2>3. RadioTypes'
    BY <1>1 DEF LinkInv, TypeOK, ControlTypes, RadioTypes, Budget, Begin,
       session, client, request, radio, outcome
  <2>4. Budget'
    BY <1>1 DEF LinkInv, TypeOK, ControlTypes, Budget, Commands, Begin,
       session, client, request, radio, outcome
  <2>5. (links \ leaked \subseteq Held)'
    BY <1>1 DEF LinkInv, TypeOK, ControlTypes, RadioTypes, Budget, Held, Begin,
       session, client, request, radio, outcome
  <2> QED
    BY <2>1, <2>2, <2>3, <2>4, <2>5 DEF LinkInv, TypeOK
<1>2. ASSUME NEW t \in Tasks, ConnectReturns(t) PROVE LinkInv'
  <2>1. FlagTypes'
    BY <1>2, Zenon DEF LinkInv, TypeOK, FlagTypes, ConnectReturns,
       session, client, request, radio, outcome
  <2>2. ControlTypes'
    BY <1>2 DEF LinkInv, TypeOK, ControlTypes, Budget, Stages, ConnectReturns,
       session, client, request, radio, outcome
  <2>3. RadioTypes'
    BY <1>2 DEF LinkInv, TypeOK, ControlTypes, RadioTypes, Budget, ConnectReturns,
       session, client, request, radio, outcome
  <2>4. Budget'
    BY <1>2 DEF LinkInv, TypeOK, ControlTypes, Budget, Commands, ConnectReturns,
       session, client, request, radio, outcome
  <2>5. (links \ leaked \subseteq Held)'
    BY <1>2 DEF LinkInv, TypeOK, ControlTypes, Budget, Held, ConnectReturns,
       session, client, request, radio, outcome
  <2> QED
    BY <2>1, <2>2, <2>3, <2>4, <2>5 DEF LinkInv, TypeOK
<1>3. ASSUME NEW t \in Tasks, ConnectFails(t) PROVE LinkInv'
  <2>1. FlagTypes'
    BY <1>3, Zenon DEF LinkInv, TypeOK, FlagTypes, ConnectFails, Disconnect,
       session, client, request, radio, outcome
  <2>2. ControlTypes'
    BY <1>3 DEF LinkInv, TypeOK, ControlTypes, Budget, Stages, ConnectFails, Disconnect,
       session, client, request, radio, outcome
  <2>3. RadioTypes'
    BY <1>3 DEF LinkInv, TypeOK, ControlTypes, RadioTypes, Budget, ConnectFails, Disconnect,
       session, client, request, radio, outcome
  <2>4. Budget'
    BY <1>3 DEF LinkInv, TypeOK, ControlTypes, Budget, Commands, ConnectFails, Disconnect,
       session, client, request, radio, outcome
  <2>5. (links \ leaked \subseteq Held)'
    BY <1>3 DEF LinkInv, TypeOK, ControlTypes, Budget, Held, ConnectFails, Disconnect,
       session, client, request, radio, outcome
  <2> QED
    BY <2>1, <2>2, <2>3, <2>4, <2>5 DEF LinkInv, TypeOK
<1>4. ASSUME NEW t \in Tasks, Subscribed(t) PROVE LinkInv'
  <2>1. FlagTypes'
    BY <1>4, Zenon DEF LinkInv, TypeOK, FlagTypes, Subscribed,
       session, client, request, radio, outcome
  <2>2. ControlTypes'
    BY <1>4 DEF LinkInv, TypeOK, ControlTypes, Budget, Stages, Subscribed,
       session, client, request, radio, outcome
  <2>3. RadioTypes'
    BY <1>4 DEF LinkInv, TypeOK, ControlTypes, RadioTypes, Budget, Subscribed,
       session, client, request, radio, outcome
  <2>4. Budget'
    BY <1>4 DEF LinkInv, TypeOK, ControlTypes, Budget, Commands, Subscribed,
       session, client, request, radio, outcome
  <2>5. (links \ leaked \subseteq Held)'
    BY <1>4 DEF LinkInv, TypeOK, ControlTypes, Budget, Held, Subscribed,
       session, client, request, radio, outcome
  <2> QED
    BY <2>1, <2>2, <2>3, <2>4, <2>5 DEF LinkInv, TypeOK
<1>29. ASSUME NEW t \in Tasks, Settled(t) PROVE LinkInv'
  <2>1. FlagTypes'
    BY <1>29, Zenon DEF LinkInv, TypeOK, FlagTypes, Settled,
       session, client, request, radio, outcome
  <2>2. ControlTypes'
    BY <1>29 DEF LinkInv, TypeOK, ControlTypes, Budget, Stages, Settled,
       session, client, request, radio, outcome
  <2>3. RadioTypes'
    BY <1>29 DEF LinkInv, TypeOK, ControlTypes, RadioTypes, Budget, Settled,
       session, client, request, radio, outcome
  <2>4. Budget'
    BY <1>29 DEF LinkInv, TypeOK, ControlTypes, Budget, Commands, Settled,
       session, client, request, radio, outcome
  <2>5. (links \ leaked \subseteq Held)'
    BY <1>29 DEF LinkInv, TypeOK, ControlTypes, Budget, Held, Settled,
       session, client, request, radio, outcome
  <2> QED
    BY <2>1, <2>2, <2>3, <2>4, <2>5 DEF LinkInv, TypeOK
<1>5. ASSUME NEW t \in Tasks, PrepareFails(t) PROVE LinkInv'
  <2>1. FlagTypes'
    BY <1>5, Zenon DEF LinkInv, TypeOK, FlagTypes, PrepareFails, Disconnect,
       session, client, request, radio, outcome
  <2>2. ControlTypes'
    BY <1>5 DEF LinkInv, TypeOK, ControlTypes, Budget, Stages, PrepareFails, Disconnect,
       session, client, request, radio, outcome
  <2>3. RadioTypes'
    BY <1>5 DEF LinkInv, TypeOK, ControlTypes, RadioTypes, Budget, PrepareFails, Disconnect,
       session, client, request, radio, outcome
  <2>4. Budget'
    BY <1>5 DEF LinkInv, TypeOK, ControlTypes, Budget, Commands, PrepareFails, Disconnect,
       session, client, request, radio, outcome
  <2>5. (links \ leaked \subseteq Held)'
    BY <1>5 DEF LinkInv, TypeOK, ControlTypes, Budget, Held, PrepareFails, Disconnect,
       session, client, request, radio, outcome
  <2> QED
    BY <2>1, <2>2, <2>3, <2>4, <2>5 DEF LinkInv, TypeOK
<1>6. ASSUME NEW t \in Tasks, StartWrite(t) PROVE LinkInv'
  <2>1. FlagTypes'
    BY <1>6, Zenon DEF LinkInv, TypeOK, FlagTypes, StartWrite, Issue, Healthy, AgeRadio,
       session, client, request, radio, outcome
  <2>2. ControlTypes'
    BY <1>6 DEF LinkInv, TypeOK, ControlTypes, Budget, Stages, StartWrite, Issue, Healthy, Commands, AgeRadio,
       session, client, request, radio, outcome
  <2>3. RadioTypes'
    <3>1. AgeRadio /\ buffer' = <<>>
      BY <1>6 DEF StartWrite, Issue
    <3>2. /\ uplink' \subseteq Payloads
          /\ air' \in [Gens -> Seq(Notes)]
          /\ UNCHANGED <<links, leaked, lost>>
      BY <3>1, AgeType DEF LinkInv, TypeOK
    <3> QED
      BY <3>1, <3>2 DEF LinkInv, TypeOK, RadioTypes
  <2>4. Budget'
    BY <1>6 DEF LinkInv, TypeOK, ControlTypes, Budget, Commands, StartWrite, Issue, Healthy, AgeRadio,
       session, client, request, radio, outcome
  <2>5. (links \ leaked \subseteq Held)'
    BY <1>6 DEF LinkInv, TypeOK, ControlTypes, Budget, Held, StartWrite, Issue, Healthy, AgeRadio,
       session, client, request, radio, outcome
  <2> QED
    BY <2>1, <2>2, <2>3, <2>4, <2>5 DEF LinkInv, TypeOK
<1>7. ASSUME NEW t \in Tasks, RefuseWrite(t) PROVE LinkInv'
  <2>1. FlagTypes'
    BY <1>7, Zenon DEF LinkInv, TypeOK, FlagTypes, RefuseWrite, AgeRadio,
       session, client, request, radio, outcome
  <2>2. ControlTypes'
    BY <1>7 DEF LinkInv, TypeOK, ControlTypes, Budget, Stages, RefuseWrite, AgeRadio,
       session, client, request, radio, outcome
  <2>3. RadioTypes'
    BY <1>7, AgeType DEF LinkInv, TypeOK, ControlTypes, RadioTypes, Budget, RefuseWrite, AgeRadio,
       session, client, request, radio, outcome
  <2>4. Budget'
    BY <1>7 DEF LinkInv, TypeOK, ControlTypes, Budget, Commands, RefuseWrite, AgeRadio,
       session, client, request, radio, outcome
  <2>5. (links \ leaked \subseteq Held)'
    BY <1>7 DEF LinkInv, TypeOK, ControlTypes, Budget, Held, RefuseWrite, AgeRadio,
       session, client, request, radio, outcome
  <2> QED
    BY <2>1, <2>2, <2>3, <2>4, <2>5 DEF LinkInv, TypeOK
<1>8. ASSUME NEW t \in Tasks, SendPayload(t) PROVE LinkInv'
  <2>1. FlagTypes'
    BY <1>8, Zenon DEF LinkInv, TypeOK, FlagTypes, SendPayload,
       session, client, request, radio, outcome
  <2>2. ControlTypes'
    BY <1>8 DEF LinkInv, TypeOK, ControlTypes, Budget, Stages, SendPayload,
       session, client, request, radio, outcome
  <2>3. RadioTypes'
    BY <1>8 DEF LinkInv, TypeOK, ControlTypes, RadioTypes, Budget, SendPayload,
       session, client, request, radio, outcome
  <2>4. Budget'
    BY <1>8 DEF LinkInv, TypeOK, ControlTypes, Budget, Commands, SendPayload,
       session, client, request, radio, outcome
  <2>5. (links \ leaked \subseteq Held)'
    BY <1>8 DEF LinkInv, TypeOK, ControlTypes, Budget, Held, SendPayload,
       session, client, request, radio, outcome
  <2> QED
    BY <2>1, <2>2, <2>3, <2>4, <2>5 DEF LinkInv, TypeOK
<1>9. ASSUME NEW t \in Tasks, PayloadLeaves(t) PROVE LinkInv'
  <2>1. FlagTypes'
    BY <1>9, Zenon DEF LinkInv, TypeOK, FlagTypes, PayloadLeaves,
       session, client, request, radio, outcome
  <2>2. ControlTypes'
    BY <1>9 DEF LinkInv, TypeOK, ControlTypes, Budget, Stages, PayloadLeaves, Payloads,
       session, client, request, radio, outcome
  <2>3. RadioTypes'
    <3>1. [link |-> handle, op |-> command, current |-> TRUE] \in Payloads
      BY <1>9 DEF LinkInv, TypeOK, ControlTypes, Budget, PayloadLeaves, Payloads
    <3> QED
      BY <1>9, <3>1 DEF LinkInv, TypeOK, RadioTypes, PayloadLeaves
  <2>4. Budget'
    BY <1>9 DEF LinkInv, TypeOK, ControlTypes, Budget, Commands, PayloadLeaves,
       session, client, request, radio, outcome
  <2>5. (links \ leaked \subseteq Held)'
    BY <1>9 DEF LinkInv, TypeOK, ControlTypes, Budget, Held, PayloadLeaves,
       session, client, request, radio, outcome
  <2> QED
    BY <2>1, <2>2, <2>3, <2>4, <2>5 DEF LinkInv, TypeOK
<1>10. ASSUME NEW t \in Tasks, WriteReturns(t) PROVE LinkInv'
  <2>1. FlagTypes'
    BY <1>10, Zenon DEF LinkInv, TypeOK, FlagTypes, WriteReturns,
       session, client, request, radio, outcome
  <2>2. ControlTypes'
    BY <1>10 DEF LinkInv, TypeOK, ControlTypes, Budget, Stages, WriteReturns,
       session, client, request, radio, outcome
  <2>3. RadioTypes'
    BY <1>10 DEF LinkInv, TypeOK, ControlTypes, RadioTypes, Budget, WriteReturns,
       session, client, request, radio, outcome
  <2>4. Budget'
    BY <1>10 DEF LinkInv, TypeOK, ControlTypes, Budget, Commands, WriteReturns,
       session, client, request, radio, outcome
  <2>5. (links \ leaked \subseteq Held)'
    BY <1>10 DEF LinkInv, TypeOK, ControlTypes, Budget, Held, WriteReturns,
       session, client, request, radio, outcome
  <2> QED
    BY <2>1, <2>2, <2>3, <2>4, <2>5 DEF LinkInv, TypeOK
<1>11. ASSUME NEW t \in Tasks, CommandReturns(t) PROVE LinkInv'
  <2>1. FlagTypes'
    BY <1>11, Zenon DEF LinkInv, TypeOK, FlagTypes, CommandReturns, EndCommand,
       session, client, request, radio, outcome
  <2>2. ControlTypes'
    BY <1>11 DEF LinkInv, TypeOK, ControlTypes, Budget, Stages, CommandReturns, EndCommand,
       session, client, request, radio, outcome
  <2>3. RadioTypes'
    BY <1>11 DEF LinkInv, TypeOK, ControlTypes, RadioTypes, Budget, CommandReturns, EndCommand,
       session, client, request, radio, outcome
  <2>4. Budget'
    BY <1>11 DEF LinkInv, TypeOK, ControlTypes, Budget, Commands, CommandReturns, EndCommand,
       session, client, request, radio, outcome
  <2>5. (links \ leaked \subseteq Held)'
    BY <1>11 DEF LinkInv, TypeOK, ControlTypes, Budget, Held, CommandReturns, EndCommand,
       session, client, request, radio, outcome
  <2> QED
    BY <2>1, <2>2, <2>3, <2>4, <2>5 DEF LinkInv, TypeOK
<1>12. ASSUME NEW t \in Tasks, PreflightPasses(t) PROVE LinkInv'
  <2>1. FlagTypes'
    BY <1>12, Zenon DEF LinkInv, TypeOK, FlagTypes, PreflightPasses, Issue, Healthy, AgeRadio,
       session, client, request, radio, outcome
  <2>2. ControlTypes'
    BY <1>12 DEF LinkInv, TypeOK, ControlTypes, Budget, Stages, PreflightPasses, Issue, Healthy, Commands, AgeRadio,
       session, client, request, radio, outcome
  <2>3. RadioTypes'
    <3>1. AgeRadio /\ buffer' = <<>>
      BY <1>12 DEF PreflightPasses, Issue
    <3>2. /\ uplink' \subseteq Payloads
          /\ air' \in [Gens -> Seq(Notes)]
          /\ UNCHANGED <<links, leaked, lost>>
      BY <3>1, AgeType DEF LinkInv, TypeOK
    <3> QED
      BY <3>1, <3>2 DEF LinkInv, TypeOK, RadioTypes
  <2>4. Budget'
    BY <1>12 DEF LinkInv, TypeOK, ControlTypes, Budget, Commands, PreflightPasses, Issue, Healthy, AgeRadio,
       session, client, request, radio, outcome
  <2>5. (links \ leaked \subseteq Held)'
    BY <1>12 DEF LinkInv, TypeOK, ControlTypes, Budget, Held, PreflightPasses, Issue, Healthy, AgeRadio,
       session, client, request, radio, outcome
  <2> QED
    BY <2>1, <2>2, <2>3, <2>4, <2>5 DEF LinkInv, TypeOK
<1>13. ASSUME NEW t \in Tasks, TimeOut(t) PROVE LinkInv'
  <2>1. FlagTypes'
    BY <1>13, Zenon DEF LinkInv, TypeOK, FlagTypes, TimeOut,
       session, client, request, radio, outcome
  <2>2. ControlTypes'
    BY <1>13 DEF LinkInv, TypeOK, ControlTypes, Budget, Stages, TimeOut,
       session, client, request, radio, outcome
  <2>3. RadioTypes'
    BY <1>13 DEF LinkInv, TypeOK, ControlTypes, RadioTypes, Budget, TimeOut,
       session, client, request, radio, outcome
  <2>4. Budget'
    BY <1>13 DEF LinkInv, TypeOK, ControlTypes, Budget, Commands, TimeOut,
       session, client, request, radio, outcome
  <2>5. (links \ leaked \subseteq Held)'
    BY <1>13 DEF LinkInv, TypeOK, ControlTypes, Budget, Held, TimeOut,
       session, client, request, radio, outcome
  <2> QED
    BY <2>1, <2>2, <2>3, <2>4, <2>5 DEF LinkInv, TypeOK
<1>14. ASSUME NEW t \in Tasks, CommandFails(t) PROVE LinkInv'
  <2>1. FlagTypes'
    BY <1>14, Zenon DEF LinkInv, TypeOK, FlagTypes, CommandFails,
       session, client, request, radio, outcome
  <2>2. ControlTypes'
    BY <1>14 DEF LinkInv, TypeOK, ControlTypes, Budget, Stages, CommandFails,
       session, client, request, radio, outcome
  <2>3. RadioTypes'
    BY <1>14 DEF LinkInv, TypeOK, ControlTypes, RadioTypes, Budget, CommandFails,
       session, client, request, radio, outcome
  <2>4. Budget'
    BY <1>14 DEF LinkInv, TypeOK, ControlTypes, Budget, Commands, CommandFails,
       session, client, request, radio, outcome
  <2>5. (links \ leaked \subseteq Held)'
    BY <1>14 DEF LinkInv, TypeOK, ControlTypes, Budget, Held, CommandFails,
       session, client, request, radio, outcome
  <2> QED
    BY <2>1, <2>2, <2>3, <2>4, <2>5 DEF LinkInv, TypeOK
<1>15. ASSUME NEW t \in Tasks, Drain(t) PROVE LinkInv'
  <2>1. FlagTypes'
    BY <1>15, Zenon DEF LinkInv, TypeOK, FlagTypes, Drain, Disconnect,
       session, client, request, radio, outcome
  <2>2. ControlTypes'
    BY <1>15 DEF LinkInv, TypeOK, ControlTypes, Budget, Stages, Drain, Disconnect,
       session, client, request, radio, outcome
  <2>3. RadioTypes'
    BY <1>15 DEF LinkInv, TypeOK, ControlTypes, RadioTypes, Budget, Drain, Disconnect,
       session, client, request, radio, outcome
  <2>4. Budget'
    BY <1>15 DEF LinkInv, TypeOK, ControlTypes, Budget, Commands, Drain, Disconnect,
       session, client, request, radio, outcome
  <2>5. (links \ leaked \subseteq Held)'
    BY <1>15 DEF LinkInv, TypeOK, ControlTypes, Budget, Held, Drain, Disconnect,
       session, client, request, radio, outcome
  <2> QED
    BY <2>1, <2>2, <2>3, <2>4, <2>5 DEF LinkInv, TypeOK
<1>16. ASSUME NEW t \in Tasks, LinkCloses(t) PROVE LinkInv'
  <2>1. FlagTypes'
    BY <1>16, Zenon DEF LinkInv, TypeOK, FlagTypes, LinkCloses,
       session, client, request, radio, outcome
  <2>2. ControlTypes'
    BY <1>16 DEF LinkInv, TypeOK, ControlTypes, Budget, Stages, LinkCloses,
       session, client, request, radio, outcome
  <2>3. RadioTypes'
    BY <1>16 DEF LinkInv, TypeOK, ControlTypes, RadioTypes, Budget, LinkCloses,
       session, client, request, radio, outcome
  <2>4. Budget'
    BY <1>16 DEF LinkInv, TypeOK, ControlTypes, Budget, Commands, LinkCloses,
       session, client, request, radio, outcome
  <2>5. (links \ leaked \subseteq Held)'
    BY <1>16 DEF LinkInv, TypeOK, ControlTypes, Budget, Held, LinkCloses,
       session, client, request, radio, outcome
  <2> QED
    BY <2>1, <2>2, <2>3, <2>4, <2>5 DEF LinkInv, TypeOK
<1>17. ASSUME NEW t \in Tasks, CloseFails(t) PROVE LinkInv'
  <2>1. FlagTypes'
    BY <1>17, Zenon DEF LinkInv, TypeOK, FlagTypes, CloseFails,
       session, client, request, radio, outcome
  <2>2. ControlTypes'
    BY <1>17 DEF LinkInv, TypeOK, ControlTypes, Budget, Stages, CloseFails,
       session, client, request, radio, outcome
  <2>3. RadioTypes'
    BY <1>17 DEF LinkInv, TypeOK, ControlTypes, RadioTypes, Budget, CloseFails,
       session, client, request, radio, outcome
  <2>4. Budget'
    BY <1>17 DEF LinkInv, TypeOK, ControlTypes, Budget, Commands, CloseFails,
       session, client, request, radio, outcome
  <2>5. (links \ leaked \subseteq Held)'
    BY <1>17 DEF LinkInv, TypeOK, ControlTypes, Budget, Held, CloseFails,
       session, client, request, radio, outcome
  <2> QED
    BY <2>1, <2>2, <2>3, <2>4, <2>5 DEF LinkInv, TypeOK
<1>18. ASSUME NEW t \in Tasks, Resume(t) PROVE LinkInv'
  <2>1. FlagTypes'
    BY <1>18, Zenon DEF LinkInv, TypeOK, FlagTypes, Resume,
       session, client, request, radio, outcome
  <2>2. ControlTypes'
    BY <1>18 DEF LinkInv, TypeOK, ControlTypes, Budget, Stages, Resume,
       session, client, request, radio, outcome
  <2>3. RadioTypes'
    BY <1>18 DEF LinkInv, TypeOK, ControlTypes, RadioTypes, Budget, Resume,
       session, client, request, radio, outcome
  <2>4. Budget'
    BY <1>18 DEF LinkInv, TypeOK, ControlTypes, Budget, Commands, Resume,
       session, client, request, radio, outcome
  <2>5. (links \ leaked \subseteq Held)'
    BY <1>18 DEF LinkInv, TypeOK, ControlTypes, Budget, Held, Resume,
       session, client, request, radio, outcome
  <2> QED
    BY <2>1, <2>2, <2>3, <2>4, <2>5 DEF LinkInv, TypeOK
<1>19. ASSUME NEW t \in Tasks, Leave(t) PROVE LinkInv'
  <2>1. FlagTypes'
    BY <1>19, Zenon DEF LinkInv, TypeOK, FlagTypes, Leave, Disconnect,
       session, client, request, radio, outcome
  <2>2. ControlTypes'
    BY <1>19 DEF LinkInv, TypeOK, ControlTypes, Budget, Stages, Leave, Disconnect,
       session, client, request, radio, outcome
  <2>3. RadioTypes'
    BY <1>19 DEF LinkInv, TypeOK, ControlTypes, RadioTypes, Budget, Leave, Disconnect,
       session, client, request, radio, outcome
  <2>4. Budget'
    BY <1>19 DEF LinkInv, TypeOK, ControlTypes, Budget, Commands, Leave, Disconnect,
       session, client, request, radio, outcome
  <2>5. (links \ leaked \subseteq Held)'
    BY <1>19 DEF LinkInv, TypeOK, ControlTypes, Budget, Held, Leave, Disconnect,
       session, client, request, radio, outcome
  <2> QED
    BY <2>1, <2>2, <2>3, <2>4, <2>5 DEF LinkInv, TypeOK
<1>20. ASSUME NEW t \in Tasks, Release(t) PROVE LinkInv'
  <2>1. FlagTypes'
    BY <1>20, Zenon DEF LinkInv, TypeOK, FlagTypes, Release,
       session, client, request, radio, outcome
  <2>2. ControlTypes'
    BY <1>20 DEF LinkInv, TypeOK, ControlTypes, Budget, Stages, Release,
       session, client, request, radio, outcome
  <2>3. RadioTypes'
    BY <1>20 DEF LinkInv, TypeOK, ControlTypes, RadioTypes, Budget, Release,
       session, client, request, radio, outcome
  <2>4. Budget'
    BY <1>20 DEF LinkInv, TypeOK, ControlTypes, Budget, Commands, Release,
       session, client, request, radio, outcome
  <2>5. (links \ leaked \subseteq Held)'
    BY <1>20 DEF LinkInv, TypeOK, ControlTypes, Budget, Held, Release,
       session, client, request, radio, outcome
  <2> QED
    BY <2>1, <2>2, <2>3, <2>4, <2>5 DEF LinkInv, TypeOK
<1>21. ASSUME NEW t \in Tasks, Cancel(t) PROVE LinkInv'
  <2>1. FlagTypes'
    BY <1>21, Zenon DEF LinkInv, TypeOK, FlagTypes, Cancel,
       session, client, request, radio, outcome
  <2>2. ControlTypes'
    BY <1>21 DEF LinkInv, TypeOK, ControlTypes, Budget, Stages, Cancel,
       session, client, request, radio, outcome
  <2>3. RadioTypes'
    BY <1>21 DEF LinkInv, TypeOK, ControlTypes, RadioTypes, Budget, Cancel,
       session, client, request, radio, outcome
  <2>4. Budget'
    BY <1>21 DEF LinkInv, TypeOK, ControlTypes, Budget, Commands, Cancel,
       session, client, request, radio, outcome
  <2>5. (links \ leaked \subseteq Held)'
    BY <1>21 DEF LinkInv, TypeOK, ControlTypes, Budget, Held, Cancel,
       session, client, request, radio, outcome
  <2> QED
    BY <2>1, <2>2, <2>3, <2>4, <2>5 DEF LinkInv, TypeOK
<1>22. ASSUME NEW t \in Tasks, NEW c \in {"ReadLive", "ReadEEP"}, StartRead(t, c)
      PROVE  LinkInv'
  <2>1. FlagTypes'
    BY <1>22, Zenon DEF LinkInv, TypeOK, FlagTypes, StartRead, Issue, Healthy, AgeRadio,
       session, client, request, radio, outcome
  <2>2. ControlTypes'
    BY <1>22 DEF LinkInv, TypeOK, ControlTypes, Budget, Stages, StartRead, Issue, Healthy, Commands, AgeRadio,
       session, client, request, radio, outcome
  <2>3. RadioTypes'
    <3>1. AgeRadio /\ buffer' = <<>>
      BY <1>22 DEF StartRead, Issue
    <3>2. /\ uplink' \subseteq Payloads
          /\ air' \in [Gens -> Seq(Notes)]
          /\ UNCHANGED <<links, leaked, lost>>
      BY <3>1, AgeType DEF LinkInv, TypeOK
    <3> QED
      BY <3>1, <3>2 DEF LinkInv, TypeOK, RadioTypes
  <2>4. Budget'
    BY <1>22 DEF LinkInv, TypeOK, ControlTypes, Budget, Commands, StartRead, Issue, Healthy, AgeRadio,
       session, client, request, radio, outcome
  <2>5. (links \ leaked \subseteq Held)'
    BY <1>22 DEF LinkInv, TypeOK, ControlTypes, Budget, Held, StartRead, Issue, Healthy, AgeRadio,
       session, client, request, radio, outcome
  <2> QED
    BY <2>1, <2>2, <2>3, <2>4, <2>5 DEF LinkInv, TypeOK
<1>23. CASE LinkOpens
  <2>1. FlagTypes'
    BY <1>23, Zenon DEF LinkInv, TypeOK, FlagTypes, LinkOpens,
       session, client, request, radio, outcome
  <2>2. ControlTypes'
    BY <1>23 DEF LinkInv, TypeOK, ControlTypes, Budget, Stages, LinkOpens,
       session, client, request, radio, outcome
  <2>3. RadioTypes'
    BY <1>23 DEF LinkInv, TypeOK, ControlTypes, RadioTypes, Budget, LinkOpens,
       session, client, request, radio, outcome
  <2>4. Budget'
    BY <1>23 DEF LinkInv, TypeOK, ControlTypes, Budget, Commands, LinkOpens,
       session, client, request, radio, outcome
  <2>5. (links \ leaked \subseteq Held)'
    BY <1>23 DEF LinkInv, TypeOK, ControlTypes, Budget, Held, LinkOpens,
       session, client, request, radio, outcome
  <2> QED
    BY <2>1, <2>2, <2>3, <2>4, <2>5 DEF LinkInv, TypeOK
<1>24. ASSUME NEW g \in Gens, LinkBreaks(g) PROVE LinkInv'
  <2>1. FlagTypes'
    BY <1>24, Zenon DEF LinkInv, TypeOK, FlagTypes, LinkBreaks,
       session, client, request, radio, outcome
  <2>2. ControlTypes'
    BY <1>24 DEF LinkInv, TypeOK, ControlTypes, Budget, Stages, LinkBreaks,
       session, client, request, radio, outcome
  <2>3. RadioTypes'
    BY <1>24 DEF LinkInv, TypeOK, ControlTypes, RadioTypes, Budget, LinkBreaks,
       session, client, request, radio, outcome
  <2>4. Budget'
    BY <1>24 DEF LinkInv, TypeOK, ControlTypes, Budget, Commands, LinkBreaks,
       session, client, request, radio, outcome
  <2>5. (links \ leaked \subseteq Held)'
    BY <1>24 DEF LinkInv, TypeOK, ControlTypes, Budget, Held, LinkBreaks,
       session, client, request, radio, outcome
  <2> QED
    BY <2>1, <2>2, <2>3, <2>4, <2>5 DEF LinkInv, TypeOK
<1>25. ASSUME NEW g \in Gens, DisconnectedCallback(g) PROVE LinkInv'
  <2>1. FlagTypes'
    BY <1>25, Zenon DEF LinkInv, TypeOK, FlagTypes, DisconnectedCallback, Fail,
       session, client, request, radio, outcome
  <2>2. ControlTypes'
    BY <1>25 DEF LinkInv, TypeOK, ControlTypes, Budget, Stages, DisconnectedCallback, Fail,
       session, client, request, radio, outcome
  <2>3. RadioTypes'
    BY <1>25 DEF LinkInv, TypeOK, ControlTypes, RadioTypes, Budget, DisconnectedCallback, Fail,
       session, client, request, radio, outcome
  <2>4. Budget'
    BY <1>25 DEF LinkInv, TypeOK, ControlTypes, Budget, Commands, DisconnectedCallback, Fail,
       session, client, request, radio, outcome
  <2>5. (links \ leaked \subseteq Held)'
    BY <1>25 DEF LinkInv, TypeOK, ControlTypes, Budget, Held, DisconnectedCallback, Fail,
       session, client, request, radio, outcome
  <2> QED
    BY <2>1, <2>2, <2>3, <2>4, <2>5 DEF LinkInv, TypeOK
<1>26. ASSUME NEW g \in Gens, NoteLost(g) PROVE LinkInv'
  <2>1. FlagTypes'
    BY <1>26, Zenon DEF LinkInv, TypeOK, FlagTypes, NoteLost,
       session, client, request, radio, outcome
  <2>2. ControlTypes'
    BY <1>26 DEF LinkInv, TypeOK, ControlTypes, Budget, Stages, NoteLost,
       session, client, request, radio, outcome
  <2>3. RadioTypes'
    BY <1>26, TakeType DEF LinkInv, TypeOK, ControlTypes, RadioTypes, Budget, NoteLost,
       session, client, request, radio, outcome
  <2>4. Budget'
    BY <1>26 DEF LinkInv, TypeOK, ControlTypes, Budget, Commands, NoteLost,
       session, client, request, radio, outcome
  <2>5. (links \ leaked \subseteq Held)'
    BY <1>26 DEF LinkInv, TypeOK, ControlTypes, Budget, Held, NoteLost,
       session, client, request, radio, outcome
  <2> QED
    BY <2>1, <2>2, <2>3, <2>4, <2>5 DEF LinkInv, TypeOK
<1>27. ASSUME NEW g \in Gens, Notification(g) PROVE LinkInv'
  <2>1. FlagTypes'
    BY <1>27, Zenon DEF LinkInv, TypeOK, FlagTypes, Notification, Fail, Accumulate, Complete,
       session, client, request, radio, outcome
  <2>2. ControlTypes'
    BY <1>27 DEF LinkInv, TypeOK, ControlTypes, Budget, Stages, Notification, Fail, Accumulate, Complete,
       session, client, request, radio, outcome
  <2>3. RadioTypes'
    <3>1. air' \in [Gens -> Seq(Notes)] /\ Head(air[g]) \in Notes
      BY <1>27, TakeType DEF LinkInv, TypeOK, Notification
    <3>2. buffer' = buffer \/ buffer' = Append(buffer, Head(air[g]))
      BY <1>27 DEF Notification, Accumulate, Complete
    <3>3. buffer' \in Seq(Notes)
      <4>1. buffer \in Seq(Notes)
        BY DEF LinkInv, TypeOK, RadioTypes
      <4>2. Append(buffer, Head(air[g])) \in Seq(Notes)
        BY <3>1, <4>1
      <4> QED
        BY <3>2, <4>1, <4>2
    <3> QED
      BY <1>27, <3>1, <3>3 DEF LinkInv, TypeOK, RadioTypes, Notification
  <2>4. Budget'
    BY <1>27 DEF LinkInv, TypeOK, ControlTypes, Budget, Commands, Notification, Fail, Accumulate, Complete,
       session, client, request, radio, outcome
  <2>5. (links \ leaked \subseteq Held)'
    BY <1>27 DEF LinkInv, TypeOK, ControlTypes, Budget, Held, Notification, Fail, Accumulate, Complete,
       session, client, request, radio, outcome
  <2> QED
    BY <2>1, <2>2, <2>3, <2>4, <2>5 DEF LinkInv, TypeOK
<1>28. ASSUME NEW p \in uplink, DeviceAnswers(p) PROVE LinkInv'
  <2>1. FlagTypes'
    BY <1>28, Zenon DEF LinkInv, TypeOK, FlagTypes, DeviceAnswers,
       session, client, request, radio, outcome
  <2>2. ControlTypes'
    BY <1>28 DEF LinkInv, TypeOK, ControlTypes, Budget, Stages, DeviceAnswers,
       session, client, request, radio, outcome
  <2>3. RadioTypes'
    BY <1>28, SendType DEF LinkInv, TypeOK, ControlTypes, RadioTypes, Budget, DeviceAnswers,
       session, client, request, radio, outcome
  <2>4. Budget'
    BY <1>28 DEF LinkInv, TypeOK, ControlTypes, Budget, Commands, DeviceAnswers,
       session, client, request, radio, outcome
  <2>5. (links \ leaked \subseteq Held)'
    BY <1>28 DEF LinkInv, TypeOK, ControlTypes, Budget, Held, DeviceAnswers,
       session, client, request, radio, outcome
  <2> QED
    BY <2>1, <2>2, <2>3, <2>4, <2>5 DEF LinkInv, TypeOK
<1> QED
  BY <1>0, <1>1, <1>2, <1>3, <1>4, <1>5, <1>6, <1>7, <1>8, <1>9, <1>10, <1>11, <1>12, <1>13, <1>14, <1>15, <1>16, <1>17, <1>18, <1>19, <1>20, <1>21, <1>22, <1>23, <1>24, <1>25, <1>26, <1>27, <1>28, <1>29 DEF Next, Owner, Radio

\* The transport keeps its types: in particular the generation counter never
\* outruns the notifications it tells apart.
THEOREM TypeCorrect == Spec => []TypeOK
<1>1. LinkInv => TypeOK
  BY DEF LinkInv
<1> QED
  BY LinkInit, LinkStep, <1>1, PTL DEF Spec

\* One link at most answers to nobody but the owner, none to an idle client.
LEMMA OneUp ==
  ASSUME LinkInv
  PROVE  /\ \E g \in Nat : links \ leaked \subseteq {g}
         /\ owner = NoTask => links \ leaked = {}
<1>1. links \ leaked \subseteq Gens /\ NoLink \notin Gens
  BY DEF LinkInv, TypeOK, RadioTypes
<1>2. \E g \in Nat : Held \cap Gens \subseteq {g}
  BY DEF LinkInv, TypeOK, ControlTypes, Budget, Held
<1>3. owner = NoTask => links \ leaked = {}
  BY <1>1 DEF LinkInv, Budget, Held
<1> QED
  BY <1>1, <1>2, <1>3 DEF LinkInv

\* One link at most, none while the client is idle: see LinkOwnership.
THEOREM LinksOwned == Spec => []LinkOwnership
<1>1. LinkInv => LinkOwnership
  <2> SUFFICES ASSUME LinkInv PROVE LinkOwnership
    OBVIOUS
  <2>1. PICK g \in Nat : links \ leaked \subseteq {g}
    BY OneUp
  <2>2. Cardinality({g}) = 1 /\ IsFiniteSet({g})
    BY FS_Singleton
  <2>3. Cardinality(links \ leaked) <= 1
    BY <2>1, <2>2, FS_Subset
  <2>4. owner = NoTask => links \subseteq leaked
    BY OneUp
  <2> QED
    BY <2>3, <2>4 DEF LinkOwnership
<1> QED
  BY LinkInit, LinkStep, <1>1, PTL DEF Spec
===============================================================================
