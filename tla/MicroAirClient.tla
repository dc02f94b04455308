---------------------------- MODULE MicroAirClient ----------------------------
(***************************************************************************)
(* The transaction-scoped BLE transport of microair/client.py.             *)
(*                                                                         *)
(* A task takes the client's lock, connects, subscribes, runs commands one *)
(* at a time and always disconnects.  Every await of that path is a point  *)
(* where the model lets the rest of the world move: the radio (links that  *)
(* open, break or refuse to close, payloads and notifications in flight,   *)
(* callbacks delivered late), the command deadline, and cancellation of    *)
(* the owning task.                                                        *)
(*                                                                         *)
(* A physical link carries the generation its transaction had when it      *)
(* connected, so a callback of an old link is recognised by its number.    *)
(* A reply is a sequence of frames closed by a completion envelope; a      *)
(* frame knows its place in the reply and the size its reply declares (the *)
(* length prefix sits in frame 1).  The three parameter writes behave      *)
(* alike here and are the one command "Write".                             *)
(***************************************************************************)
EXTENDS Naturals, Sequences, FiniteSets

CONSTANTS
  Tasks,        \* asyncio tasks that share one client
  NoTask,       \* value of owner while no transaction runs
  MaxGen,       \* bound on the generation counter (limits transactions)
  EepSizes,     \* sizes, in frames, of the EEPROM images a unit may send
  EepMin,       \* fewest frames validate_eeprom accepts
  EepCap        \* most frames the 1100-byte cap leaves room for

ASSUME NoTaskAssumption == NoTask \notin Tasks
ASSUME BoundAssumption == MaxGen \in Nat
ASSUME SizeAssumption ==
  /\ EepMin \in Nat \ {0}
  /\ EepCap \in Nat
  /\ EepSizes \subseteq Nat \ {0}

Gens == 1..MaxGen
NoLink == 0
NoCommand == "none"
Commands == {"ReadLive", "ReadEEP", "Write"}

Stages == {"free", "connecting", "preparing", "settling", "ready",
           "command", "draining", "dropping", "closing"}

\* A notification: a data frame, or a completion envelope (index and size 0).
\* current marks what belongs to the latest command or write_* call.
Notes == [kind : {"data", "ok", "fail"}, index : Nat, size : Nat,
          current : BOOLEAN]
\* A payload handed to the radio.
Payloads == [link : Gens, op : Commands, current : BOOLEAN]

VARIABLES
  owner,        \* _owner, which is set exactly while _lock is held
  stage,        \* where the owner is suspended
  cancelled,    \* a CancelledError is due in the owner
  generation,   \* _generation
  poisoned,     \* _poisoned
  handle,       \* _client: the link it holds, or NoLink
  closing,      \* the link whose disconnect() is awaited, or NoLink
  command,      \* _command
  guarded,      \* the command in flight is the preflight read of a write_*
  pending,      \* _pending: "none", "open", or how it was completed
  gwrite,       \* the task inside _run that performs the GATT write
  buffer,       \* _buffer
  write_state,  \* write_state
  links,        \* links that are physically up
  leaked,       \* links whose disconnect() raised
  lost,         \* links whose disconnected callback is still to come
  uplink,       \* payloads the device has not received yet
  air,          \* notifications in flight, per link, in order
  parameter     \* what became of the payload of the last write_* call

session == <<owner, stage, cancelled, generation>>
client  == <<poisoned, handle, closing>>
request == <<command, guarded, pending, gwrite, buffer>>
radio   == <<links, leaked, lost, uplink, air>>
outcome == <<write_state, parameter>>
vars    == <<session, client, request, radio, outcome>>

-------------------------------------------------------------------------------
(* Wire format                                                              *)

Frame(i, n) == [kind |-> "data", index |-> i, size |-> n, current |-> TRUE]
Envelope(k) == [kind |-> k, index |-> 0, size |-> 0, current |-> TRUE]

\* The whole reply of n frames, as the unit sends it.
Image(n) == [i \in 1..n |-> Frame(i, n)]

\* What a unit that carries out command c answers.  The live reply is one frame, as
\* the wiki documents it; of a longer one the code would take what fits its cap.
Replies(c) ==
  CASE c = "ReadLive" -> {Image(1)}
    [] c = "ReadEEP"  -> {Image(n) : n \in EepSizes}
    [] OTHER          -> {<<>>}

\* The byte cap of _notification, in frames.
Cap(c) == IF c = "ReadLive" THEN 1 ELSE EepCap

\* parse_live and parse_eeprom on the accumulated buffer: the length range,
\* and for an image the length its first bytes announce.  A buffer whose
\* first frame is missing starts with bytes that announce another length.
Parses(c, buf) ==
  CASE c = "ReadLive" -> Len(buf) = 1
    [] c = "ReadEEP"  -> /\ Len(buf) \in EepMin..EepCap
                         /\ buf[1].index = 1
                         /\ buf[1].size = Len(buf)
    [] OTHER          -> TRUE

-------------------------------------------------------------------------------
(* Shared steps                                                             *)

\* _connected(), for the owner.
Healthy == ~poisoned /\ handle # NoLink /\ handle \in links

\* The notifications of s, marked as belonging to the current command or not.
Mark(s, b) == [i \in DOMAIN s |-> [s[i] EXCEPT !.current = b]]

\* What was sent for an earlier command no longer answers the current one.
AgeRadio ==
  /\ uplink' = {[p EXCEPT !.current = FALSE] : p \in uplink}
  /\ air' = [g \in Gens |-> Mark(air[g], FALSE)]
  /\ UNCHANGED <<links, leaked, lost>>

\* Mutant: the generation is counted before and after the teardown.
DisconnectCountsTwice(next) ==
  /\ stage' = next
  /\ generation' = generation + 2
  /\ poisoned' = TRUE
  /\ closing' = handle
  /\ handle' = NoLink
  /\ command' = NoCommand
  /\ guarded' = FALSE
  /\ pending' = "none"
  /\ gwrite' = "none"
  /\ buffer' = <<>>

\* _disconnect up to its only await.
Disconnect(next) ==
  /\ stage' = next
  /\ generation' = generation + 1
  /\ poisoned' = TRUE
  /\ closing' = handle
  /\ handle' = NoLink
  /\ command' = NoCommand
  /\ guarded' = FALSE
  /\ pending' = "none"
  /\ gwrite' = "none"
  /\ buffer' = <<>>

\* _run up to asyncio.wait: a fresh future, an empty buffer, a write task.
Issue(c, preflight) ==
  /\ stage' = "command"
  /\ command' = c
  /\ guarded' = preflight
  /\ pending' = "open"
  /\ gwrite' = "created"
  /\ buffer' = <<>>
  /\ AgeRadio

\* The finally clause of a _run that returned.
EndCommand ==
  /\ stage' = "ready"
  /\ command' = NoCommand
  /\ guarded' = FALSE
  /\ pending' = "none"
  /\ gwrite' = "none"
  /\ buffer' = <<>>

\* _fail(error), for an error of kind how.
Fail(how) ==
  /\ poisoned' = TRUE
  /\ pending' = IF pending = "open" THEN how ELSE pending

-------------------------------------------------------------------------------
Init ==
  /\ owner = NoTask
  /\ stage = "free"
  /\ cancelled = FALSE
  /\ generation = 0
  /\ poisoned = TRUE
  /\ handle = NoLink
  /\ closing = NoLink
  /\ command = NoCommand
  /\ guarded = FALSE
  /\ pending = "none"
  /\ gwrite = "none"
  /\ buffer = <<>>
  /\ write_state = "not_attempted"
  /\ links = {}
  /\ leaked = {}
  /\ lost = {}
  /\ uplink = {}
  /\ air = [g \in Gens |-> <<>>]
  /\ parameter = "unsent"

-------------------------------------------------------------------------------
(* The owner                                                                *)

\* transaction(): the lock is free and the task takes it.  A transaction
\* spends three generations at most.
Begin(t) ==
  /\ owner = NoTask
  /\ generation + 3 <= MaxGen
  /\ owner' = t
  /\ stage' = "connecting"
  /\ generation' = generation + 1
  /\ poisoned' = FALSE
  /\ UNCHANGED <<cancelled, handle, closing, request, radio, outcome>>

\* establish_connection returns its client to the shielded _connect task;
\* the link may be gone again by then.
ConnectReturns(t) ==
  /\ owner = t
  /\ stage = "connecting"
  /\ handle' = generation
  /\ stage' = "preparing"
  /\ UNCHANGED <<owner, cancelled, generation, poisoned, closing, request,
                 radio, outcome>>

\* establish_connection raises; whatever it had opened is closed.
ConnectFails(t) ==
  /\ owner = t
  /\ stage = "connecting"
  /\ generation \notin links
  /\ Disconnect("closing")
  /\ UNCHANGED <<owner, cancelled, radio, outcome>>

\* The link is healthy, the service triplet is there and start_notify returns.
Subscribed(t) ==
  /\ owner = t
  /\ stage = "preparing"
  /\ ~cancelled
  /\ Healthy
  /\ stage' = "settling"
  /\ UNCHANGED <<owner, cancelled, generation, client, request, radio, outcome>>

\* The settle sleep is over: the body runs, whatever has become of the link.
Settled(t) ==
  /\ owner = t
  /\ stage = "settling"
  /\ ~cancelled
  /\ stage' = "ready"
  /\ UNCHANGED <<owner, cancelled, generation, client, request, radio, outcome>>

\* Any failure between the connect and the body: unhealthy or incomplete
\* profile, start_notify raising, cancellation.
PrepareFails(t) ==
  /\ owner = t
  /\ stage = "preparing" \/ (stage = "settling" /\ cancelled)
  /\ Disconnect("closing")
  /\ UNCHANGED <<owner, cancelled, radio, outcome>>

\* run(): a read on behalf of the body.
StartRead(t, c) ==
  /\ owner = t
  /\ stage = "ready"
  /\ ~cancelled
  /\ Healthy
  /\ Issue(c, FALSE)
  /\ UNCHANGED <<owner, cancelled, generation, client, outcome>>

\* write_*(): forget the previous write, then preflight.
StartWrite(t) ==
  /\ owner = t
  /\ stage = "ready"
  /\ ~cancelled
  /\ Healthy
  /\ write_state' = "not_attempted"
  /\ parameter' = "unsent"
  /\ Issue("ReadEEP", TRUE)
  /\ UNCHANGED <<owner, cancelled, generation, client>>

\* write_*() refused before any I/O: a bad argument, or a preflight read that
\* found no healthy transaction.
RefuseWrite(t) ==
  /\ owner = t
  /\ stage = "ready"
  /\ ~cancelled
  /\ write_state' = "not_attempted"
  /\ parameter' = "unsent"
  /\ AgeRadio
  /\ UNCHANGED <<session, client, request>>

\* Mutant: the phase is recorded only once write_gatt_char has returned.
SendPayloadUnrecorded(t) ==
  /\ owner = t
  /\ stage = "command"
  /\ gwrite = "created"
  /\ gwrite' = "sending"
  /\ UNCHANGED <<session, client, command, guarded, pending, buffer, radio,
                 outcome>>

\* The write task starts: the phase is recorded before the payload can leave.
SendPayload(t) ==
  /\ owner = t
  /\ stage = "command"
  /\ gwrite = "created"
  /\ gwrite' = "sending"
  /\ write_state' = IF command = "Write" THEN "attempted" ELSE write_state
  /\ UNCHANGED <<session, client, command, guarded, pending, buffer, radio,
                 parameter>>

\* write_gatt_char hands the payload to the radio of a link that is up.
PayloadLeaves(t) ==
  /\ owner = t
  /\ stage \in {"command", "draining"}
  /\ gwrite = "sending"
  /\ handle \in links
  /\ uplink' = uplink \cup {[link |-> handle, op |-> command, current |-> TRUE]}
  /\ gwrite' = "sent"
  /\ parameter' = IF command = "Write" THEN "sent" ELSE parameter
  /\ UNCHANGED <<session, client, command, guarded, pending, buffer, links,
                 leaked, lost, air, write_state>>

\* Mutant: a write that raised is tried again.
WriteRetried(t) ==
  /\ owner = t
  /\ stage \in {"command", "draining"}
  /\ \/ gwrite = "sent" /\ gwrite' \in {"done", "sending"}
     \/ gwrite = "sending" /\ gwrite' = "error"
  /\ UNCHANGED <<session, client, command, guarded, pending, buffer, radio,
                 outcome>>

\* write_gatt_char returns, or raises a transport error (also with the
\* payload gone out).
WriteReturns(t) ==
  /\ owner = t
  /\ stage \in {"command", "draining"}
  /\ \/ gwrite = "sent" /\ gwrite' \in {"done", "error"}
     \/ gwrite = "sending" /\ gwrite' = "error"
  /\ UNCHANGED <<session, client, command, guarded, pending, buffer, radio,
                 outcome>>

\* Both the write and the reply are in: _run returns to the caller.
CommandReturns(t) ==
  /\ owner = t
  /\ stage = "command"
  /\ ~cancelled
  /\ pending = "ok"
  /\ gwrite = "done"
  /\ EndCommand
  /\ UNCHANGED <<owner, cancelled, generation, client, radio, outcome>>

\* The preflight image passes every check of _preflight and write_*, and the
\* parameter write goes out with no await in between.  CommandReturns is the
\* preflight that raises WriteRejected instead.
PreflightPasses(t) ==
  /\ owner = t
  /\ stage = "command"
  /\ ~cancelled
  /\ guarded
  /\ pending = "ok"
  /\ gwrite = "done"
  /\ Healthy
  /\ Issue("Write", FALSE)
  /\ UNCHANGED <<owner, cancelled, generation, client, outcome>>

\* Mutant: the deadline is armed for the reply alone.
TimeOutOfReply(t) ==
  /\ owner = t
  /\ stage = "command"
  /\ gwrite = "done"
  /\ stage' = "draining"
  /\ UNCHANGED <<owner, cancelled, generation, client, request, radio, outcome>>

\* asyncio.timeout fires, whatever the write and the reply are doing.
TimeOut(t) ==
  /\ owner = t
  /\ stage = "command"
  /\ stage' = "draining"
  /\ UNCHANGED <<owner, cancelled, generation, client, request, radio, outcome>>

\* A failed reply interrupts the wait, also while the write is stalled; so
\* does a write that raised.
CommandFails(t) ==
  /\ owner = t
  /\ stage = "command"
  /\ pending \in {"refused", "failed"} \/ gwrite = "error"
  /\ stage' = "draining"
  /\ UNCHANGED <<owner, cancelled, generation, client, request, radio, outcome>>

\* The write task is cancelled or over; the failed command drops the link.
Drain(t) ==
  /\ owner = t
  /\ stage = "draining"
  /\ Disconnect("dropping")
  /\ UNCHANGED <<owner, cancelled, radio, outcome>>

\* disconnect() returns.
LinkCloses(t) ==
  /\ owner = t
  /\ closing # NoLink
  /\ links' = links \ {closing}
  /\ lost' = lost \cup (links \cap {closing})
  /\ uplink' = {p \in uplink : p.link # closing}
  /\ closing' = NoLink
  /\ UNCHANGED <<session, poisoned, handle, request, leaked, air, outcome>>

\* disconnect() raises: nothing is known of the link any more.
CloseFails(t) ==
  /\ owner = t
  /\ closing # NoLink
  /\ leaked' = leaked \cup {closing}
  /\ closing' = NoLink
  /\ UNCHANGED <<session, poisoned, handle, request, links, lost, uplink, air,
                 outcome>>

\* The failed command raises into the body, which may catch it and go on.
Resume(t) ==
  /\ owner = t
  /\ stage = "dropping"
  /\ closing = NoLink
  /\ stage' = "ready"
  /\ UNCHANGED <<owner, cancelled, generation, client, request, radio, outcome>>

\* The body ends, normally or not.
Leave(t) ==
  /\ owner = t
  /\ stage = "ready"
  /\ Disconnect("closing")
  /\ UNCHANGED <<owner, cancelled, radio, outcome>>

\* Mutant: an error of disconnect() skips the end of transaction().
ReleaseUnlessLeaked(t) ==
  /\ owner = t
  /\ stage = "closing"
  /\ closing = NoLink
  /\ leaked = {}
  /\ owner' = NoTask
  /\ stage' = "free"
  /\ cancelled' = FALSE
  /\ UNCHANGED <<generation, client, request, radio, outcome>>

\* transaction() gives the lock back.
Release(t) ==
  /\ owner = t
  /\ stage = "closing"
  /\ closing = NoLink
  /\ owner' = NoTask
  /\ stage' = "free"
  /\ cancelled' = FALSE
  /\ UNCHANGED <<generation, client, request, radio, outcome>>

\* Mutant: cancellation abandons a connect that is under way.
CancelUnshielded(t) ==
  /\ owner = t
  /\ ~cancelled
  /\ cancelled' = TRUE
  /\ IF stage = "connecting"
       THEN Disconnect("closing")
       ELSE /\ stage' = IF stage = "command" THEN "draining" ELSE stage
            /\ UNCHANGED <<generation, client, request>>
  /\ UNCHANGED <<owner, radio, outcome>>

\* The owner is cancelled.  Connecting and disconnecting are shielded by
\* _finish_cleanup, which holds the error back; a command stops at once.
Cancel(t) ==
  /\ owner = t
  /\ ~cancelled
  /\ cancelled' = TRUE
  /\ stage' = IF stage = "command" THEN "draining" ELSE stage
  /\ UNCHANGED <<owner, generation, client, request, radio, outcome>>

-------------------------------------------------------------------------------
(* The radio, the device and their callbacks                                *)

\* The connector brings the link up before it returns the client.
LinkOpens ==
  /\ stage = "connecting"
  /\ generation \notin links \cup lost
  /\ links' = links \cup {generation}
  /\ UNCHANGED <<session, client, request, leaked, lost, uplink, air, outcome>>

LinkBreaks(g) ==
  /\ g \in links
  /\ links' = links \ {g}
  /\ lost' = lost \cup {g}
  /\ uplink' = {p \in uplink : p.link # g}
  /\ UNCHANGED <<session, client, request, leaked, air, outcome>>

\* Mutant: the callback does not compare generations.
DisconnectedCallbackOfAny(g) ==
  /\ g \in lost
  /\ lost' = lost \ {g}
  /\ Fail("failed")
  /\ UNCHANGED <<session, handle, closing, command, guarded, gwrite, buffer,
                 links, leaked, uplink, air, outcome>>

\* disconnected(client), at any time after the link went down.
DisconnectedCallback(g) ==
  /\ g \in lost
  /\ lost' = lost \ {g}
  /\ IF g = generation THEN Fail("failed") ELSE UNCHANGED <<poisoned, pending>>
  /\ UNCHANGED <<session, handle, closing, command, guarded, gwrite, buffer,
                 links, leaked, uplink, air, outcome>>

\* The device receives a payload and answers it.
DeviceAnswers(p) ==
  /\ p \in uplink
  /\ uplink' = uplink \ {p}
  /\ \E accepts \in BOOLEAN, data \in Replies(p.op) :
       LET reply == IF accepts THEN Append(data, Envelope("ok"))
                               ELSE <<Envelope("fail")>>
       IN  /\ air' = [air EXCEPT ![p.link] = @ \o Mark(reply, p.current)]
           /\ parameter' = IF p.op = "Write" /\ p.current
                             THEN IF accepts THEN "accepted" ELSE "refused"
                             ELSE parameter
  /\ UNCHANGED <<session, client, request, links, leaked, lost, write_state>>

\* A notification is dropped on the way.
NoteLost(g) ==
  /\ air[g] # <<>>
  /\ air' = [air EXCEPT ![g] = Tail(@)]
  /\ UNCHANGED <<session, client, request, links, leaked, lost, uplink, outcome>>

\* _notification after its gates: a completion settles the command ...
Complete(note) ==
  /\ IF note.kind = "ok" /\ Parses(command, buffer)
       THEN pending' = "ok" /\ UNCHANGED poisoned
       ELSE Fail(IF note.kind = "fail" THEN "refused" ELSE "failed")
  /\ write_state' = IF note.kind = "ok" /\ command = "Write"
                      THEN "acknowledged" ELSE write_state
  /\ UNCHANGED buffer

\* ... and data is dropped during a write, refused over the cap, or kept.
Accumulate(note) ==
  /\ IF command = "Write"
       THEN UNCHANGED <<buffer, poisoned, pending>>
       ELSE IF Len(buffer) + 1 > Cap(command)
              THEN Fail("failed") /\ UNCHANGED buffer
              ELSE buffer' = Append(buffer, note) /\ UNCHANGED <<poisoned, pending>>
  /\ UNCHANGED write_state

\* Mutant: _notification does not compare generations.
ListeningToAny(g) == ~poisoned /\ pending = "open"

\* The gates of _notification.
Listening(g) == g = generation /\ ~poisoned /\ pending = "open"

\* _notification(g, data), also for a link that is down by now.
Notification(g) ==
  /\ air[g] # <<>>
  /\ air' = [air EXCEPT ![g] = Tail(@)]
  /\ LET note == Head(air[g])
     IN  IF Listening(g)
           THEN IF note.kind = "data" THEN Accumulate(note) ELSE Complete(note)
           ELSE UNCHANGED <<buffer, poisoned, pending, write_state>>
  /\ UNCHANGED <<session, handle, closing, command, guarded, gwrite, links,
                 leaked, lost, uplink, parameter>>

-------------------------------------------------------------------------------
Owner(t) ==
  \/ Begin(t)
  \/ ConnectReturns(t) \/ ConnectFails(t)
  \/ Subscribed(t) \/ Settled(t) \/ PrepareFails(t)
  \/ \E c \in {"ReadLive", "ReadEEP"} : StartRead(t, c)
  \/ StartWrite(t) \/ RefuseWrite(t)
  \/ SendPayload(t) \/ PayloadLeaves(t) \/ WriteReturns(t)
  \/ CommandReturns(t) \/ PreflightPasses(t)
  \/ TimeOut(t) \/ CommandFails(t) \/ Drain(t)
  \/ LinkCloses(t) \/ CloseFails(t)
  \/ Resume(t) \/ Leave(t) \/ Release(t) \/ Cancel(t)

Radio ==
  \/ LinkOpens
  \/ \E g \in Gens : \/ LinkBreaks(g) \/ DisconnectedCallback(g)
                     \/ NoteLost(g) \/ Notification(g)
  \/ \E p \in uplink : DeviceAnswers(p)

Next == Radio \/ \E t \in Tasks : Owner(t)

Spec == Init /\ [][Next]_vars

\* What the event loop, the timer and the Bluetooth stack grant: a transaction
\* that can only unwind does so, the deadline of a command fires, and connect,
\* drain and disconnect calls return or raise.  Neither the device nor the
\* radio owes anything.
Unwind(t) == cancelled /\ (PrepareFails(t) \/ Leave(t))
Fairness ==
  \A t \in Tasks :
    /\ WF_vars(ConnectReturns(t) \/ ConnectFails(t))
    /\ WF_vars(Unwind(t))
    /\ WF_vars(TimeOut(t))
    /\ WF_vars(Drain(t))
    /\ WF_vars(LinkCloses(t) \/ CloseFails(t))
    /\ WF_vars(Resume(t))
    /\ WF_vars(Release(t))

FairSpec == Spec /\ Fairness

-------------------------------------------------------------------------------
(* Properties                                                               *)

FlagTypes ==
  /\ cancelled \in BOOLEAN
  /\ poisoned \in BOOLEAN
  /\ guarded \in BOOLEAN

ControlTypes ==
  /\ owner \in Tasks \cup {NoTask}
  /\ stage \in Stages
  /\ generation \in 0..MaxGen
  /\ handle \in Gens \cup {NoLink}
  /\ closing \in Gens \cup {NoLink}
  /\ command \in Commands \cup {NoCommand}
  /\ pending \in {"none", "open", "ok", "refused", "failed"}
  /\ gwrite \in {"none", "created", "sending", "sent", "done", "error"}
  /\ write_state \in {"not_attempted", "attempted", "acknowledged"}
  /\ parameter \in {"unsent", "sent", "accepted", "refused"}

RadioTypes ==
  /\ buffer \in Seq(Notes)
  /\ links \subseteq Gens
  /\ leaked \subseteq Gens
  /\ lost \subseteq Gens
  /\ uplink \subseteq Payloads
  /\ air \in [Gens -> Seq(Notes)]

\* Type invariant of the transport.
TypeOK == FlagTypes /\ ControlTypes /\ RadioTypes

\* A read that succeeds returns exactly the reply the unit sent to this very
\* command: no frame missing, none left over from an earlier command or link,
\* although frames are dropped and old callbacks arrive late.
ReplyIntegrity ==
  pending = "ok" /\ command \in {"ReadLive", "ReadEEP"} =>
    buffer = Image(buffer[1].size)

\* write_state never understates what happened to the parameter write:
\* not_attempted means nothing was handed to the radio, acknowledged means the
\* unit accepted this very write, and a CommandFailed means it refused it.
WriteStateTruthful ==
  /\ write_state = "not_attempted" => parameter = "unsent"
  /\ write_state = "acknowledged" => parameter = "accepted"
  /\ command = "Write" /\ pending = "refused" => parameter = "refused"

\* The unit accepts one central: every link that is up belongs to the task
\* that holds the lock, there is never a second one, and an idle client holds
\* none, except for links whose disconnect() raised.
LinkOwnership ==
  /\ Cardinality(links \ leaked) <= 1
  /\ owner = NoTask => links \subseteq leaked

\* A transaction between two commands has a clean link or none: nothing of an
\* earlier command is on its way over a link the next one may use (a command that
\* failed, timed out or was cancelled took its link with it), and a transaction that
\* counts as broken has really lost its link (late callbacks of earlier links do not
\* poison it).
ReadyIsClean ==
  stage = "ready" =>
    IF Healthy THEN air[handle] = <<>> /\ \A p \in uplink : p.link # handle
               ELSE handle \notin links

\* The transport its users see: see TransportContract.
Transport == INSTANCE TransportContract
  WITH Links <- Gens, user <- owner, up <- links \ leaked,
       fate <- parameter, report <- write_state

\* The client implements TransportContract: no command, timeout, cancellation or
\* late callback hands the payload of a write over twice, or before write_state says
\* so, or confirms a write the unit did not take; and no task takes the unit, and no
\* link comes up, while another link is.
KeepsTransport == Transport!Spec

\* The deadline covers the whole command: also with a stalled GATT write and
\* a silent device it ends.
CommandTerminates == stage = "command" ~> stage # "command"

\* A cancelled transaction gives the lock back, even when it was connecting
\* or when its disconnect() raises.
CancelReleases == cancelled ~> owner = NoTask
===============================================================================
