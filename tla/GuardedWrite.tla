------------------------------ MODULE GuardedWrite ------------------------------
(***************************************************************************)
(* The guarded, verified write: async_write of writes.py over the write_*  *)
(* methods of microair/client.py, with the parameter values, against a     *)
(* unit that may refuse, ignore or carry out a command.                    *)
(*                                                                         *)
(* A request holds the coordinator's lock from phase "locked" until it is  *)
(* closed.  The transport is used as MicroAirClient shows it to behave:    *)
(* one link, replies that are whole or absent, and a link that is gone     *)
(* with everything in flight once a command has failed (or has refused to  *)
(* close: see Elsewhere).  A unit accepts one central, so only this        *)
(* request can change it while the link is up.                             *)
(***************************************************************************)
EXTENDS EntityViews

CONSTANTS
  Units,        \* the settings a unit can be found with
  Requests,     \* the requests of the service and of the control entities
  NoRequest     \* value of request while none is open

ASSUME UnitsAssumption == Units \subseteq Settings
ASSUME RequestsAssumption ==
  Requests \subseteq WriteRequests /\ NoRequest \notin Requests

VARIABLES
  unit,         \* the settings stored in the unit
  phase,        \* where async_write is suspended
  request,      \* its argument
  expected,     \* the value write_* returned, computed from a fresh image
  write_state,  \* client.write_state
  flight,       \* parameter payload on its way to the unit, its completion, or
                \* NoFlight
  stored,       \* history: the unit carried out the open request
  verdict,      \* outcome reported for the last request
  cache,        \* coordinator._eeprom, which data.eeprom shows: "none", or read
                \* before ("old") or since ("new") the last parameter write
  available     \* last_update_success

view == <<cache, available>>
vars == <<unit, phase, request, expected, write_state, flight, stored, verdict,
          cache, available>>

\* A request is open, as the contract sees it, once its link is up.
Contract == INSTANCE WriteContract WITH
  request <- IF phase = "locked" THEN NoRequest ELSE request

Phases == {"idle", "locked", "status", "preflight", "writing", "readback"}
NoValue == "none"
NoFlight == [cmd |-> "none", hi |-> 0, lo |-> 0]
Completion(k) == [cmd |-> k, hi |-> 0, lo |-> 0]

-------------------------------------------------------------------------------
(* Checks before the write                                                  *)

\* Mutant: the fault mask of the original image is not checked.
PreflightAcceptsAnyFaultMask(image) ==
  /\ image.model = ControlModel
  /\ ~has_unsupported_bits(image.startup)

\* _preflight
PreflightAccepts(image) ==
  /\ image.model = ControlModel
  /\ ~has_unsupported_bits(image.startup)
  /\ image.fault \subseteq FaultMaskBits

\* Mutant: the value is not validated before it is built.
RequestAcceptsUnvalidated(image, r) ==
  /\ r.kind = "mode" /\ r.mode = "SUPERLEARN" =>
       superlearn_available(image.firmware)
  /\ r.kind = "fault" => fault_protection_allowed(image.fault, r.bit, r.enabled)

\* The further checks of the write_* methods and of _write_parameter.
RequestAccepts(image, r) ==
  /\ r.kind = "scpt" => r.minutes \in Minutes
  /\ r.kind = "mode" /\ r.mode = "SUPERLEARN" =>
       superlearn_available(image.firmware)
  /\ r.kind = "fault" => fault_protection_allowed(image.fault, r.bit, r.enabled)
  /\ Target(image, r) \in Buildable(CommandOf(r))

-------------------------------------------------------------------------------
(* Outcomes                                                                 *)

\* Mutant: a lost answer is taken for a refusal.
PhaseVerdictOptimistic(state) ==
  CASE state = "not_attempted" -> "REJECTED"
    [] state = "acknowledged"  -> "ACKNOWLEDGED-BUT-UNVERIFIED"
    [] OTHER                   -> "FAILED"

\* The outcome of an error that is neither WriteRejected nor CommandFailed.
PhaseVerdict(state) ==
  CASE state = "not_attempted" -> "REJECTED"
    [] state = "acknowledged"  -> "ACKNOWLEDGED-BUT-UNVERIFIED"
    [] OTHER                   -> "INDETERMINATE"

\* async_write returns or raises: transaction() has dropped the link, and the
\* client goes with it.
Finish(v) ==
  /\ phase' = "idle"
  /\ request' = NoRequest
  /\ expected' = NoValue
  /\ flight' = NoFlight
  /\ write_state' = "not_attempted"
  /\ stored' = FALSE
  /\ verdict' = v
  /\ UNCHANGED unit

\* Everything but REJECTED and a bare cancellation marks the entities
\* unavailable (async_set_update_error) and leaves the cached image alone.
Report(v) ==
  /\ Finish(v)
  /\ available' = IF v \in {"REJECTED", "CANCELLED"} THEN available ELSE FALSE
  /\ UNCHANGED cache

-------------------------------------------------------------------------------
Init ==
  /\ unit \in Units
  /\ phase = "idle"
  /\ request = NoRequest
  /\ expected = NoValue
  /\ write_state = "not_attempted"
  /\ flight = NoFlight
  /\ stored = FALSE
  /\ verdict = "none"
  /\ cache = "none"
  /\ available = FALSE

\* async_write takes the lock.
Call(r) ==
  /\ phase = "idle"
  /\ phase' = "locked"
  /\ request' = r
  /\ verdict' = "none"
  /\ UNCHANGED <<unit, expected, write_state, flight, stored, view>>

\* Live mode, paused polling, unloading, no advertisement or no route.
Refuse ==
  /\ phase = "locked"
  /\ Report("REJECTED")

\* The link of the transaction comes up.
Connect ==
  /\ phase = "locked"
  /\ phase' = "status"
  /\ UNCHANGED <<unit, stored, request, expected, write_state, flight, verdict, view>>

\* read_live and the compressor guard.
ReadLive ==
  /\ phase = "status"
  /\ \E status \in {"idle", "running", "unknown"}, allow_running \in BOOLEAN :
       IF status = "unknown" \/ (status = "running" /\ ~allow_running)
         THEN Report("REJECTED")
         ELSE /\ phase' = "preflight"
              /\ UNCHANGED <<unit, stored, request, expected, write_state, flight,
                             verdict, view>>

\* The fresh image decides: WriteRejected, or the parameter write follows.
Preflight ==
  /\ phase = "preflight"
  /\ PreflightAccepts(unit)
  /\ RequestAccepts(unit, request)
  /\ expected' = Target(unit, request)
  /\ phase' = "writing"
  /\ UNCHANGED <<unit, stored, request, write_state, flight, verdict, view>>

PreflightRefuses ==
  /\ phase = "preflight"
  /\ ~(PreflightAccepts(unit) /\ RequestAccepts(unit, request))
  /\ Report("REJECTED")

\* The single write site: the payload is re-checked and goes out once.  What
\* the cache holds was read before this write from here on.
Send ==
  /\ phase = "writing"
  /\ write_state = "not_attempted"
  /\ write_state' = "attempted"
  /\ flight' = build(CommandOf(request), expected)
  /\ cache' = IF cache = "none" THEN "none" ELSE "old"
  /\ UNCHANGED <<unit, stored, phase, request, expected, verdict, available>>

\* A payload is on its way, and the value its two digits spell.
Arriving == flight \notin {NoFlight, Completion("ok"), Completion("fail")}
Decoded(payload) ==
  CHOOSE value \in Buildable(payload.cmd) : build(payload.cmd, value) = payload

\* The unit receives the payload and completes it, acting on it or not.
UnitStores ==
  /\ Arriving
  /\ unit' = [unit EXCEPT ![Field(request)] = Decoded(flight)]
  /\ stored' = TRUE
  /\ flight' = Completion("ok")
  /\ UNCHANGED <<phase, request, expected, write_state, verdict, view>>

UnitIgnores ==
  /\ Arriving
  /\ flight' = Completion("ok")
  /\ UNCHANGED <<unit, stored, phase, request, expected, write_state, verdict, view>>

UnitRefuses ==
  /\ Arriving
  /\ flight' = Completion("fail")
  /\ UNCHANGED <<unit, stored, phase, request, expected, write_state, verdict, view>>

Acknowledged ==
  /\ flight = Completion("ok")
  /\ write_state' = "acknowledged"
  /\ phase' = "readback"
  /\ flight' = NoFlight
  /\ UNCHANGED <<unit, stored, request, expected, verdict, view>>

\* CommandFailed
Refused ==
  /\ flight = Completion("fail")
  /\ Report("FAILED")

\* Mutant: the acknowledgement is taken for the storage readback.
ReadbackTrusts ==
  /\ phase = "readback"
  /\ Finish("STORED")
  /\ cache' = "new"
  /\ available' = TRUE

\* The EEPROM is read back in the same transaction and compared.
Readback ==
  /\ phase = "readback"
  /\ unit[Field(request)] = expected
  /\ Finish("STORED")
  /\ cache' = "new"
  /\ available' = TRUE

ReadbackDiffers ==
  /\ phase = "readback"
  /\ unit[Field(request)] # expected
  /\ Report(PhaseVerdict(write_state))

\* A timeout, a broken link, an unreadable reply or a disconnect() that raised.
TransportFails ==
  /\ phase \notin {"idle", "locked"}
  /\ Report(PhaseVerdict(write_state))

\* The calling task is cancelled.
Cancelled ==
  /\ phase # "idle"
  /\ Report(IF write_state = "not_attempted" THEN "CANCELLED"
                                             ELSE PhaseVerdict(write_state))

-------------------------------------------------------------------------------
(* Everybody else                                                           *)

\* A poll that succeeds: _async_read reads the image when it is due and it
\* can, and otherwise goes on with the cached one.
Poll ==
  /\ phase = "idle"
  /\ cache' \in {cache, "new"}
  /\ available' = TRUE
  /\ UNCHANGED <<unit, stored, phase, request, expected, write_state, flight, verdict>>

PollFails ==
  /\ phase = "idle"
  /\ available' = FALSE
  /\ UNCHANGED <<unit, stored, phase, request, expected, write_state, flight, verdict,
                 cache>>

\* The OEM app, or the unit itself at a compressor start, changes settings
\* while it is not linked to this client; so does a payload that a link still holds
\* which refused to close (leaked in MicroAirClient) after an uncertain verdict.
Elsewhere ==
  /\ phase \in {"idle", "locked"}
  /\ unit' \in Units
  /\ UNCHANGED <<phase, request, expected, write_state, flight, stored, verdict,
                 view>>

-------------------------------------------------------------------------------
Write ==
  \/ \E r \in Requests : Call(r)
  \/ Refuse \/ Connect \/ ReadLive
  \/ Preflight \/ PreflightRefuses \/ Send
  \/ Acknowledged \/ Refused \/ Readback \/ ReadbackDiffers
  \/ TransportFails \/ Cancelled

Unit == UnitStores \/ UnitIgnores \/ UnitRefuses

Environment == Poll \/ PollFails \/ Elsewhere

Next == Write \/ Unit \/ Environment

Spec == Init /\ [][Next]_vars

-------------------------------------------------------------------------------
(* Properties                                                               *)

Payloads == [cmd : {"SMask", "SCPT", "FMask"}, hi : 0..15, lo : 0..15]

\* Type invariant of the write path.
TypeOK ==
  /\ unit \in Settings
  /\ phase \in Phases
  /\ request \in Requests \cup {NoRequest}
  /\ phase \in {"writing", "readback"} => expected \in Buildable(CommandOf(request))
  /\ write_state \in {"not_attempted", "attempted", "acknowledged"}
  /\ flight \in Payloads \cup {NoFlight, Completion("ok"), Completion("fail")}
  /\ stored \in BOOLEAN
  /\ verdict \in {"none", "REJECTED", "FAILED", "CANCELLED", "INDETERMINATE",
                  "ACKNOWLEDGED-BUT-UNVERIFIED", "STORED"}
  /\ cache \in {"none", "old", "new"}
  /\ available \in BOOLEAN

\* The assertion at the write site never fires: what the builder, the
\* preflight and the per-request checks let through together is always inside
\* the whitelist, which states the same ranges once more as a pattern.
PayloadWhitelisted == flight \in Payloads => Whitelisted(flight)

\* The write path keeps its promise (WriteContract): the unit changes at most
\* once per open request, exactly as asked and only if permitted, and no verdict
\* misleads.
KeepsContract == Contract!Spec

\* What the entities offer and what the client accepts are decided in different
\* places, of images read at different times; of one image they agree: an offered
\* request is only refused if it would disable the last protection, and a request
\* that is not offered is always refused.
OfferedIsAccepted ==
  phase = "preflight" /\ PreflightAccepts(unit) =>
    (RequestAccepts(unit, request) <=>
       /\ request \in Offered(unit)
       /\ request.kind = "fault" =>
            fault_protection_allowed(unit.fault, request.bit, request.enabled))

\* Once a unit has carried out a request, the control that asked shows what it asked
\* for and no other control moves; a STORED verdict publishes an image that shows it,
\* and entities that show a setting in different forms agree.
StoredIsShown ==
  [][/\ stored' /\ ~stored =>
          ShowsRequest(unit', request) /\ LeavesOthers(unit, unit', request)
     /\ verdict' = "STORED" /\ verdict = "none" =>
          ShowsRequest(unit', request) /\ Coherent(unit')]_vars

\* writes.py:194-195 says of an uncertain write that the cached image must not
\* keep presenting the pre-write value as verified.
UncertainNotPresented ==
  verdict \in Contract!Uncertain /\ available => cache # "old"
===============================================================================
