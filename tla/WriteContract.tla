----------------------------- MODULE WriteContract -----------------------------
(***************************************************************************)
(* What the guarded write path promises, stated without how it is done.    *)
(*                                                                         *)
(* A unit stores a handful of settings.  A request is open, changes the    *)
(* unit at most once and only in the way it asks for, and is closed with a *)
(* verdict the operator can rely on, or is turned down unopened.  While no *)
(* request is open the OEM app and the unit itself may change anything.    *)
(***************************************************************************)
EXTENDS EasyStartProtocol

CONSTANTS
  Units,        \* the settings a unit can be found with
  Requests,     \* the requests of the service and of the control entities
  NoRequest     \* value of request while none is open

\* Verdicts that tell the operator nothing was stored, and that it is unknown.
Nothing == {"REJECTED", "FAILED", "CANCELLED"}
Uncertain == {"INDETERMINATE", "ACKNOWLEDGED-BUT-UNVERIFIED"}

VARIABLES
  unit,         \* the settings stored in the unit
  request,      \* the open request, or NoRequest
  stored,       \* the unit carried out the open request
  verdict       \* how the last request was closed

vars == <<unit, request, stored, verdict>>

-------------------------------------------------------------------------------
\* Every bit but b is as before, and b is as asked.
OnlyBit(before, after, b, enabled) ==
  /\ (b \in after) = enabled
  /\ \A other \in Bits \ {b} : other \in after <=> other \in before

\* A new mode replaces the old one and nothing else: the flags stay, and the
\* SuperLearn label stays unless a relearn is asked for.
OnlyMode(before, after, mode) ==
  /\ after \subseteq StartupMaskBits
  /\ mode_from_mask(after) = mode
  /\ \A flag \in FlagBits : flag \in after <=> flag \in before
  /\ mode \in {"NORMAL", "DEFAULT_RAMP"} =>
       (SuperLearnBit \in after <=> SuperLearnBit \in before)

\* after is before with r carried out.
Effect(before, after, r) ==
  /\ after.model = before.model
  /\ after.firmware = before.firmware
  /\ IF r.kind \in {"mode", "flag"}
       THEN after.fault = before.fault /\ after.scpt = before.scpt
       ELSE after.startup = before.startup
  /\ CASE r.kind = "mode"  -> OnlyMode(before.startup, after.startup, r.mode)
       [] r.kind = "flag"  -> OnlyBit(before.startup, after.startup, r.bit, r.enabled)
       [] r.kind = "scpt"  -> /\ after.fault = before.fault
                              /\ after.scpt = r.minutes
                              /\ after.scpt \in Minutes
       [] r.kind = "fault" -> /\ after.scpt = before.scpt
                              /\ OnlyBit(before.fault, after.fault, r.bit, r.enabled)
                              /\ after.fault # {}

\* Units the integration may write to at all: the control model, with masks
\* it understands, and SuperLearn only where the OEM app offers it.
Permitted(u, r) ==
  /\ u.model = ControlModel
  /\ u.startup \subseteq StartupMaskBits
  /\ u.fault \subseteq FaultMaskBits
  /\ r.kind = "mode" /\ r.mode = "SUPERLEARN" =>
       u.firmware >= SuperLearnMinFirmware

-------------------------------------------------------------------------------
Init ==
  /\ unit \in Units
  /\ request = NoRequest
  /\ stored = FALSE
  /\ verdict = "none"

\* A request arrives, is turned down or given up before anything is done.
Arrive ==
  /\ request = NoRequest
  /\ verdict' \in {"none", "REJECTED", "CANCELLED"}
  /\ UNCHANGED <<unit, request, stored>>

Open(r) ==
  /\ request = NoRequest
  /\ request' = r
  /\ UNCHANGED <<unit, stored, verdict>>

Store ==
  /\ request # NoRequest
  /\ ~stored
  /\ Permitted(unit, request)
  /\ Effect(unit, unit', request)
  /\ stored' = TRUE
  /\ UNCHANGED <<request, verdict>>

\* STORED claims that the unit is as asked; a verdict of nothing stored is
\* only given when the unit did not carry the request out.
Close(v) ==
  /\ request # NoRequest
  /\ v \in Nothing => ~stored
  /\ v = "STORED" => Effect(unit, unit, request)
  /\ request' = NoRequest
  /\ stored' = FALSE
  /\ verdict' = v
  /\ UNCHANGED unit

Elsewhere ==
  /\ request = NoRequest
  /\ unit' \in Units
  /\ UNCHANGED <<request, stored, verdict>>

Next ==
  \/ Arrive
  \/ \E r \in Requests : Open(r)
  \/ Store
  \/ \E v \in Nothing \cup Uncertain \cup {"STORED"} : Close(v)
  \/ Elsewhere

Spec == Init /\ [][Next]_vars
===============================================================================
