------------------------------- MODULE EntityViews -------------------------------
(***************************************************************************)
(* What the entities show of an EEPROM image and what they let a user ask  *)
(* for: select.py, switch.py, number.py and the attributes of sensor.py.   *)
(* An image is a record of Settings; without one none of them is available.*)
(***************************************************************************)
EXTENDS EasyStartProtocol

\* MicroAirStartupModeSelect.options
BaseOptions == {"NORMAL", "RELEARN", "DEFAULT_RAMP"}

\* Mutant: SuperLearn is offered to every unit.
options_all(image) == StartupMode

options(image) ==
  BaseOptions \cup (IF superlearn_available(image.firmware) THEN {"SUPERLEARN"} ELSE {})

current_option(image) == mode_from_mask(image.startup)

\* Home Assistant shows an option that is not among the options as unknown.
select_state(image) ==
  IF current_option(image) \in options(image) THEN current_option(image) ELSE "unknown"

flag_is_on(image, flag) == flag \in image.startup
protection_is_on(image, protection) == protection \in image.fault

\* The timer's value means something else in Start Delay mode.
interpretation(image) ==
  IF 3 \in image.startup THEN "start_delay" ELSE "short_cycle_protection"

\* Mutant: the attribute of the one flag shows the other.
startup_bits_swapped(image) ==
  [relearn           |-> 0 \in image.startup,
   default_ramp      |-> 1 \in image.startup,
   no_power_up_delay |-> 3 \in image.startup,
   start_delay_mode  |-> 2 \in image.startup,
   superlearn        |-> SuperLearnBit \in image.startup]

startup_bits(image) ==
  [relearn           |-> 0 \in image.startup,
   default_ramp      |-> 1 \in image.startup,
   no_power_up_delay |-> 2 \in image.startup,
   start_delay_mode  |-> 3 \in image.startup,
   superlearn        |-> SuperLearnBit \in image.startup]

fault_bits(image) == [protection \in FaultProtection |-> protection \in image.fault]

\* The requests the select, the switches and the number let a user make.
Offered(image) ==
       {r \in ModeRequests : r.mode \in options(image)}
  \cup FlagRequests
  \cup [kind : {"scpt"}, minutes : Minutes]
  \cup FaultRequests

-------------------------------------------------------------------------------
\* The entities show what the request asked for.
ShowsRequest(image, r) ==
  CASE r.kind = "mode"  -> select_state(image) = r.mode
    [] r.kind = "flag"  -> flag_is_on(image, r.bit) = r.enabled
    [] r.kind = "scpt"  -> image.scpt = r.minutes
    [] r.kind = "fault" -> protection_is_on(image, r.bit) = r.enabled

\* Of the entities that show one setting in different forms none contradicts another.
Coherent(image) ==
  LET bits == startup_bits(image)
  IN  /\ bits.relearn <=> current_option(image) \in {"RELEARN", "SUPERLEARN"}
      /\ bits.relearn => (bits.superlearn <=> current_option(image) = "SUPERLEARN")
      /\ ~bits.relearn => (bits.default_ramp <=> current_option(image) = "DEFAULT_RAMP")
      /\ bits.no_power_up_delay = flag_is_on(image, 2)
      /\ bits.start_delay_mode = flag_is_on(image, 3)
      /\ flag_is_on(image, 3) <=> interpretation(image) = "start_delay"
      /\ \A p \in FaultProtection : fault_bits(image)[p] = protection_is_on(image, p)

\* A request for one setting leaves what is shown of the others alone.
LeavesOthers(old, new, r) ==
  /\ r.kind # "mode" => select_state(new) = select_state(old)
  /\ \A flag \in StartupFlag :
       r.kind # "flag" \/ r.bit # flag => flag_is_on(new, flag) = flag_is_on(old, flag)
  /\ r.kind # "scpt" => new.scpt = old.scpt
  /\ \A p \in FaultProtection :
       r.kind # "fault" \/ r.bit # p => protection_is_on(new, p) = protection_is_on(old, p)
===============================================================================
