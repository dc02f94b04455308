--------------------------- MODULE EasyStartProtocol ---------------------------
(***************************************************************************)
(* The parameter arithmetic and the command whitelist of                   *)
(* microair/protocol.py and microair/client.py.                            *)
(*                                                                         *)
(* A mask byte is the set of the bits that are 1, so "&" is intersection,  *)
(* "|" is union and "& ~" is set difference; a StartupMode, StartupFlag or *)
(* FaultProtection is the set, or the number, of the bits it stands for.   *)
(* A byte that is a number (SCPT minutes, firmware) stays one.             *)
(***************************************************************************)
EXTENDS Naturals

Bits == 0..7
Masks == SUBSET Bits

StartupMaskBits == 0..4          \* STARTUP_MASK_MAX = 0x1F
FaultMaskBits == 0..6            \* FAULT_MASK_MAX = 0x7F
FlagBits == {2, 3}               \* _FLAG_BITS = 0x0C
SuperLearnBit == 4               \* SUPERLEARN_BIT = 0x10
SuperLearnMinFirmware == 29
MinutesToFF == 1..255            \* Mutant: the upper end of the byte
Minutes == 1..250                \* SCPT_MIN .. SCPT_MAX

StartupMode == {"NORMAL", "RELEARN", "DEFAULT_RAMP", "SUPERLEARN"}
StartupFlag == FlagBits
FaultProtection == FaultMaskBits

ModeBits ==
  [NORMAL |-> {}, RELEARN |-> {0}, DEFAULT_RAMP |-> {1},
   SUPERLEARN |-> {0, SuperLearnBit}]

-------------------------------------------------------------------------------
(* Mask arithmetic                                                          *)

\* mode_mask: keep the flags, and the SuperLearn label unless a relearn is chosen.
mode_mask(current, mode) ==
  LET kept == IF mode \in {"NORMAL", "DEFAULT_RAMP"}
                THEN FlagBits \cup {SuperLearnBit} ELSE FlagBits
  IN  (current \cap kept) \cup ModeBits[mode]

mode_from_mask(mask) ==
  CASE 0 \in mask /\ SuperLearnBit \in mask    -> "SUPERLEARN"
    [] 0 \in mask /\ SuperLearnBit \notin mask -> "RELEARN"
    [] 0 \notin mask /\ 1 \in mask             -> "DEFAULT_RAMP"
    [] OTHER                                   -> "NORMAL"

superlearn_available(firmware) == firmware >= SuperLearnMinFirmware

\* One bit of a mask set or cleared: flag_mask, and fault_protection_mask
\* where it returns.
WithBit(current, bit, enabled) ==
  IF enabled THEN current \cup {bit} ELSE current \ {bit}

flag_mask(current, flag, enabled) == WithBit(current, flag, enabled)

\* fault_protection_mask raises when no protection would be left.
fault_protection_allowed(current, protection, enabled) ==
  WithBit(current, protection, enabled) \cap FaultMaskBits # {}

fault_protection_mask(current, protection, enabled) ==
  WithBit(current, protection, enabled)

\* Mutant: one bit too few is checked.
has_unsupported_bits_top(mask) == mask \cap {6, 7} # {}

has_unsupported_bits(mask) == mask \cap {5, 6, 7} # {}

-------------------------------------------------------------------------------
(* Commands                                                                 *)

\* The values build() accepts for a parameter write (it raises otherwise).
Buildable(cmd) ==
  CASE cmd = "SMask" -> SUBSET StartupMaskBits
    [] cmd = "SCPT"  -> Minutes
    [] cmd = "FMask" -> (SUBSET FaultMaskBits) \ {{}}

\* The two digits of the "%02X" token of a mask and of a number.
Digit(mask, low) ==
    (IF low \in mask THEN 1 ELSE 0) + (IF low + 1 \in mask THEN 2 ELSE 0)
  + (IF low + 2 \in mask THEN 4 ELSE 0) + (IF low + 3 \in mask THEN 8 ELSE 0)
MaskToken(cmd, mask) == [cmd |-> cmd, hi |-> Digit(mask, 4), lo |-> Digit(mask, 0)]
ByteToken(cmd, n) == [cmd |-> cmd, hi |-> n \div 16, lo |-> n % 16]

build(cmd, value) ==
  IF cmd = "SCPT" THEN ByteToken(cmd, value) ELSE MaskToken(cmd, value)

\* _WRITE_PATTERN, asserted again at the one place that writes.
Whitelisted(payload) ==
  CASE payload.cmd = "SMask" -> payload.hi \in {0, 1}
    [] payload.cmd = "SCPT"  -> \/ payload.hi = 0 /\ payload.lo \in 1..15
                                \/ payload.hi \in 1..14
                                \/ payload.hi = 15 /\ payload.lo \in 0..10
    [] payload.cmd = "FMask" -> \/ payload.hi = 0 /\ payload.lo \in 1..15
                                \/ payload.hi \in 1..7

-------------------------------------------------------------------------------
(* What a unit stores and what can be asked of it                           *)

ControlModel == "398ULBT"        \* CONTROL_MODELS

\* The EEPROM fields of EepromData.
Settings == [model : STRING, firmware : Nat, startup : Masks, fault : Masks,
             scpt : Nat]

\* The requests of writes.py: a mode or flag of the startup mask, the timer,
\* one protection of the fault mask.
ModeRequests == [kind : {"mode"}, mode : StartupMode]
FlagRequests == [kind : {"flag"}, bit : StartupFlag, enabled : BOOLEAN]
ScptRequests == [kind : {"scpt"}, minutes : Nat]
FaultRequests == [kind : {"fault"}, bit : FaultProtection, enabled : BOOLEAN]
WriteRequests == ModeRequests \cup FlagRequests \cup ScptRequests \cup FaultRequests

\* The settings field a request reads back, and the command that writes it.
Field(r) ==
  CASE r.kind \in {"mode", "flag"} -> "startup"
    [] r.kind = "scpt"             -> "scpt"
    [] r.kind = "fault"            -> "fault"
CommandOf(r) ==
  CASE r.kind \in {"mode", "flag"} -> "SMask"
    [] r.kind = "scpt"             -> "SCPT"
    [] r.kind = "fault"            -> "FMask"

\* The value write_* computes from the preflight image.
Target(image, r) ==
  CASE r.kind = "mode"  -> mode_mask(image.startup, r.mode)
    [] r.kind = "flag"  -> flag_mask(image.startup, r.bit, r.enabled)
    [] r.kind = "scpt"  -> r.minutes
    [] r.kind = "fault" -> fault_protection_mask(image.fault, r.bit, r.enabled)
===============================================================================
