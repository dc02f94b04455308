-------------------------- MODULE GuardedWriteProofs --------------------------
(***************************************************************************)
(* Machine-checked theorems about GuardedWrite, for any units and any      *)
(* requests: lemmas about the mask arithmetic and the payload encoding,    *)
(* the inductive invariant of the write path, and that it implements       *)
(* WriteContract.                                                          *)
(***************************************************************************)
EXTENDS GuardedWrite, TLAPS

ParameterCommands == {"SMask", "SCPT", "FMask"}

-------------------------------------------------------------------------------
(* Requests and masks                                                       *)

\* A request is of one of the four shapes, told apart by its kind.
LEMMA RequestShape ==
  ASSUME NEW r \in WriteRequests
  PROVE  \/ r.kind = "mode" /\ r.mode \in StartupMode /\ r \in ModeRequests
         \/ r.kind = "flag" /\ r.bit \in StartupFlag /\ r.enabled \in BOOLEAN
              /\ r \in FlagRequests
         \/ r.kind = "scpt" /\ r.minutes \in Nat /\ r \in ScptRequests
         \/ r.kind = "fault" /\ r.bit \in FaultProtection /\ r.enabled \in BOOLEAN
              /\ r \in FaultRequests
  BY DEF WriteRequests, ModeRequests, FlagRequests, ScptRequests, FaultRequests

\* What mode_mask leaves of a mask, mode by mode.
LEMMA ModeMaskBits ==
  ASSUME NEW m \in SUBSET StartupMaskBits, NEW b
  PROVE  /\ (b \in mode_mask(m, "NORMAL")) <=> (b \in m /\ b \in {2, 3, 4})
         /\ (b \in mode_mask(m, "DEFAULT_RAMP")) <=> (b = 1 \/ (b \in m /\ b \in {2, 3, 4}))
         /\ (b \in mode_mask(m, "RELEARN")) <=> (b = 0 \/ (b \in m /\ b \in {2, 3}))
         /\ (b \in mode_mask(m, "SUPERLEARN")) <=> (b \in {0, 4} \/ (b \in m /\ b \in {2, 3}))
<1>1. /\ ModeBits["NORMAL"] = {}
      /\ ModeBits["DEFAULT_RAMP"] = {1}
      /\ ModeBits["RELEARN"] = {0}
      /\ ModeBits["SUPERLEARN"] = {0, 4}
  BY DEF ModeBits, SuperLearnBit
<1> QED
  BY <1>1 DEF mode_mask, FlagBits, SuperLearnBit

\* A mode written over a mask reads back as that mode and moves nothing else.
LEMMA ModeMask ==
  ASSUME NEW m \in SUBSET StartupMaskBits, NEW mode \in StartupMode
  PROVE  Contract!OnlyMode(m, mode_mask(m, mode), mode)
<1> DEFINE after == mode_mask(m, mode)
<1>1. mode \in {"NORMAL", "DEFAULT_RAMP", "RELEARN", "SUPERLEARN"}
  BY DEF StartupMode
<1>2. after \subseteq 0..4
  BY <1>1, ModeMaskBits DEF StartupMaskBits
<1>3. /\ 0 \in after <=> mode \in {"RELEARN", "SUPERLEARN"}
      /\ mode \in {"RELEARN", "SUPERLEARN"} => (4 \in after <=> mode = "SUPERLEARN")
      /\ mode \in {"NORMAL", "DEFAULT_RAMP"} => (1 \in after <=> mode = "DEFAULT_RAMP")
      /\ mode \in {"NORMAL", "DEFAULT_RAMP"} => (4 \in after <=> 4 \in m)
  BY <1>1, ModeMaskBits
<1>4. \A flag \in {2, 3} : flag \in after <=> flag \in m
  BY <1>1, ModeMaskBits
<1> HIDE DEF after
<1>5. Contract!mode_from_mask(after) = mode
  <2> USE DEF Contract!mode_from_mask, Contract!SuperLearnBit
  <2>1. CASE mode = "NORMAL"
    BY <1>3, <2>1
  <2>2. CASE mode = "DEFAULT_RAMP"
    BY <1>3, <2>2
  <2>3. CASE mode = "RELEARN"
    BY <1>3, <2>3
  <2>4. CASE mode = "SUPERLEARN"
    BY <1>3, <2>4
  <2> QED
    BY <1>1, <2>1, <2>2, <2>3, <2>4
<1> QED
  BY <1>2, <1>3, <1>4, <1>5
     DEF after, Contract!OnlyMode, Contract!StartupMaskBits, Contract!FlagBits,
         Contract!SuperLearnBit

\* Setting or clearing one bit of a mask moves no other.
LEMMA BitMask ==
  ASSUME NEW m \in Masks, NEW b \in Bits, NEW enabled \in BOOLEAN
  PROVE  /\ WithBit(m, b, enabled) \in Masks
         /\ Contract!OnlyBit(m, WithBit(m, b, enabled), b, enabled)
  BY DEF Masks, Bits, WithBit, Contract!OnlyBit, Contract!Bits

-------------------------------------------------------------------------------
(* Payloads                                                                 *)

\* A digit spells the four bits it stands for, and no other digit spells them.
LEMMA DigitBits ==
  ASSUME NEW m, NEW low \in {0, 4}
  PROVE  /\ Digit(m, low) \in 0..15
         /\ \A n : Digit(m, low) = Digit(n, low) =>
              \A b \in low..low + 3 : b \in m <=> b \in n
<1>1. Digit(m, low) \in 0..15
  BY DEF Digit
<1>2. ASSUME NEW n, Digit(m, low) = Digit(n, low), NEW b \in low..low + 3
      PROVE  b \in m <=> b \in n
  <2>1. b \in {low, low + 1, low + 2, low + 3}
    OBVIOUS
  <2> QED
    BY <1>2, <2>1 DEF Digit
<1> QED
  BY <1>1, <1>2

\* Two masks of the same token are the same mask.
LEMMA MaskTokenUnique ==
  ASSUME NEW cmd, NEW m \in Masks, NEW n \in Masks,
         MaskToken(cmd, m) = MaskToken(cmd, n)
  PROVE  m = n
<1>1. Digit(m, 0) = Digit(n, 0) /\ Digit(m, 4) = Digit(n, 4)
  BY DEF MaskToken
<1> HIDE DEF Digit
<1>2. \A b \in 0..3 : b \in m <=> b \in n
  BY <1>1, DigitBits
<1>3. \A b \in 4..7 : b \in m <=> b \in n
  BY <1>1, DigitBits
<1>4. m \subseteq 0..7 /\ n \subseteq 0..7
  BY DEF Masks, Bits
<1>5. \A b \in 0..7 : b \in m <=> b \in n
  BY <1>2, <1>3
<1> QED
  BY <1>4, <1>5

\* A byte is its two digits.
LEMMA ByteTokenUnique ==
  ASSUME NEW cmd, NEW m \in 0..255, NEW n \in 0..255,
         ByteToken(cmd, m) = ByteToken(cmd, n)
  PROVE  m = n
<1>1. m \div 16 = n \div 16 /\ m % 16 = n % 16
  BY DEF ByteToken
<1> QED
  BY <1>1

\* What build() accepts are masks or bytes.
LEMMA BuildableTypes ==
  /\ Buildable("SMask") = SUBSET (0..4)
  /\ Buildable("SCPT") = 1..250
  /\ Buildable("FMask") = (SUBSET (0..6)) \ {{}}
  BY DEF Buildable, StartupMaskBits, FaultMaskBits, Minutes

\* build() loses nothing: the unit reads off a payload the value it was made of.
LEMMA DecodesBuilt ==
  ASSUME NEW cmd \in ParameterCommands, NEW value \in Buildable(cmd)
  PROVE  Decoded(build(cmd, value)) = value
<1>1. build(cmd, value).cmd = cmd
  BY DEF build, ByteToken, MaskToken
<1>2. ASSUME NEW other \in Buildable(cmd), build(cmd, other) = build(cmd, value)
      PROVE  other = value
  <2>1. CASE cmd = "SCPT"
    <3>1. value \in 0..255 /\ other \in 0..255
      BY <1>2, <2>1, BuildableTypes
    <3> QED
      BY <1>2, <2>1, <3>1, ByteTokenUnique DEF build
  <2>2. CASE cmd \in {"SMask", "FMask"}
    <3>1. value \in Masks /\ other \in Masks
      BY <1>2, <2>2, BuildableTypes DEF Masks, Bits
    <3> QED
      BY <1>2, <2>2, <3>1, MaskTokenUnique DEF build
  <2> QED
    BY <2>1, <2>2 DEF ParameterCommands
<1> QED
  BY <1>1, <1>2 DEF Decoded

\* Everything build() makes is inside the pattern of the write site.
LEMMA BuiltWhitelisted ==
  ASSUME NEW cmd \in ParameterCommands, NEW value \in Buildable(cmd)
  PROVE  build(cmd, value) \in Payloads /\ Whitelisted(build(cmd, value))
<1> DEFINE p == build(cmd, value)
<1>1. CASE cmd = "SCPT"
  <2>1. value \in 1..250
    BY <1>1, BuildableTypes
  <2>2. p = [cmd |-> "SCPT", hi |-> value \div 16, lo |-> value % 16]
    BY <1>1 DEF build, ByteToken
  <2>3. /\ value \div 16 \in 0..15 /\ value % 16 \in 0..15
        /\ value = 16 * (value \div 16) + (value % 16)
    BY <2>1
  <2> QED
    BY <2>1, <2>2, <2>3 DEF Payloads, Whitelisted
<1>2. CASE cmd \in {"SMask", "FMask"}
  <2>1. value \in Masks /\ (cmd = "SMask" => value \subseteq 0..4)
          /\ (cmd = "FMask" => value \subseteq 0..6 /\ value # {})
    BY <1>2, BuildableTypes DEF Masks, Bits
  <2>2. p = [cmd |-> cmd, hi |-> Digit(value, 4), lo |-> Digit(value, 0)]
    BY <1>2 DEF build, MaskToken
  <2>3. Digit(value, 4) \in 0..15 /\ Digit(value, 0) \in 0..15
    BY DigitBits
  <2>4. CASE cmd = "SMask"
    <3>1. Digit(value, 4) \in {0, 1}
      BY <2>1, <2>4 DEF Digit
    <3> QED
      BY <2>2, <2>3, <2>4, <3>1 DEF Payloads, Whitelisted
  <2>5. CASE cmd = "FMask"
    <3>1. Digit(value, 4) \in 0..7
      BY <2>1, <2>5 DEF Digit
    <3>2. Digit(value, 4) = 0 => Digit(value, 0) # 0
      <4>1. PICK b \in 0..6 : b \in value
        BY <2>1, <2>5
      <4>2. b \in {0, 1, 2, 3, 4, 5, 6}
        OBVIOUS
      <4> QED
        BY <4>1, <4>2 DEF Digit
    <3> QED
      BY <2>2, <2>3, <2>5, <3>1, <3>2 DEF Payloads, Whitelisted
  <2> QED
    BY <1>2, <2>4, <2>5
<1> QED
  BY <1>1, <1>2 DEF ParameterCommands

-------------------------------------------------------------------------------
(* What carrying out a request does to a unit                               *)

\* The command and the field of a request, by its kind.
LEMMA KindOfRequest ==
  ASSUME NEW r
  PROVE  /\ r.kind \in {"mode", "flag"} => CommandOf(r) = "SMask" /\ Field(r) = "startup"
         /\ r.kind = "scpt" => CommandOf(r) = "SCPT" /\ Field(r) = "scpt"
         /\ r.kind = "fault" => CommandOf(r) = "FMask" /\ Field(r) = "fault"
  BY DEF CommandOf, Field

\* The value a request asks for, by its kind.
LEMMA TargetOfRequest ==
  ASSUME NEW u, NEW r
  PROVE  /\ r.kind = "mode" => Target(u, r) = mode_mask(u.startup, r.mode)
         /\ r.kind = "flag" => Target(u, r) = WithBit(u.startup, r.bit, r.enabled)
         /\ r.kind = "scpt" => Target(u, r) = r.minutes
         /\ r.kind = "fault" => Target(u, r) = WithBit(u.fault, r.bit, r.enabled)
  BY DEF Target, flag_mask, fault_protection_mask

\* The effect of a request, by its kind.
LEMMA EffectOfRequest ==
  ASSUME NEW before, NEW after, NEW r,
         after.model = before.model, after.firmware = before.firmware
  PROVE  /\ r.kind = "mode" =>
              (Contract!Effect(before, after, r) <=>
                 /\ after.fault = before.fault /\ after.scpt = before.scpt
                 /\ Contract!OnlyMode(before.startup, after.startup, r.mode))
         /\ r.kind = "flag" =>
              (Contract!Effect(before, after, r) <=>
                 /\ after.fault = before.fault /\ after.scpt = before.scpt
                 /\ Contract!OnlyBit(before.startup, after.startup, r.bit, r.enabled))
         /\ r.kind = "scpt" =>
              (Contract!Effect(before, after, r) <=>
                 /\ after.startup = before.startup /\ after.fault = before.fault
                 /\ after.scpt = r.minutes /\ after.scpt \in Contract!Minutes)
         /\ r.kind = "fault" =>
              (Contract!Effect(before, after, r) <=>
                 /\ after.startup = before.startup /\ after.scpt = before.scpt
                 /\ Contract!OnlyBit(before.fault, after.fault, r.bit, r.enabled)
                 /\ after.fault # {})
<1> USE DEF Contract!Effect
<1>1. CASE r.kind = "mode"
  BY <1>1
<1>2. CASE r.kind = "flag"
  BY <1>2
<1>3. CASE r.kind = "scpt"
  BY <1>3
<1>4. CASE r.kind = "fault"
  BY <1>4
<1> QED
  BY <1>1, <1>2, <1>3, <1>4

\* A unit whose field holds another value.
Updated(u, r, value) == [u EXCEPT ![Field(r)] = value]

\* If that is a buildable value, it is a unit like before in every other field.
LEMMA UpdatedSettings ==
  ASSUME NEW u \in Settings, NEW r \in WriteRequests,
         NEW value \in Buildable(CommandOf(r)),
         NEW v, v = Updated(u, r, value)
  PROVE  /\ v \in Settings
         /\ v.model = u.model /\ v.firmware = u.firmware
         /\ v[Field(r)] = value
         /\ r.kind \in {"mode", "flag"} =>
              v.startup = value /\ v.fault = u.fault /\ v.scpt = u.scpt
         /\ r.kind = "scpt" =>
              v.startup = u.startup /\ v.fault = u.fault /\ v.scpt = value
         /\ r.kind = "fault" =>
              v.startup = u.startup /\ v.fault = value /\ v.scpt = u.scpt
<1> USE KindOfRequest, BuildableTypes DEF Updated, Settings, Masks, Bits
<1>1. CASE r.kind \in {"mode", "flag"}
  BY <1>1
<1>2. CASE r.kind = "scpt"
  BY <1>2
<1>3. CASE r.kind = "fault"
  BY <1>3
<1> QED
  BY <1>1, <1>2, <1>3, RequestShape

\* What the client writes for an accepted request is what the request asks for,
\* and nothing else.
LEMMA TargetEffect ==
  ASSUME NEW u \in Settings, NEW r \in WriteRequests,
         Contract!Permitted(u, r), Target(u, r) \in Buildable(CommandOf(r)),
         NEW v, v = Updated(u, r, Target(u, r))
  PROVE  Contract!Effect(u, v, r)
<1> DEFINE value == Target(u, r)
<1>0. value \in Buildable(CommandOf(r)) /\ v = Updated(u, r, value)
  OBVIOUS
<1> HIDE DEF value
<1>1. /\ v.model = u.model /\ v.firmware = u.firmware
      /\ r.kind \in {"mode", "flag"} =>
           v.startup = value /\ v.fault = u.fault /\ v.scpt = u.scpt
      /\ r.kind = "scpt" =>
           v.startup = u.startup /\ v.fault = u.fault /\ v.scpt = value
      /\ r.kind = "fault" =>
           v.startup = u.startup /\ v.fault = value /\ v.scpt = u.scpt
  BY <1>0, UpdatedSettings
<1> USE DEF value
<1>2. u.startup \in SUBSET StartupMaskBits /\ u.startup \in Masks /\ u.fault \in Masks
  BY DEF Contract!Permitted, Contract!StartupMaskBits, StartupMaskBits, Settings
<1>3. StartupFlag \subseteq Bits /\ FaultProtection \subseteq Bits
  BY DEF StartupFlag, FlagBits, FaultProtection, FaultMaskBits, Bits
<1>4. CASE r.kind = "mode"
  <2>1. Contract!OnlyMode(u.startup, v.startup, r.mode)
    BY <1>1, <1>2, <1>4, RequestShape, ModeMask, TargetOfRequest
  <2> QED
    BY <1>1, <1>4, <2>1, EffectOfRequest
<1>5. CASE r.kind = "flag"
  <2>1. Contract!OnlyBit(u.startup, v.startup, r.bit, r.enabled)
    BY <1>1, <1>2, <1>3, <1>5, RequestShape, BitMask, TargetOfRequest
  <2> QED
    BY <1>1, <1>5, <2>1, EffectOfRequest
<1>6. CASE r.kind = "scpt"
  <2>1. v.scpt = r.minutes /\ v.scpt \in Contract!Minutes
    BY <1>1, <1>6, BuildableTypes, KindOfRequest, TargetOfRequest DEF Contract!Minutes
  <2> QED
    BY <1>1, <1>6, <2>1, EffectOfRequest
<1>7. CASE r.kind = "fault"
  <2>1. Contract!OnlyBit(u.fault, v.fault, r.bit, r.enabled)
    BY <1>1, <1>2, <1>3, <1>7, RequestShape, BitMask, TargetOfRequest
  <2>2. v.fault # {}
    BY <1>1, <1>7, BuildableTypes, KindOfRequest
  <2> QED
    BY <1>1, <1>7, <2>1, <2>2, EffectOfRequest
<1> QED
  BY <1>4, <1>5, <1>6, <1>7, RequestShape

\* Once carried out, a request asks for what is already there.
LEMMA EffectSettles ==
  ASSUME NEW u, NEW v, NEW r \in WriteRequests, Contract!Effect(u, v, r)
  PROVE  Contract!Effect(v, v, r)
<1>1. v.model = u.model /\ v.firmware = u.firmware
  BY DEF Contract!Effect
<1>2. CASE r.kind = "mode"
  BY <1>1, <1>2, EffectOfRequest DEF Contract!OnlyMode
<1>3. CASE r.kind = "flag"
  BY <1>1, <1>3, EffectOfRequest DEF Contract!OnlyBit
<1>4. CASE r.kind = "scpt"
  BY <1>1, <1>4, EffectOfRequest
<1>5. CASE r.kind = "fault"
  BY <1>1, <1>5, EffectOfRequest DEF Contract!OnlyBit
<1> QED
  BY <1>2, <1>3, <1>4, <1>5, RequestShape

\* A unit that may be written to still may be once the request is carried out.
LEMMA StaysPermitted ==
  ASSUME NEW u \in Settings, NEW v \in Settings, NEW r \in WriteRequests,
         Contract!Permitted(u, r), Contract!Effect(u, v, r)
  PROVE  Contract!Permitted(v, r)
<1>1. v.model = u.model /\ v.firmware = u.firmware
  BY DEF Contract!Effect
<1>2. u.startup \subseteq 0..4 /\ u.fault \subseteq 0..6
  BY DEF Contract!Permitted, Contract!StartupMaskBits, Contract!FaultMaskBits
<1>3. v.startup \subseteq 0..7 /\ v.fault \subseteq 0..7
  BY DEF Settings, Masks, Bits
<1>4. v.startup \subseteq 0..4 /\ v.fault \subseteq 0..6
  <2>1. CASE r.kind = "mode"
    BY <1>1, <1>2, <2>1, EffectOfRequest DEF Contract!OnlyMode, Contract!StartupMaskBits
  <2>2. CASE r.kind = "flag"
    <3>1. Contract!OnlyBit(u.startup, v.startup, r.bit, r.enabled) /\ v.fault = u.fault
      BY <1>1, <2>2, EffectOfRequest
    <3>2. r.bit \in 0..4
      BY <2>2, RequestShape DEF StartupFlag, FlagBits
    <3>3. \A b \in 0..7 : b \in v.startup => b \in 0..4
      BY <1>2, <3>1, <3>2 DEF Contract!OnlyBit, Contract!Bits
    <3> QED
      BY <1>2, <1>3, <3>1, <3>3
  <2>3. CASE r.kind = "scpt"
    BY <1>1, <1>2, <2>3, EffectOfRequest
  <2>4. CASE r.kind = "fault"
    <3>1. Contract!OnlyBit(u.fault, v.fault, r.bit, r.enabled) /\ v.startup = u.startup
      BY <1>1, <2>4, EffectOfRequest
    <3>2. r.bit \in 0..6
      BY <2>4, RequestShape DEF FaultProtection, FaultMaskBits
    <3>3. \A b \in 0..7 : b \in v.fault => b \in 0..6
      BY <1>2, <3>1, <3>2 DEF Contract!OnlyBit, Contract!Bits
    <3> QED
      BY <1>2, <1>3, <3>1, <3>3
  <2> QED
    BY <2>1, <2>2, <2>3, <2>4, RequestShape
<1> QED
  BY <1>1, <1>4 DEF Contract!Permitted, Contract!StartupMaskBits, Contract!FaultMaskBits,
     Contract!ControlModel, Contract!SuperLearnMinFirmware

-------------------------------------------------------------------------------
(* What the entities show                                                   *)

\* The contract reads a mode off a mask as the entities do.
LEMMA SameModeReading ==
  ASSUME NEW m
  PROVE  Contract!mode_from_mask(m) = mode_from_mask(m)
  BY DEF Contract!mode_from_mask, Contract!SuperLearnBit, mode_from_mask, SuperLearnBit

\* A request that took effect on a permitted unit is what the entities show.
LEMMA EffectShown ==
  ASSUME NEW u, NEW v \in Settings, NEW r \in WriteRequests,
         Contract!Permitted(v, r), Contract!Effect(u, v, r)
  PROVE  ShowsRequest(v, r)
<1>1. v.model = u.model /\ v.firmware = u.firmware
  BY DEF Contract!Effect
<1>2. CASE r.kind = "mode"
  <2>1. mode_from_mask(v.startup) = r.mode
    BY <1>1, <1>2, EffectOfRequest, SameModeReading DEF Contract!OnlyMode
  <2>2. r.mode = "SUPERLEARN" => v.firmware >= 29
    BY <1>2 DEF Contract!Permitted, Contract!SuperLearnMinFirmware
  <2>3. r.mode \in {"NORMAL", "RELEARN", "DEFAULT_RAMP", "SUPERLEARN"}
    BY <1>2, RequestShape DEF StartupMode
  <2>4. r.mode \in options(v)
    BY <2>2, <2>3 DEF options, BaseOptions, superlearn_available, SuperLearnMinFirmware
  <2> QED
    BY <1>2, <2>1, <2>4 DEF ShowsRequest, select_state, current_option
<1>3. CASE r.kind = "flag"
  BY <1>1, <1>3, EffectOfRequest, RequestShape DEF ShowsRequest, flag_is_on, Contract!OnlyBit
<1>4. CASE r.kind = "scpt"
  BY <1>1, <1>4, EffectOfRequest DEF ShowsRequest
<1>5. CASE r.kind = "fault"
  BY <1>1, <1>5, EffectOfRequest, RequestShape
     DEF ShowsRequest, protection_is_on, Contract!OnlyBit
<1> QED
  BY <1>2, <1>3, <1>4, <1>5, RequestShape

\* The bits that decide the mode decide what the select shows.
LEMMA SameMode ==
  ASSUME NEW u, NEW v, u.firmware = v.firmware,
         \A b \in {0, 1, 4} : b \in v.startup <=> b \in u.startup
  PROVE  select_state(v) = select_state(u)
<1>1. mode_from_mask(v.startup) = mode_from_mask(u.startup)
  BY DEF mode_from_mask, SuperLearnBit
<1> QED
  BY <1>1 DEF select_state, current_option, options

\* No other control moves.
LEMMA EffectLeavesOthers ==
  ASSUME NEW u \in Settings, NEW v \in Settings, NEW r \in WriteRequests,
         Contract!Effect(u, v, r)
  PROVE  LeavesOthers(u, v, r)
<1> USE DEF LeavesOthers, flag_is_on, protection_is_on
<1>1. v.model = u.model /\ v.firmware = u.firmware
  BY DEF Contract!Effect
<1>2. CASE r.kind = "mode"
  BY <1>1, <1>2, EffectOfRequest
     DEF Contract!OnlyMode, Contract!FlagBits, StartupFlag, FlagBits
<1>3. CASE r.kind = "flag"
  <2>1. /\ v.fault = u.fault /\ v.scpt = u.scpt
        /\ Contract!OnlyBit(u.startup, v.startup, r.bit, r.enabled)
    BY <1>1, <1>3, EffectOfRequest
  <2>2. r.bit \in {2, 3}
    BY <1>3, RequestShape DEF StartupFlag, FlagBits
  <2>3. \A b \in {0, 1, 2, 3, 4} : b # r.bit => (b \in v.startup <=> b \in u.startup)
    BY <2>1 DEF Contract!OnlyBit, Contract!Bits
  <2>4. select_state(v) = select_state(u)
    BY <1>1, <2>2, <2>3, SameMode
  <2> QED
    BY <1>3, <2>1, <2>3, <2>4 DEF StartupFlag, FlagBits
<1>4. CASE r.kind = "scpt"
  <2>1. v.startup = u.startup /\ v.fault = u.fault
    BY <1>1, <1>4, EffectOfRequest
  <2> QED
    BY <1>1, <1>4, <2>1, SameMode
<1>5. CASE r.kind = "fault"
  <2>1. /\ v.startup = u.startup /\ v.scpt = u.scpt
        /\ Contract!OnlyBit(u.fault, v.fault, r.bit, r.enabled)
    BY <1>1, <1>5, EffectOfRequest
  <2>2. \A p \in 0..6 : p # r.bit => (p \in v.fault <=> p \in u.fault)
    BY <2>1 DEF Contract!OnlyBit, Contract!Bits
  <2> QED
    BY <1>1, <1>5, <2>1, <2>2, SameMode DEF FaultProtection, FaultMaskBits
<1> QED
  BY <1>2, <1>3, <1>4, <1>5, RequestShape

\* The entities that show one setting in different forms always agree.
LEMMA AlwaysCoherent ==
  ASSUME NEW u
  PROVE  Coherent(u)
<1>1. /\ 0 \in u.startup <=> current_option(u) \in {"RELEARN", "SUPERLEARN"}
      /\ 0 \in u.startup => (4 \in u.startup <=> current_option(u) = "SUPERLEARN")
      /\ 0 \notin u.startup => (1 \in u.startup <=> current_option(u) = "DEFAULT_RAMP")
  BY DEF current_option, mode_from_mask, SuperLearnBit
<1>2. 3 \in u.startup <=> interpretation(u) = "start_delay"
  BY DEF interpretation
<1> QED
  BY <1>1, <1>2 DEF Coherent, startup_bits, flag_is_on, protection_is_on, fault_bits,
     SuperLearnBit

\* What is offered is what is accepted, but for the last protection.
LEMMA OfferedAccepted ==
  ASSUME NEW u \in Settings, NEW r \in WriteRequests, PreflightAccepts(u)
  PROVE  RequestAccepts(u, r) <=>
           /\ r \in Offered(u)
           /\ r.kind = "fault" => fault_protection_allowed(u.fault, r.bit, r.enabled)
<1>1. /\ u.startup \subseteq 0..4 /\ u.fault \subseteq 0..6
  BY DEF PreflightAccepts, has_unsupported_bits, Settings, Masks, Bits, FaultMaskBits
<1>2. CASE r.kind = "mode"
  <2>1. /\ r \in ModeRequests /\ r.mode \in StartupMode
        /\ r.mode \in {"NORMAL", "RELEARN", "DEFAULT_RAMP", "SUPERLEARN"}
    BY <1>2, RequestShape DEF StartupMode
  <2>2. r \in Offered(u) <=> r.mode \in options(u)
    BY <1>2, <2>1 DEF Offered, FlagRequests, FaultRequests
  <2>3. r.mode \in options(u) <=>
          (r.mode = "SUPERLEARN" => superlearn_available(u.firmware))
    BY <2>1 DEF options, BaseOptions
  <2>4. Target(u, r) \in Buildable(CommandOf(r))
    <3>1. Contract!OnlyMode(u.startup, mode_mask(u.startup, r.mode), r.mode)
      BY <1>1, <2>1, ModeMask DEF StartupMaskBits
    <3>2. mode_mask(u.startup, r.mode) \subseteq 0..4
      BY <3>1 DEF Contract!OnlyMode, Contract!StartupMaskBits
    <3> QED
      BY <1>2, <3>2, TargetOfRequest, KindOfRequest, BuildableTypes
  <2> QED
    BY <1>2, <2>2, <2>3, <2>4 DEF RequestAccepts
<1>3. CASE r.kind = "flag"
  <2>1. r \in FlagRequests /\ r.bit \in {2, 3}
    BY <1>3, RequestShape DEF StartupFlag, FlagBits
  <2>2. Target(u, r) \in Buildable(CommandOf(r))
    BY <1>1, <1>3, <2>1, TargetOfRequest, KindOfRequest, BuildableTypes DEF WithBit
  <2> QED
    BY <1>3, <2>1, <2>2 DEF RequestAccepts, Offered
<1>4. CASE r.kind = "scpt"
  <2>1. r \in ScptRequests
    BY <1>4, RequestShape
  <2>2. r \in Offered(u) <=> r.minutes \in Minutes
    <3>1. r \in [kind : {"scpt"}, minutes : Minutes] <=> r.minutes \in Minutes
      BY <1>4, <2>1 DEF ScptRequests, Minutes
    <3>2. r \notin {q \in ModeRequests : q.mode \in options(u)}
      BY <1>4 DEF ModeRequests
    <3>3. r \notin FlagRequests /\ r \notin FaultRequests
      BY <1>4 DEF FlagRequests, FaultRequests
    <3> QED
      BY <3>1, <3>2, <3>3 DEF Offered
  <2>3. Target(u, r) \in Buildable(CommandOf(r)) <=> r.minutes \in Minutes
    BY <1>4, TargetOfRequest, KindOfRequest, BuildableTypes DEF Minutes
  <2> QED
    BY <1>4, <2>2, <2>3 DEF RequestAccepts
<1>5. CASE r.kind = "fault"
  <2>1. r \in FaultRequests /\ r.bit \in 0..6
    BY <1>5, RequestShape DEF FaultProtection, FaultMaskBits
  <2>2. /\ WithBit(u.fault, r.bit, r.enabled) \subseteq 0..6
        /\ Target(u, r) = WithBit(u.fault, r.bit, r.enabled)
    BY <1>1, <1>5, <2>1, TargetOfRequest DEF WithBit
  <2>3. fault_protection_allowed(u.fault, r.bit, r.enabled) =>
          Target(u, r) \in Buildable(CommandOf(r))
    BY <1>5, <2>2, KindOfRequest, BuildableTypes
       DEF fault_protection_allowed, FaultMaskBits
  <2> QED
    BY <1>5, <2>1, <2>3 DEF RequestAccepts, Offered
<1> QED
  BY <1>2, <1>3, <1>4, <1>5, RequestShape

-------------------------------------------------------------------------------
(* The inductive invariant                                                  *)

\* The phase of async_write, what its client remembers of the write, and what is
\* on its way to the unit go together.
Phased ==
  /\ phase = "idle" <=> request = NoRequest
  /\ phase # "writing" => flight = NoFlight
  /\ phase \notin {"writing", "readback"} => write_state = "not_attempted" /\ ~stored
  /\ phase = "writing" => write_state \in {"not_attempted", "attempted"}
  /\ phase = "readback" => write_state = "acknowledged"
  /\ write_state = "not_attempted" => flight = NoFlight /\ ~stored

\* A payload in flight spells the value computed from the preflight image, and
\* has not been carried out; nor has one that was refused.
InFlight ==
  /\ Arriving => flight = build(CommandOf(request), expected)
  /\ Arriving \/ flight = Completion("fail") => ~stored

\* From the preflight to the verdict the unit may be written to; until it stores
\* the request it is as it was at the preflight, afterwards as the request asked.
Carried ==
  phase \in {"writing", "readback"} =>
    /\ Contract!Permitted(unit, request)
    /\ expected \in Buildable(CommandOf(request))
    /\ IF stored THEN Contract!Effect(unit, unit, request)
                 ELSE expected = Target(unit, request)

WriteInv == TypeOK /\ Phased /\ InFlight /\ Carried

Verdicts == {"none", "REJECTED", "FAILED", "CANCELLED", "INDETERMINATE",
             "ACKNOWLEDGED-BUT-UNVERIFIED", "STORED"}

\* The verdict of an error is never STORED, and only tells that nothing was stored
\* while nothing was sent.
LEMMA VerdictOfError ==
  ASSUME NEW state
  PROVE  /\ PhaseVerdict(state) \in
              {"REJECTED", "ACKNOWLEDGED-BUT-UNVERIFIED", "INDETERMINATE"}
         /\ PhaseVerdict(state) = "REJECTED" <=> state = "not_attempted"
<1>1. CASE state = "not_attempted"
  BY <1>1 DEF PhaseVerdict
<1>2. CASE state = "acknowledged"
  BY <1>2 DEF PhaseVerdict
<1>3. CASE state \notin {"not_attempted", "acknowledged"}
  BY <1>3 DEF PhaseVerdict
<1> QED
  BY <1>1, <1>2, <1>3

\* An open request has one of the four shapes.
LEMMA OpenRequest ==
  ASSUME TypeOK, Phased
  PROVE  phase # "idle" => request \in WriteRequests /\ CommandOf(request) \in ParameterCommands
<1>1. phase # "idle" => request \in WriteRequests
  BY RequestsAssumption DEF TypeOK, Phased
<1> QED
  BY <1>1, RequestShape, KindOfRequest DEF ParameterCommands

LEMMA WriteInit == Init => WriteInv
  BY UnitsAssumption, RequestsAssumption
     DEF Init, WriteInv, TypeOK, Phases, Phased, InFlight, Carried, Arriving

\* Every way of ending a request restores the invariant.
LEMMA FinishStep ==
  ASSUME WriteInv, NEW v \in Verdicts, Finish(v),
         cache' \in {"none", "old", "new"}, available' \in BOOLEAN
  PROVE  WriteInv'
  BY DEF WriteInv, TypeOK, Phases, Phased, InFlight, Carried, Arriving, Finish, Verdicts

LEMMA ReportStep ==
  ASSUME WriteInv, NEW v \in Verdicts, Report(v)
  PROVE  WriteInv'
<1>1. cache' \in {"none", "old", "new"} /\ available' \in BOOLEAN
  BY DEF WriteInv, TypeOK, Report
<1> QED
  BY <1>1, FinishStep DEF Report

\* The payload the write site sends is decoded to what the client computed.
LEMMA ArrivingDecoded ==
  ASSUME WriteInv, Arriving
  PROVE  /\ phase = "writing" /\ request \in WriteRequests /\ ~stored
         /\ write_state = "attempted"
         /\ Decoded(flight) = Target(unit, request)
         /\ Target(unit, request) \in Buildable(CommandOf(request))
<1>1. phase = "writing" /\ ~stored /\ write_state = "attempted"
  BY DEF WriteInv, Phased, InFlight, Arriving
<1>2. request \in WriteRequests /\ CommandOf(request) \in ParameterCommands
  BY <1>1, OpenRequest DEF WriteInv
<1>3. expected = Target(unit, request) /\ expected \in Buildable(CommandOf(request))
  BY <1>1 DEF WriteInv, Carried
<1>4. flight = build(CommandOf(request), expected)
  BY DEF WriteInv, InFlight
<1> QED
  BY <1>1, <1>2, <1>3, <1>4, DecodesBuilt

\* What the unit stores is the effect of the request, on a unit it was permitted on.
LEMMA StoresEffect ==
  ASSUME WriteInv, UnitStores
  PROVE  /\ unit' \in Settings
         /\ Contract!Permitted(unit, request)
         /\ Contract!Effect(unit, unit', request)
<1>1. /\ phase = "writing" /\ request \in WriteRequests
      /\ Target(unit, request) \in Buildable(CommandOf(request))
      /\ unit' = Updated(unit, request, Target(unit, request))
  BY ArrivingDecoded DEF UnitStores, Updated
<1>2. unit \in Settings /\ Contract!Permitted(unit, request)
  BY <1>1 DEF WriteInv, TypeOK, Carried
<1>3. Contract!Effect(unit, unit', request)
  BY <1>1, <1>2, TargetEffect
<1>4. unit' \in Settings
  BY <1>1, <1>2, UpdatedSettings
<1> QED
  BY <1>2, <1>3, <1>4

\* No step of the client, the unit or anybody else breaks the invariant.
LEMMA WriteStep == WriteInv /\ [Next]_vars => WriteInv'
<1> SUFFICES ASSUME WriteInv, [Next]_vars PROVE WriteInv'
  OBVIOUS
<1> USE DEF WriteInv, Phased, InFlight, Arriving
<1>0. CASE UNCHANGED vars
  BY <1>0 DEF TypeOK, Carried, vars, view
<1>1. ASSUME NEW r \in Requests, Call(r) PROVE WriteInv'
  BY <1>1, RequestsAssumption DEF TypeOK, Phases, Carried, Call, view
<1>2. CASE Refuse
  BY <1>2, ReportStep DEF Refuse, Verdicts
<1>3. CASE Connect
  BY <1>3 DEF TypeOK, Phases, Carried, Connect, view
<1>4. CASE ReadLive
  <2>1. CASE Report("REJECTED")
    BY <2>1, ReportStep DEF Verdicts
  <2>2. CASE /\ phase = "status" /\ phase' = "preflight"
             /\ UNCHANGED <<unit, stored, request, expected, write_state, flight,
                            verdict, view>>
    BY <2>2 DEF TypeOK, Phases, Carried, view
  <2> QED
    BY <1>4, <2>1, <2>2 DEF ReadLive
<1>5. CASE Preflight
  <2>1. Target(unit, request) \in Buildable(CommandOf(request))
    BY <1>5 DEF Preflight, RequestAccepts
  <2>2. Contract!Permitted(unit, request)
    BY <1>5 DEF Preflight, PreflightAccepts, RequestAccepts, has_unsupported_bits,
       superlearn_available, SuperLearnMinFirmware, ControlModel, FaultMaskBits,
       Contract!Permitted, Contract!StartupMaskBits, Contract!FaultMaskBits,
       Contract!ControlModel, Contract!SuperLearnMinFirmware,
       TypeOK, Settings, Masks, Bits
  <2> QED
    BY <1>5, <2>1, <2>2 DEF TypeOK, Phases, Carried, Preflight, view
<1>6. CASE PreflightRefuses
  BY <1>6, ReportStep DEF PreflightRefuses, Verdicts
<1>7. CASE Send
  <2>1. /\ phase = "writing" /\ expected \in Buildable(CommandOf(request)) /\ ~stored
        /\ CommandOf(request) \in ParameterCommands
    BY <1>7, OpenRequest DEF Send, Carried
  <2>2. flight' \in Payloads
    BY <1>7, <2>1, BuiltWhitelisted DEF Send
  <2> QED
    BY <1>7, <2>1, <2>2 DEF TypeOK, Phases, Carried, Send
<1>8. CASE UnitStores
  <2>1. phase = "writing" /\ request \in WriteRequests /\ write_state = "attempted"
    BY <1>8, ArrivingDecoded DEF UnitStores
  <2>2. /\ unit' \in Settings
        /\ Contract!Permitted(unit', request)
        /\ Contract!Effect(unit', unit', request)
    <3>1. /\ unit \in Settings /\ unit' \in Settings
          /\ Contract!Permitted(unit, request)
          /\ Contract!Effect(unit, unit', request)
      BY <1>8, StoresEffect DEF TypeOK
    <3>2. Contract!Permitted(unit', request)
      BY <2>1, <3>1, StaysPermitted
    <3>3. Contract!Effect(unit', unit', request)
      BY <2>1, <3>1, EffectSettles
    <3> QED
      BY <3>1, <3>2, <3>3
  <2> QED
    BY <1>8, <2>1, <2>2 DEF TypeOK, Phases, Carried, UnitStores, Completion, NoFlight, view
<1>9. CASE UnitIgnores
  BY <1>9 DEF TypeOK, Phases, Carried, UnitIgnores, Completion, NoFlight, view
<1>10. CASE UnitRefuses
  BY <1>10 DEF TypeOK, Phases, Carried, UnitRefuses, Completion, NoFlight, view
<1>11. CASE Acknowledged
  BY <1>11 DEF TypeOK, Phases, Carried, Acknowledged, Completion, NoFlight, view
<1>12. CASE Refused
  BY <1>12, ReportStep DEF Refused, Verdicts
<1>13. CASE Readback
  BY <1>13, FinishStep DEF Readback, Verdicts
<1>14. CASE ReadbackDiffers
  BY <1>14, ReportStep, VerdictOfError DEF ReadbackDiffers, Verdicts
<1>15. CASE TransportFails
  BY <1>15, ReportStep, VerdictOfError DEF TransportFails, Verdicts
<1>16. CASE Cancelled
  BY <1>16, ReportStep, VerdictOfError DEF Cancelled, Verdicts
<1>17. CASE Poll
  BY <1>17 DEF TypeOK, Phases, Carried, Poll
<1>18. CASE PollFails
  BY <1>18 DEF TypeOK, Phases, Carried, PollFails
<1>19. CASE Elsewhere
  BY <1>19, UnitsAssumption DEF TypeOK, Phases, Carried, Elsewhere, view
<1> QED
  BY <1>0, <1>1, <1>2, <1>3, <1>4, <1>5, <1>6, <1>7, <1>8, <1>9, <1>10, <1>11, <1>12,
     <1>13, <1>14, <1>15, <1>16, <1>17, <1>18, <1>19 DEF Next, Write, Unit, Environment

-------------------------------------------------------------------------------
(* Theorems                                                                 *)

\* The write path keeps its types; in particular what is in flight is always
\* nothing, a well-formed payload or a completion.
THEOREM TypeCorrect == Spec => []TypeOK
<1>1. WriteInv => TypeOK
  BY DEF WriteInv
<1> QED
  BY WriteInit, WriteStep, <1>1, PTL DEF Spec

\* The assertion at the single write site never fails: every payload async_write
\* lets out matches the pattern.
THEOREM WhitelistHolds == Spec => []PayloadWhitelisted
<1>1. WriteInv => PayloadWhitelisted
  <2> SUFFICES ASSUME WriteInv, flight \in Payloads PROVE Whitelisted(flight)
    BY DEF PayloadWhitelisted
  <2>1. Arriving
    BY DEF Arriving, Payloads, NoFlight, Completion
  <2>2. /\ flight = build(CommandOf(request), expected)
        /\ CommandOf(request) \in ParameterCommands
        /\ expected \in Buildable(CommandOf(request))
    BY <2>1, OpenRequest DEF WriteInv, InFlight, Phased, Carried, Arriving
  <2> QED
    BY <2>2, BuiltWhitelisted
<1> QED
  BY WriteInit, WriteStep, <1>1, PTL DEF Spec

\* What the entities offer of an image is what the client accepts of it, for every
\* unit and every request.
THEOREM OffersHonoured == Spec => []OfferedIsAccepted
<1>1. WriteInv => OfferedIsAccepted
  <2> SUFFICES ASSUME WriteInv, phase = "preflight", PreflightAccepts(unit)
               PROVE  RequestAccepts(unit, request) <=>
                        /\ request \in Offered(unit)
                        /\ request.kind = "fault" =>
                             fault_protection_allowed(unit.fault, request.bit,
                                                      request.enabled)
    BY DEF OfferedIsAccepted
  <2>1. unit \in Settings /\ request \in WriteRequests
    BY OpenRequest DEF WriteInv, TypeOK
  <2> QED
    BY <2>1, OfferedAccepted
<1> QED
  BY WriteInit, WriteStep, <1>1, PTL DEF Spec

\* A request is closed in the contract whenever it ends after its link came up;
\* before that it was turned down.
LEMMA ReportCloses ==
  ASSUME WriteInv, phase # "idle", NEW v \in Verdicts \ {"none"}, Finish(v),
         phase = "locked" => v \in {"REJECTED", "CANCELLED"},
         v \in {"REJECTED", "FAILED", "CANCELLED"} => ~stored,
         v = "STORED" => Contract!Effect(unit, unit, request)
  PROVE  Contract!Next
<1>1. CASE phase = "locked"
  <2>1. Contract!Arrive
    BY <1>1 DEF WriteInv, TypeOK, Phased, Finish, Contract!Arrive
  <2> QED
    BY <2>1 DEF Contract!Next
<1>2. CASE phase # "locked"
  <2>1. Contract!Close(v)
    BY <1>2 DEF WriteInv, Phased, Finish, Contract!Close, Contract!Nothing
  <2>2. v \in Contract!Nothing \cup Contract!Uncertain \cup {"STORED"}
    BY DEF Verdicts, Contract!Nothing, Contract!Uncertain
  <2> QED
    BY <2>1, <2>2 DEF Contract!Next
<1> QED
  BY <1>1, <1>2

\* A readback that agrees shows the request carried out, by the unit just now or
\* because the unit already was as asked.
LEMMA ReadbackEffect ==
  ASSUME WriteInv, Readback
  PROVE  Contract!Effect(unit, unit, request) /\ Contract!Permitted(unit, request)
<1>1. /\ phase = "readback" /\ unit[Field(request)] = expected
      /\ Contract!Permitted(unit, request) /\ unit \in Settings
      /\ expected \in Buildable(CommandOf(request)) /\ request \in WriteRequests
  BY OpenRequest DEF WriteInv, TypeOK, Carried, Readback
<1>2. CASE stored
  BY <1>1, <1>2 DEF WriteInv, Carried
<1>3. CASE ~stored
  <2>1. expected = Target(unit, request)
    BY <1>1, <1>3 DEF WriteInv, Carried
  <2>2. unit = Updated(unit, request, Target(unit, request))
    BY <1>1, <2>1 DEF Updated, Settings
  <2> QED
    BY <1>1, <2>1, <2>2, TargetEffect
<1> QED
  BY <1>2, <1>3

\* Every step of the write path is a step of the contract, or none.
LEMMA ContractStep ==
  ASSUME WriteInv, [Next]_vars
  PROVE  [Contract!Next]_(Contract!vars)
<1>0. CASE UNCHANGED vars
  BY <1>0 DEF vars, Contract!vars
<1>1. ASSUME NEW r \in Requests, Call(r) PROVE Contract!Next
  <2>1. Contract!Arrive
    BY <1>1 DEF WriteInv, Phased, Call, Contract!Arrive
  <2> QED
    BY <2>1 DEF Contract!Next
<1>2. CASE Refuse
  BY <1>2, ReportCloses DEF Refuse, Report, WriteInv, Phased, Verdicts
<1>3. CASE Connect
  <2>1. request \in Requests
    BY <1>3 DEF WriteInv, TypeOK, Phased, Connect
  <2>2. Contract!Open(request)
    BY <1>3 DEF Connect, Contract!Open
  <2> QED
    BY <2>1, <2>2 DEF Contract!Next
<1>4. CASE ReadLive
  <2>1. CASE Report("REJECTED")
    BY <1>4, <2>1, ReportCloses DEF ReadLive, Report, WriteInv, Phased, Verdicts
  <2>2. CASE phase = "status" /\ phase' = "preflight" /\ UNCHANGED <<unit, stored, request, verdict>>
    BY <2>2 DEF Contract!vars
  <2> QED
    BY <1>4, <2>1, <2>2 DEF ReadLive
<1>5. CASE Preflight
  BY <1>5 DEF Preflight, Contract!vars
<1>6. CASE PreflightRefuses
  BY <1>6, ReportCloses DEF PreflightRefuses, Report, WriteInv, Phased, Verdicts
<1>7. CASE Send
  BY <1>7 DEF Send, Contract!vars
<1>8. CASE UnitStores
  <2>1. phase = "writing" /\ ~stored /\ request # NoRequest
    BY <1>8, ArrivingDecoded DEF UnitStores, WriteInv, Phased
  <2>2. Contract!Store
    BY <1>8, <2>1, StoresEffect DEF UnitStores, Contract!Store
  <2> QED
    BY <2>2 DEF Contract!Next
<1>9. CASE UnitIgnores
  BY <1>9 DEF UnitIgnores, Contract!vars
<1>10. CASE UnitRefuses
  BY <1>10 DEF UnitRefuses, Contract!vars
<1>11. CASE Acknowledged
  BY <1>11 DEF Acknowledged, WriteInv, Phased, NoFlight, Completion, Contract!vars
<1>12. CASE Refused
  <2>1. phase = "writing" /\ ~stored
    BY <1>12 DEF Refused, WriteInv, Phased, InFlight, NoFlight, Completion
  <2> QED
    BY <1>12, <2>1, ReportCloses DEF Refused, Report, Verdicts
<1>13. CASE Readback
  BY <1>13, ReadbackEffect, ReportCloses DEF Readback, Verdicts
<1>14. CASE ReadbackDiffers
  <2>1. phase = "readback" /\ write_state = "acknowledged"
    BY <1>14 DEF ReadbackDiffers, WriteInv, Phased
  <2> QED
    BY <1>14, <2>1, ReportCloses, VerdictOfError
       DEF ReadbackDiffers, Report, Verdicts
<1>15. CASE TransportFails
  <2>1. phase \notin {"idle", "locked"} /\ (write_state = "not_attempted" => ~stored)
    BY <1>15 DEF TransportFails, WriteInv, Phased
  <2> QED
    BY <1>15, <2>1, ReportCloses, VerdictOfError
       DEF TransportFails, Report, Verdicts
<1>16. CASE Cancelled
  <2>1. /\ phase # "idle" /\ (write_state = "not_attempted" => ~stored)
        /\ phase = "locked" => write_state = "not_attempted"
    BY <1>16 DEF Cancelled, WriteInv, Phased
  <2> QED
    BY <1>16, <2>1, ReportCloses, VerdictOfError
       DEF Cancelled, Report, Verdicts
<1>17. CASE Poll
  BY <1>17 DEF Poll, Contract!vars
<1>18. CASE PollFails
  BY <1>18 DEF PollFails, Contract!vars
<1>19. CASE Elsewhere
  <2>1. Contract!Elsewhere
    BY <1>19 DEF Elsewhere, WriteInv, Phased, Contract!Elsewhere
  <2> QED
    BY <2>1 DEF Contract!Next
<1> QED
  BY <1>0, <1>1, <1>2, <1>3, <1>4, <1>5, <1>6, <1>7, <1>8, <1>9, <1>10, <1>11, <1>12,
     <1>13, <1>14, <1>15, <1>16, <1>17, <1>18, <1>19 DEF Next, Write, Unit, Environment

\* The guarded write implements its contract: see KeepsContract.
THEOREM ContractKept == Spec => KeepsContract
<1>1. Init => Contract!Init
  BY DEF Init, Contract!Init
<1>2. WriteInv /\ [Next]_vars => [Contract!Next]_(Contract!vars)
  BY ContractStep
<1> QED
  BY WriteInit, WriteStep, <1>1, <1>2, PTL DEF Spec, KeepsContract, Contract!Spec

\* What the entities show follows what the unit did: see StoredIsShown.
LEMMA ShownStep ==
  ASSUME WriteInv, [Next]_vars
  PROVE  /\ stored' /\ ~stored =>
              ShowsRequest(unit', request) /\ LeavesOthers(unit, unit', request)
         /\ verdict' = "STORED" /\ verdict = "none" =>
              ShowsRequest(unit', request) /\ Coherent(unit')
<1>1. CASE UnitStores
  <2>1. request \in WriteRequests /\ unit \in Settings /\ verdict' = verdict
    BY <1>1, ArrivingDecoded DEF UnitStores, WriteInv, TypeOK
  <2>2. /\ unit' \in Settings
        /\ Contract!Permitted(unit, request)
        /\ Contract!Effect(unit, unit', request)
    BY <1>1, StoresEffect
  <2>3. Contract!Permitted(unit', request)
    BY <2>1, <2>2, StaysPermitted
  <2>4. ShowsRequest(unit', request)
    BY <2>1, <2>2, <2>3, EffectShown
  <2>5. LeavesOthers(unit, unit', request)
    BY <2>1, <2>2, EffectLeavesOthers
  <2> QED
    BY <2>1, <2>4, <2>5
<1>2. CASE Readback
  <2>1. /\ request \in WriteRequests /\ unit \in Settings /\ unit' = unit
        /\ ~stored'
    BY <1>2, OpenRequest DEF Readback, Finish, WriteInv, TypeOK
  <2>2. ShowsRequest(unit, request)
    BY <1>2, <2>1, ReadbackEffect, EffectShown
  <2> QED
    BY <2>1, <2>2, AlwaysCoherent
<1>3. CASE ~UnitStores /\ ~Readback
  <2>1. stored' => stored
    BY <1>3 DEF Next, Write, Unit, Environment, vars, view, Call, Refuse, Connect, ReadLive,
       Preflight, PreflightRefuses, Send, UnitIgnores, UnitRefuses, Acknowledged, Refused,
       ReadbackDiffers, TransportFails, Cancelled, Poll, PollFails, Elsewhere, Report, Finish
  <2>2. verdict' = "STORED" => verdict = "STORED"
    BY <1>3, VerdictOfError
       DEF Next, Write, Unit, Environment, vars, view, Call, Refuse, Connect, ReadLive,
       Preflight, PreflightRefuses, Send, UnitIgnores, UnitRefuses, Acknowledged, Refused,
       ReadbackDiffers, TransportFails, Cancelled, Poll, PollFails, Elsewhere, Report, Finish
  <2> QED
    BY <2>1, <2>2
<1> QED
  BY <1>1, <1>2, <1>3

\* A stored request is what the entities show, and no other control moves: see
\* StoredIsShown.
THEOREM StoredShows == Spec => StoredIsShown
<1>1. WriteInv /\ [Next]_vars =>
        [/\ stored' /\ ~stored =>
              ShowsRequest(unit', request) /\ LeavesOthers(unit, unit', request)
         /\ verdict' = "STORED" /\ verdict = "none" =>
              ShowsRequest(unit', request) /\ Coherent(unit')]_vars
  BY ShownStep
<1> QED
  BY WriteInit, WriteStep, <1>1, PTL DEF Spec, StoredIsShown
===============================================================================
