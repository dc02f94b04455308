----------------------------- MODULE ByteArithmetic -----------------------------
(***************************************************************************)
(* The mask arithmetic of microair/protocol.py on bytes, operator by       *)
(* operator as the source has it, as the reference the set definitions of  *)
(* EasyStartProtocol are compared with.  A byte is changed by any legal    *)
(* sequence of the calls.                                                  *)
(***************************************************************************)
EXTENDS EasyStartProtocol, Integers

Bytes == 0..255

\* The value of a bit alone, and a bit of a byte.
BitValue(b) == <<1, 2, 4, 8, 16, 32, 64, 128>>[b + 1]
Bit(n, b) == (n \div BitValue(b)) % 2

\* The set of the bits of a byte, and the byte with those bits.
BitsOf(n) == {b \in Bits : Bit(n, b) = 1}
ByteOf(bit) ==
    bit[0] + 2 * bit[1] + 4 * bit[2] + 8 * bit[3]
  + 16 * bit[4] + 32 * bit[5] + 64 * bit[6] + 128 * bit[7]

\* "&" and "|" of two bytes: bit by bit, without the recursion that theorems could
\* not reach.
m & n ==
  ByteOf([b \in Bits |-> IF Bit(m, b) = 1 /\ Bit(n, b) = 1 THEN 1 ELSE 0])
m | n ==
  ByteOf([b \in Bits |-> IF Bit(m, b) = 1 \/ Bit(n, b) = 1 THEN 1 ELSE 0])

ModeValue ==
  [NORMAL |-> 0, RELEARN |-> 1, DEFAULT_RAMP |-> 2, SUPERLEARN |-> 1 | 16]

ModeByte(current, mode) ==
  LET preserved == current & 12
  IN  IF mode \in {"NORMAL", "DEFAULT_RAMP"}
        THEN preserved | (current & 16) | ModeValue[mode]
        ELSE preserved | ModeValue[mode]

ModeOfByte(n) ==
  IF n & 1 # 0
    THEN IF n & 16 # 0 THEN "SUPERLEARN" ELSE "RELEARN"
    ELSE IF n & 2 # 0 THEN "DEFAULT_RAMP" ELSE "NORMAL"

\* current | bit, and current & ~bit & 0xFF.
BitByte(current, b, enabled) ==
  IF enabled THEN current | BitValue(b) ELSE current & (255 - BitValue(b))

VARIABLE byte

Init == byte \in Bytes

ChooseMode(mode) == byte' = ModeByte(byte, mode)
ChooseBit(b, enabled) == byte' = BitByte(byte, b, enabled)

Next ==
  \/ \E mode \in StartupMode : ChooseMode(mode)
  \/ \E b \in FlagBits \cup FaultProtection, enabled \in BOOLEAN : ChooseBit(b, enabled)

Spec == Init /\ [][Next]_byte

-------------------------------------------------------------------------------
\* The set definitions compute what the byte arithmetic of the source does.
SetsAgree ==
  LET mask == BitsOf(byte)
  IN  /\ \A mode \in StartupMode :
           BitsOf(ModeByte(byte, mode)) = mode_mask(mask, mode)
      /\ \A b \in Bits, enabled \in BOOLEAN :
           BitsOf(BitByte(byte, b, enabled)) = WithBit(mask, b, enabled)
      /\ ModeOfByte(byte) = mode_from_mask(mask)
      /\ has_unsupported_bits(mask) <=> (byte & 224) # 0

\* build() accepts exactly the values the pattern at the write site lets pass.
WhitelistExact ==
  /\ BitsOf(byte) \in Buildable("SMask") <=> Whitelisted(ByteToken("SMask", byte))
  /\ byte \in Buildable("SCPT") <=> Whitelisted(ByteToken("SCPT", byte))
  /\ BitsOf(byte) \in Buildable("FMask") <=> Whitelisted(ByteToken("FMask", byte))
  /\ MaskToken("SMask", BitsOf(byte)) = ByteToken("SMask", byte)
===============================================================================
