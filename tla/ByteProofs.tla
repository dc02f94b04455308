------------------------------- MODULE ByteProofs -------------------------------
(***************************************************************************)
(* The sets of bits of EasyStartProtocol are bytes: each byte is one set   *)
(* and each set one byte, "&" and "|" are intersection and union, and so   *)
(* the mask functions, the mode read back and the whitelist agree.         *)
(***************************************************************************)
EXTENDS ByteArithmetic, TLAPS

USE DEF Bits

LEMMA BitValues ==
  /\ BitValue(0) = 1 /\ BitValue(1) = 2 /\ BitValue(2) = 4 /\ BitValue(3) = 8
  /\ BitValue(4) = 16 /\ BitValue(5) = 32 /\ BitValue(6) = 64 /\ BitValue(7) = 128
BY DEF BitValue

\* A byte is put together from its bits, and taken apart into them again.
LEMMA ByteOfBits ==
  ASSUME NEW f \in [Bits -> {0, 1}]
  PROVE  ByteOf(f) \in Bytes /\ \A b \in Bits : Bit(ByteOf(f), b) = f[b]
<1> DEFINE n == ByteOf(f)
<1>1. /\ f[0] \in {0, 1} /\ f[1] \in {0, 1} /\ f[2] \in {0, 1} /\ f[3] \in {0, 1}
      /\ f[4] \in {0, 1} /\ f[5] \in {0, 1} /\ f[6] \in {0, 1} /\ f[7] \in {0, 1}
  OBVIOUS
<1>2. n \in Bytes
  BY <1>1 DEF ByteOf, Bytes
<1>3. Bit(n, 0) = f[0]
  BY <1>1, BitValues DEF ByteOf, Bit
<1>4. Bit(n, 1) = f[1]
  BY <1>1, BitValues DEF ByteOf, Bit
<1>5. Bit(n, 2) = f[2]
  BY <1>1, BitValues DEF ByteOf, Bit
<1>6. Bit(n, 3) = f[3]
  BY <1>1, BitValues DEF ByteOf, Bit
<1>7. Bit(n, 4) = f[4]
  BY <1>1, BitValues DEF ByteOf, Bit
<1>8. Bit(n, 5) = f[5]
  BY <1>1, BitValues DEF ByteOf, Bit
<1>9. Bit(n, 6) = f[6]
  BY <1>1, BitValues DEF ByteOf, Bit
<1>10. Bit(n, 7) = f[7]
  BY <1>1, BitValues DEF ByteOf, Bit
<1> QED
  BY <1>2, <1>3, <1>4, <1>5, <1>6, <1>7, <1>8, <1>9, <1>10

LEMMA BitAt ==
  ASSUME NEW n \in Bytes
  PROVE  /\ Bit(n, 0) = n % 2 /\ Bit(n, 1) = (n \div 2) % 2 /\ Bit(n, 2) = (n \div 4) % 2
         /\ Bit(n, 3) = (n \div 8) % 2 /\ Bit(n, 4) = (n \div 16) % 2
         /\ Bit(n, 5) = (n \div 32) % 2 /\ Bit(n, 6) = (n \div 64) % 2
         /\ Bit(n, 7) = (n \div 128) % 2
BY BitValues DEF Bit, Bytes

LEMMA BitsOfByte ==
  ASSUME NEW n \in Bytes
  PROVE  /\ \A b \in Bits : Bit(n, b) \in {0, 1}
         /\ n = ByteOf([b \in Bits |-> Bit(n, b)])
<1>1. n = (n % 2) + 2 * ((n \div 2) % 2) + 4 * ((n \div 4) % 2) + 8 * ((n \div 8) % 2)
      + 16 * ((n \div 16) % 2) + 32 * ((n \div 32) % 2) + 64 * ((n \div 64) % 2)
      + 128 * ((n \div 128) % 2)
  BY DEF Bytes
<1>2. \A b \in Bits : Bit(n, b) \in {0, 1}
  BY BitAt DEF Bytes
<1> QED
  BY BitAt, <1>1, <1>2 DEF ByteOf

LEMMA AndBits ==
  ASSUME NEW m, NEW n
  PROVE  m & n \in Bytes /\ BitsOf(m & n) = BitsOf(m) \cap BitsOf(n)
<1> DEFINE f == [b \in Bits |-> IF Bit(m, b) = 1 /\ Bit(n, b) = 1 THEN 1 ELSE 0]
<1>1. f \in [Bits -> {0, 1}]
  OBVIOUS
<1>2. m & n = ByteOf(f)
  BY DEF &
<1>3. m & n \in Bytes /\ \A b \in Bits : Bit(m & n, b) = f[b]
  BY <1>1, <1>2, ByteOfBits
<1>4. \A b \in Bits : Bit(m & n, b) = 1 <=> Bit(m, b) = 1 /\ Bit(n, b) = 1
  BY <1>3
<1> QED
  BY <1>3, <1>4 DEF BitsOf

LEMMA OrBits ==
  ASSUME NEW m, NEW n
  PROVE  m | n \in Bytes /\ BitsOf(m | n) = BitsOf(m) \cup BitsOf(n)
<1> DEFINE f == [b \in Bits |-> IF Bit(m, b) = 1 \/ Bit(n, b) = 1 THEN 1 ELSE 0]
<1>1. f \in [Bits -> {0, 1}]
  OBVIOUS
<1>2. m | n = ByteOf(f)
  BY DEF |
<1>3. m | n \in Bytes /\ \A b \in Bits : Bit(m | n, b) = f[b]
  BY <1>1, <1>2, ByteOfBits
<1>4. \A b \in Bits : Bit(m | n, b) = 1 <=> Bit(m, b) = 1 \/ Bit(n, b) = 1
  BY <1>3
<1> QED
  BY <1>3, <1>4 DEF BitsOf

\* A byte is 0 if it has no bit.
LEMMA NoBits ==
  ASSUME NEW n \in Bytes
  PROVE  n = 0 <=> BitsOf(n) = {}
<1>1. n = 0 => \A b \in Bits : Bit(n, b) = 0
  BY BitAt DEF Bytes
<1>2. (\A b \in Bits : Bit(n, b) = 0) => n = 0
  BY BitsOfByte DEF ByteOf
<1>3. \A b \in Bits : Bit(n, b) \in {0, 1}
  BY BitsOfByte
<1> QED
  BY <1>1, <1>2, <1>3 DEF BitsOf

\* The bytes the source writes as literals.
LEMMA Literals ==
  /\ BitsOf(0) = {} /\ BitsOf(1) = {0} /\ BitsOf(2) = {1} /\ BitsOf(12) = {2, 3}
  /\ BitsOf(16) = {4} /\ BitsOf(224) = {5, 6, 7}
<1>1. \A n \in Bytes, b \in Bits : b \in BitsOf(n) <=> Bit(n, b) = 1
  BY DEF BitsOf
<1>2. \A n \in Bytes : BitsOf(n) \subseteq Bits
  BY DEF BitsOf
<1>3. BitsOf(0) = {}
  BY BitAt, <1>1, <1>2 DEF Bytes
<1>4. BitsOf(1) = {0}
  BY BitAt, <1>1, <1>2 DEF Bytes
<1>5. BitsOf(2) = {1}
  BY BitAt, <1>1, <1>2 DEF Bytes
<1>6. BitsOf(12) = {2, 3}
  BY BitAt, <1>1, <1>2 DEF Bytes
<1>7. BitsOf(16) = {4}
  BY BitAt, <1>1, <1>2 DEF Bytes
<1>8. BitsOf(224) = {5, 6, 7}
  BY BitAt, <1>1, <1>2 DEF Bytes
<1> QED
  BY <1>3, <1>4, <1>5, <1>6, <1>7, <1>8

\* One bit alone, and all bits but one.
LEMMA OneBit ==
  ASSUME NEW c \in Bits
  PROVE  BitsOf(BitValue(c)) = {c} /\ BitsOf(255 - BitValue(c)) = Bits \ {c}
<1>1. BitValue(c) \in Bytes /\ 255 - BitValue(c) \in Bytes
  BY BitValues DEF Bytes
<1>2. \A b \in Bits : Bit(BitValue(c), b) = IF b = c THEN 1 ELSE 0
  BY BitAt, <1>1, BitValues
<1>3. \A b \in Bits : Bit(255 - BitValue(c), b) = IF b = c THEN 0 ELSE 1
  BY BitAt, <1>1, BitValues
<1> QED
  BY <1>2, <1>3 DEF BitsOf

-------------------------------------------------------------------------------
(* The mask functions                                                       *)

LEMMA ModeBytes ==
  ASSUME NEW mode \in StartupMode
  PROVE  BitsOf(ModeValue[mode]) = ModeBits[mode]
<1>1. BitsOf(1 | 16) = {0, 4}
  BY Literals, OrBits
<1>2. BitsOf(ModeValue["SUPERLEARN"]) = ModeBits["SUPERLEARN"]
  BY <1>1 DEF ModeValue, ModeBits, SuperLearnBit
<1>3. CASE mode # "SUPERLEARN"
  BY <1>3, Literals DEF StartupMode, ModeValue, ModeBits
<1> QED
  BY <1>2, <1>3

LEMMA ModeByteAgrees ==
  ASSUME NEW n \in Bytes, NEW mode \in StartupMode
  PROVE  /\ ModeByte(n, mode) \in Bytes
         /\ BitsOf(ModeByte(n, mode)) = mode_mask(BitsOf(n), mode)
<1>1. BitsOf(n & 12) = BitsOf(n) \cap {2, 3} /\ BitsOf(n & 16) = BitsOf(n) \cap {4}
  BY Literals, AndBits
<1>2. BitsOf(ModeValue[mode]) = ModeBits[mode]
  BY ModeBytes
<1>3. CASE mode \in {"NORMAL", "DEFAULT_RAMP"}
  <2>1. ModeByte(n, mode) = ((n & 12) | (n & 16)) | ModeValue[mode]
    BY <1>3 DEF ModeByte
  <2>2. BitsOf(ModeByte(n, mode)) =
          (BitsOf(n) \cap {2, 3}) \cup (BitsOf(n) \cap {4}) \cup ModeBits[mode]
    BY <1>1, <1>2, <2>1, OrBits
  <2> QED
    BY <1>3, <2>1, <2>2, OrBits DEF mode_mask, FlagBits, SuperLearnBit
<1>4. CASE mode \notin {"NORMAL", "DEFAULT_RAMP"}
  <2>1. ModeByte(n, mode) = (n & 12) | ModeValue[mode]
    BY <1>4 DEF ModeByte
  <2>2. BitsOf(ModeByte(n, mode)) = (BitsOf(n) \cap {2, 3}) \cup ModeBits[mode]
    BY <1>1, <1>2, <2>1, OrBits
  <2> QED
    BY <1>4, <2>1, <2>2, OrBits DEF mode_mask, FlagBits
<1> QED
  BY <1>3, <1>4

LEMMA BitByteAgrees ==
  ASSUME NEW n \in Bytes, NEW b \in Bits, NEW enabled \in BOOLEAN
  PROVE  /\ BitByte(n, b, enabled) \in Bytes
         /\ BitsOf(BitByte(n, b, enabled)) = WithBit(BitsOf(n), b, enabled)
<1>1. CASE enabled
  BY <1>1, OneBit, OrBits DEF BitByte, WithBit
<1>2. CASE ~enabled
  <2>1. BitsOf(n & (255 - BitValue(b))) = BitsOf(n) \cap (Bits \ {b})
    BY OneBit, AndBits
  <2>2. BitsOf(n) \subseteq Bits
    BY DEF BitsOf
  <2> QED
    BY <1>2, <2>1, <2>2, AndBits DEF BitByte, WithBit
<1> QED
  BY <1>1, <1>2

\* mask & literal asks for one of the literal's bits.
LEMMA Tested ==
  ASSUME NEW n \in Bytes
  PROVE  /\ (n & 1) # 0 <=> 0 \in BitsOf(n)
         /\ (n & 2) # 0 <=> 1 \in BitsOf(n)
         /\ (n & 16) # 0 <=> 4 \in BitsOf(n)
         /\ (n & 224) # 0 <=> BitsOf(n) \cap {5, 6, 7} # {}
<1>1. \A k : n & k \in Bytes /\ BitsOf(n & k) = BitsOf(n) \cap BitsOf(k)
  BY AndBits
<1>2. \A k : (n & k) # 0 <=> BitsOf(n) \cap BitsOf(k) # {}
  BY <1>1, NoBits
<1> QED
  BY <1>2, Literals

LEMMA ModeOfByteAgrees ==
  ASSUME NEW n \in Bytes
  PROVE  /\ ModeOfByte(n) = mode_from_mask(BitsOf(n))
         /\ has_unsupported_bits(BitsOf(n)) <=> (n & 224) # 0
BY Tested DEF ModeOfByte, mode_from_mask, has_unsupported_bits, SuperLearnBit

-------------------------------------------------------------------------------
(* The tokens                                                               *)

LEMMA TokenAgrees ==
  ASSUME NEW n \in Bytes, NEW cmd
  PROVE  MaskToken(cmd, BitsOf(n)) = ByteToken(cmd, n)
<1>1. \A b \in Bits : IF b \in BitsOf(n) THEN Bit(n, b) = 1 ELSE Bit(n, b) = 0
  BY BitsOfByte DEF BitsOf
<1>2. Digit(BitsOf(n), 0) = Bit(n, 0) + 2 * Bit(n, 1) + 4 * Bit(n, 2) + 8 * Bit(n, 3)
  BY <1>1 DEF Digit
<1>3. Digit(BitsOf(n), 4) = Bit(n, 4) + 2 * Bit(n, 5) + 4 * Bit(n, 6) + 8 * Bit(n, 7)
  BY <1>1 DEF Digit
<1>4. Digit(BitsOf(n), 0) = n % 16
  BY <1>2, BitAt DEF Bytes
<1>5. Digit(BitsOf(n), 4) = n \div 16
  BY <1>3, BitAt DEF Bytes
<1> QED
  BY <1>4, <1>5 DEF MaskToken, ByteToken

LEMMA Accepted ==
  ASSUME NEW n \in Bytes
  PROVE  /\ BitsOf(n) \in Buildable("SMask") <=> Whitelisted(ByteToken("SMask", n))
         /\ n \in Buildable("SCPT") <=> Whitelisted(ByteToken("SCPT", n))
         /\ BitsOf(n) \in Buildable("FMask") <=> Whitelisted(ByteToken("FMask", n))
<1>1. \A b \in Bits : IF b \in BitsOf(n) THEN Bit(n, b) = 1 ELSE Bit(n, b) = 0
  BY BitsOfByte DEF BitsOf
<1>2. BitsOf(n) \subseteq Bits
  BY DEF BitsOf
<1>3. BitsOf(n) \subseteq StartupMaskBits <=> n \div 16 \in {0, 1}
  <2>1. BitsOf(n) \subseteq StartupMaskBits <=> Bit(n, 5) = 0 /\ Bit(n, 6) = 0 /\ Bit(n, 7) = 0
    BY <1>1, <1>2 DEF StartupMaskBits
  <2> QED
    BY <2>1, BitAt DEF Bytes
<1>4. BitsOf(n) \subseteq FaultMaskBits <=> n \div 16 \in 0..7
  <2>1. BitsOf(n) \subseteq FaultMaskBits <=> Bit(n, 7) = 0
    BY <1>1, <1>2 DEF FaultMaskBits
  <2> QED
    BY <2>1, BitAt DEF Bytes
<1>5. BitsOf(n) = {} <=> n = 0
  BY NoBits
<1>6. BitsOf(n) \in Buildable("SMask") <=> Whitelisted(ByteToken("SMask", n))
  BY <1>3 DEF Buildable, Whitelisted, ByteToken
<1>7. n \in Buildable("SCPT") <=> Whitelisted(ByteToken("SCPT", n))
  BY DEF Buildable, Whitelisted, ByteToken, Minutes, Bytes
<1>8. BitsOf(n) \in Buildable("FMask") <=> Whitelisted(ByteToken("FMask", n))
  <2>1. BitsOf(n) \in Buildable("FMask") <=> n \div 16 \in 0..7 /\ n # 0
    BY <1>4, <1>5 DEF Buildable
  <2>2. Whitelisted(ByteToken("FMask", n)) <=>
          \/ n \div 16 = 0 /\ n % 16 \in 1..15
          \/ n \div 16 \in 1..7
    BY DEF Whitelisted, ByteToken
  <2> QED
    BY <2>1, <2>2 DEF Bytes
<1> QED
  BY <1>6, <1>7, <1>8

-------------------------------------------------------------------------------
(* Theorems                                                                 *)

LEMMA AlwaysByte == Spec => [](byte \in Bytes)
<1>1. Init => byte \in Bytes
  BY DEF Init
<1>2. byte \in Bytes /\ [Next]_byte => (byte \in Bytes)'
  BY ModeByteAgrees, BitByteAgrees
     DEF Next, ChooseMode, ChooseBit, FlagBits, FaultProtection, FaultMaskBits
<1> QED
  BY <1>1, <1>2, PTL DEF Spec

\* Nothing is lost or added where a mask byte is taken for the set of its bits.
THEOREM MasksAreBytes ==
  \A mask \in Masks : \E n \in Bytes :
    BitsOf(n) = mask /\ \A k \in Bytes : BitsOf(k) = mask => k = n
<1> SUFFICES ASSUME NEW mask \in Masks
             PROVE  \E n \in Bytes :
                      BitsOf(n) = mask /\ \A k \in Bytes : BitsOf(k) = mask => k = n
  OBVIOUS
<1> DEFINE f == [b \in Bits |-> IF b \in mask THEN 1 ELSE 0]
<1>1. f \in [Bits -> {0, 1}]
  OBVIOUS
<1>2. ByteOf(f) \in Bytes /\ BitsOf(ByteOf(f)) = mask
  <2>1. ByteOf(f) \in Bytes /\ \A b \in Bits : Bit(ByteOf(f), b) = f[b]
    BY <1>1, ByteOfBits
  <2>2. \A b \in Bits : Bit(ByteOf(f), b) = 1 <=> b \in mask
    BY <2>1
  <2> QED
    BY <2>1, <2>2 DEF BitsOf, Masks
<1>3. ASSUME NEW k \in Bytes, BitsOf(k) = mask PROVE k = ByteOf(f)
  <2>1. \A b \in Bits : Bit(k, b) \in {0, 1} /\ (Bit(k, b) = 1 <=> b \in mask)
    BY <1>3, BitsOfByte DEF BitsOf
  <2>2. [b \in Bits |-> Bit(k, b)] = f
    BY <2>1
  <2> QED
    BY <2>2, BitsOfByte
<1> QED
  BY <1>2, <1>3

\* The sets of bits the other modules compute with are the bytes of protocol.py, for
\* every byte, mode and bit.
THEOREM SetsAreBytes == Spec => []SetsAgree
<1>1. byte \in Bytes => SetsAgree
  BY ModeByteAgrees, BitByteAgrees, ModeOfByteAgrees DEF SetsAgree
<1> QED
  BY AlwaysByte, <1>1, PTL

\* Whatever mask a unit holds, a mode written over it reads back as that mode, and
\* every other bit the app can set reads back as before.
THEOREM ModesReadBack ==
  ASSUME NEW mask \in Masks, NEW mode \in StartupMode
  PROVE  LET after == mode_mask(mask, mode)
         IN  /\ mode_from_mask(after) = mode
             /\ after \cap FlagBits = mask \cap FlagBits
             /\ mode \notin {"RELEARN", "SUPERLEARN"} =>
                  (SuperLearnBit \in after <=> SuperLearnBit \in mask)
BY DEF StartupMode, mode_mask, mode_from_mask, ModeBits, FlagBits, SuperLearnBit

\* The pattern at the write site lets pass exactly what build() accepts.
THEOREM WhitelistIsExact == Spec => []WhitelistExact
<1>1. byte \in Bytes => WhitelistExact
  BY Accepted, TokenAgrees DEF WhitelistExact
<1> QED
  BY AlwaysByte, <1>1, PTL
===============================================================================
