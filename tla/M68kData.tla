------------------------------ MODULE M68kData ------------------------------
(***************************************************************************)
(* Data widths, enumerations and the arithmetic helpers shared by every    *)
(* component of the emulator.                                              *)
(*                                                                         *)
(* The code works on 8-, 16- and 32-bit quantities (DataSize 1, 2, 4 is a  *)
(* byte count, and it is added to addresses as such).  TLC integers are    *)
(* 32-bit signed, so the width of a byte is a CONSTANT: ByteBits = 8 is    *)
(* the real machine, smaller values give the same machine scaled down      *)
(* (word = 2 bytes, long = 4 bytes, uint32_t arithmetic = modulo the long  *)
(* width).  The address bus is masked to AddrBits bits (24 in the code).   *)
(***************************************************************************)
EXTENDS Integers

CONSTANTS
  ByteBits,   \* bits in a byte (8 in the code)
  AddrBits    \* width of MASK_ADDR (24 in the code)

ASSUME ByteBits \in 2..8 /\ AddrBits \in 1..(4 * ByteBits)

(* enum DataSize: the number of bytes of an operand. *)
SIZE_BYTE == 1
SIZE_WORD == 2
SIZE_LONG == 4
Sizes == {SIZE_BYTE, SIZE_WORD, SIZE_LONG}

Bits(size) == size * ByteBits
Modulus(size) == 2 ^ Bits(size)
Bytes == 0 .. (Modulus(SIZE_BYTE) - 1)
Longs == 0 .. (Modulus(SIZE_LONG) - 1)   \* the values of a uint32_t

(* MASK_8 / MASK_16 / MASK_32: keep the low bits of the operand size. *)
MASK(v, size) == v % Modulus(size)

(* Wrap-around of uint32_t arithmetic. *)
U32(v) == v % Modulus(SIZE_LONG)

(* The (int8_t) / (int16_t) casts: the signed value of the low bits. *)
SignExt(v, size) ==
  LET u == MASK(v, size)
  IN IF u >= Modulus(size) \div 2 THEN u - Modulus(size) ELSE u

(* Bit n of a non-negative integer. *)
Bit(v, n) == (v \div 2 ^ n) % 2 = 1

(* MASK_ADDR: the 24-bit bus of the 68000. *)
MASK_ADDR(a) == a % (2 ^ AddrBits)

(* enum RegisterType: D0..D7, A0..A7 (A7 = USP), SSP, PC, SR. *)
REG_D0 == 0
REG_A0 == 8
REG_A7 == 15
REG_USP == 15
REG_SSP == 16
REG_PC == 17
REG_SR == 18
RegIds == 0 .. 18

(* enum StatusRegisterFlag: bit positions of the flags in SR. *)
SR_FLAG_CARRY == 0
SR_FLAG_OVERFLOW == 1
SR_FLAG_ZERO == 2
SR_FLAG_NEGATIVE == 3
SR_FLAG_EXTEND == 4
SR_FLAG_SUPERVISOR == 13
CCRFlags == {SR_FLAG_CARRY, SR_FLAG_OVERFLOW, SR_FLAG_ZERO,
             SR_FLAG_NEGATIVE, SR_FLAG_EXTEND}

(* enum AddressingMode: the values 0..6 are the mode field of an opcode    *)
(* (Instruction::getAddressingMode casts it), mode 7 is split by the       *)
(* register field.                                                         *)
ADDR_MODE_DIRECT_DATA == 0
ADDR_MODE_DIRECT_ADDR == 1
ADDR_MODE_INDIRECT == 2
ADDR_MODE_INDIRECT_POSTINCREMENT == 3
ADDR_MODE_INDIRECT_PREDECREMENT == 4
ADDR_MODE_INDIRECT_DISPLACEMENT == 5
ADDR_MODE_INDIRECT_INDEX == 6
ADDR_MODE_ABS_WORD == 7
ADDR_MODE_ABS_LONG == 8
ADDR_MODE_PC_DISPLACEMENT == 9
ADDR_MODE_PC_INDEX == 10
ADDR_MODE_IMMEDIATE == 11
ADDR_MODE_UNKNOWN == 12
AddrModes == 0 .. 12

(* Condition codes from the result of a subtraction (helpers.hpp).         *)
IS_NEGATIVE(result, size) == Bit(result, Bits(size) - 1)
IS_ZERO(result, size) == MASK(result, size) = 0
IS_CARRY(result, size) == Bit(result, Bits(size))
IS_OVERFLOW(src, dest, size) ==
  LET s == SignExt(src, size)
      d == SignExt(dest, size)
      r == d - s
  IN r < -(Modulus(size) \div 2) \/ r >= Modulus(size) \div 2
=============================================================================
