------------------------------- MODULE MC_CPU -------------------------------
(***************************************************************************)
(* Model-checking instance of CPU.  Words are scaled down: a byte has      *)
(* ByteBits = 4 bits, so a word has 8 and a long 16, and the bus has 9     *)
(* address bits (MEMORY_SIZE = 2^9).  Every mask, sign bit, carry bit and  *)
(* wrap-around of the code keeps its position relative to the width.      *)
(*                                                                         *)
(* Initial states are those the test harness (readRegistersJson,          *)
(* fillRamByJson) and load_elf can produce: PC at the entry point, the    *)
(* user stack pointer at MEMORY_SIZE, a few data and address register     *)
(* values, user or supervisor mode, and the extension words after the     *)
(* first opcode drawn from a small set.                                    *)
(***************************************************************************)
EXTENDS CPU

CONSTANTS IllegalFault   \* the fault an illegal opcode should raise

EntryPC == 16

(* Register files: A0 and SR drawn from small sets; D0 is 1 as a byte  *)
(* or word and negative as a long.                                     *)
D0Vals == {2 ^ (Bits(SIZE_LONG) - 1) + 1}
A0Vals == {1, EntryPC + 2, MemSize - 2}
SRVals == {0, 2 ^ SR_FLAG_SUPERVISOR}
MCInitRegs ==
  { [x \in RegIds |->
       CASE x = REG_D0  -> d
         [] x = REG_A0  -> a
         [] x = REG_USP -> MemSize
         [] x = REG_SSP -> MemSize \div 2
         [] x = REG_PC  -> EntryPC
         [] x = REG_SR  -> sr
         [] OTHER       -> 0] : d \in D0Vals, a \in A0Vals, sr \in SRVals }

(* Memory: zero, except the two extension words after the first opcode. *)
Ext1Vals == {0, 2 ^ (Bits(SIZE_WORD) - 1), 2 ^ (Bits(SIZE_WORD) - 1) + 1}
Ext2Vals == {0, 2}
ByteOf(w, k) == (w \div 2 ^ (ByteBits * (1 - k))) % 2 ^ ByteBits
MCInitMems ==
  { [x \in Addrs |->
       CASE x \in {EntryPC + 2, EntryPC + 3} -> ByteOf(e1, x - (EntryPC + 2))
         [] x \in {EntryPC + 4, EntryPC + 5} -> ByteOf(e2, x - (EntryPC + 4))
         [] OTHER -> 0] : e1 \in Ext1Vals, e2 \in Ext2Vals }

(* Valid instructions, by family, on the addressing modes of interest.    *)
(* The opcodes are the real 68000 encodings.                              *)
DataInstrs ==
  { Clr(\h4227), Clr(\h421F), Clr(\h4258), Clr(\h4290), Clr(\h4278),
    Clr(\h4268),
    Neg(\h4427), Neg(\h4450),
    Sub(\h9110), Sub(\h9027), Sub(\h9058), Sub(\h9070), Sub(\h907A),
    Subq(\h5327), Subq(\h5390),
    Cmpi(\h0C1F), Cmpi(\h0C79),
    Adda(\hD0C0), Adda(\hD1D8),
    Jsr(\h4E90), Jsr(\h4EA8),
    Rts(\h4E75) }

(* Byte and word forms, for the condition codes: the long forms and neg  *)
(* are checked by the runs on their findings.                            *)
FlagInstrs ==
  { Clr(\h4227), Clr(\h4258),
    Sub(\h9110), Sub(\h9058),
    Subq(\h5327), Subq(\h5550),
    Cmpi(\h0C18), Cmpi(\h0C50),
    Adda(\hD0C0), Jsr(\h4EA8), Rts(\h4E75) }

(* Single instructions of the runs that expect a violation. *)
LongSubInstrs == { Sub(\h9190) }           \* sub.l D0,(A0)
NegInstrs     == { Neg(\h4410) }           \* neg.b (A0)
AbsWordInstrs == { Jsr(\h4EB8) }           \* jsr abs.w
SubqEightInstrs == { Subq(\h5150) }        \* subq.w #8,(A0)

(* The view of the register file without the condition codes. *)
DataView(r) == [r EXCEPT ![REG_SR] = @ - (@ % 32)]

DataArch == INSTANCE CPUArch WITH regs <- DataView(regs), FlagsModelled <- FALSE

(* Every step of the emulator (CPU::step and the execute of the decoded  *)
(* instruction, through the effective-address resolver) is a step of the *)
(* architectural contract, condition codes aside: each operand resolved  *)
(* once, read-modify-write at one address, a fault changes no memory.    *)
DataRefinement == DataArch!Spec

FullArch == INSTANCE CPUArch WITH FlagsModelled <- TRUE

(* The same, condition codes included: X, N, Z, V and C after each       *)
(* sub, subq, cmpi and clr are those of dest - src at the operand width.  *)
FlagRefinement == FullArch!Spec

(* The active stack pointer stays even: byte pushes and pops through A7  *)
(* (cpu_state.cpp postincrement / predecrement) move it by 2.           *)
StackAligned ==
  fault = NoFault => RegGet(regs, REG_A7, SIZE_LONG) % 2 = 0

(* The registers a step may have moved before an access throws: the     *)
(* address register of a post-increment or pre-decrement operand (A7 as  *)
(* SSP in supervisor mode), and the stack pointer jsr lowers in           *)
(* stackPush before its write.                                            *)
AutoModified(r, ins) ==
  { Slot(r, reg) :
      reg \in {x \in {ins.src_reg, ins.dest_reg} :
                \/ x = ins.src_reg /\ ins.src_mode \in
                     {ADDR_MODE_INDIRECT_POSTINCREMENT, ADDR_MODE_INDIRECT_PREDECREMENT}
                \/ x = ins.dest_reg /\ ins.dest_mode \in
                     {ADDR_MODE_INDIRECT_POSTINCREMENT, ADDR_MODE_INDIRECT_PREDECREMENT}} }
  \cup (IF ins.name = "jsr" THEN {Slot(r, REG_A7)} ELSE {})

(* A faulting step leaves every register as it was except PC and the     *)
(* registers its own operands had already moved: execute writes its data *)
(* or address-register result and its flags only after the last access  *)
(* that can throw, and rts moves SP only after the pop has read.  So the *)
(* partial update that spec 7 allows never reaches a data register, SR,  *)
(* the other stack pointer or an unrelated address register.            *)
FaultConfined ==
  [][fault' # NoFault =>
       \A x \in RegIds \ ({REG_PC} \cup AutoModified(regs, lastIns')) :
         regs'[x] = regs[x]]_vars

(* The conditions in the order of the 68000 condition field (0 .. 15). *)
CondCode == <<"COND_TRUE", "COND_FALSE", "COND_HIGHER", "COND_LOWER_SAME",
              "COND_CARRY_CLEAR", "COND_CARRY_SET", "COND_NOT_EQUAL",
              "COND_EQUAL", "COND_OVERFLOW_CLEAR", "COND_OVERFLOW_SET",
              "COND_PLUS", "COND_MINUS", "COND_GREATER_EQUAL",
              "COND_LESS_THAN", "COND_GREATER_THAN", "COND_LESS_EQUAL">>

(* The M68000 manual's table: the even codes 2k are T, HI, CC, NE, VC,  *)
(* PL, GE, GT and each odd code 2k + 1 is the negation of code 2k.       *)
ManualCondition(r, code) ==
  LET n == FlagGet(r, SR_FLAG_NEGATIVE)
      z == FlagGet(r, SR_FLAG_ZERO)
      v == FlagGet(r, SR_FLAG_OVERFLOW)
      c == FlagGet(r, SR_FLAG_CARRY)
      base == << TRUE, ~(c \/ z), ~c, ~z, ~v, ~n, n = v, ~z /\ n = v >>
      b == base[code \div 2 + 1]
  IN  IF code % 2 = 0 THEN b ELSE ~b

(* Whatever flags the instructions have left, checkCondition answers    *)
(* each of the sixteen conditions as the 68000 defines it, in particular *)
(* the signed ones (GE, LT, GT, LE) that combine N, V and Z.            *)
ConditionsMatchManual ==
  \A code \in 0 .. 15 :
    checkCondition(regs, CondCode[code + 1]) = ManualCondition(regs, code)
=============================================================================
