------------------------------ MODULE CPUState ------------------------------
(***************************************************************************)
(* The effective-address resolver (class CPUState): getData,               *)
(* getDataSilent, setData, getControlAddress, stackPush and stackPop.     *)
(* Each works on a state record s = [r, m, f] (registers, memory, fault)   *)
(* and performs its register and memory accesses in the order the code    *)
(* does, so that an exception leaves exactly the partial updates made      *)
(* before it.  Operators that return a value return [s |-> s', v |-> v].  *)
(***************************************************************************)
EXTENDS Registers, Memory

(* class CPUState: the registers and the memory behind memoryPtr, and the *)
(* exception an access may have thrown out of it.                         *)
CPUStates == [r : RegisterFile, m : MemoryImage, f : {NoFault} \cup Faults]

(* Registers::set on the state record; skipped once an exception is thrown. *)
RegW(s, reg, size, data) ==
  IF Ok(s) THEN [s EXCEPT !.r = RegSet(s.r, reg, size, data)] ELSE s

(* Instruction::getRegisterType: Dn for mode field 0, otherwise An. *)
getRegisterType(part_mode, part_reg) ==
  IF part_mode = 0 THEN part_reg ELSE part_reg + 8

(* Mutant: no special case for the stack pointer. *)
StepSizeNoA7(reg, size) == size

(* The auto-increment / auto-decrement step: a byte access through A7 *)
(* moves the stack pointer by 2 to keep it word aligned.             *)
StepSize(reg, size) ==
  IF reg = REG_A7 /\ size % 2 # 0 THEN size + 1 ELSE size

(* Fields of the brief extension word of the indexed modes: bit 15 (the   *)
(* top bit of a word) selects An, bits 14..12 the register, bit 11 a long  *)
(* index, the low byte is a signed displacement.                           *)
IndexReg(ext) ==
  getRegisterType(IF Bit(ext, Bits(SIZE_WORD) - 1) THEN 1 ELSE 0,
                  (ext \div 2 ^ (Bits(SIZE_WORD) - 4)) % 8)
IndexSize(ext) ==
  IF Bit(ext, Bits(SIZE_WORD) - 5) THEN SIZE_LONG ELSE SIZE_WORD
IndexOffset(r, ext) ==
  LET v == RegGet(r, IndexReg(ext), IndexSize(ext))
  IN (IF IndexSize(ext) = SIZE_WORD THEN SignExt(v, SIZE_WORD) ELSE v)
       + SignExt(ext, SIZE_BYTE)

(* The modes that read an extension word or long at PC, and its size. *)
ExtModes == {ADDR_MODE_INDIRECT_DISPLACEMENT, ADDR_MODE_INDIRECT_INDEX,
             ADDR_MODE_ABS_WORD, ADDR_MODE_ABS_LONG, ADDR_MODE_PC_DISPLACEMENT,
             ADDR_MODE_PC_INDEX, ADDR_MODE_IMMEDIATE}
ExtSize(mode, size) ==
  CASE mode = ADDR_MODE_ABS_LONG  -> SIZE_LONG
    [] mode = ADDR_MODE_IMMEDIATE -> IF size = SIZE_LONG THEN SIZE_LONG ELSE SIZE_WORD
    [] OTHER                      -> SIZE_WORD

(* The operand address of an extension-word mode, from the registers      *)
(* before the PC is advanced and the extension value w.  Absolute short   *)
(* goes through (int16_t), i.e. it is sign-extended.                       *)
ExtAddress(r, mode, reg, w) ==
  LET base == IF mode \in {ADDR_MODE_PC_DISPLACEMENT, ADDR_MODE_PC_INDEX}
              THEN RegGet(r, REG_PC, SIZE_LONG) ELSE RegGet(r, reg, SIZE_LONG)
  IN CASE mode \in {ADDR_MODE_INDIRECT_DISPLACEMENT, ADDR_MODE_PC_DISPLACEMENT}
            -> U32(base + SignExt(w, SIZE_WORD))
       [] mode \in {ADDR_MODE_INDIRECT_INDEX, ADDR_MODE_PC_INDEX}
            -> U32(base + IndexOffset(r, w))
       [] mode = ADDR_MODE_ABS_WORD -> U32(SignExt(w, SIZE_WORD))
       [] OTHER -> w

(* CPUState::getData: the operand, with every side effect of the mode. *)
getData(s, mode, reg, size) ==
  LET a  == RegGet(s.r, reg, SIZE_LONG)
      pc == RegGet(s.r, REG_PC, SIZE_LONG)
      es == ExtSize(mode, size)
      na == U32(a - StepSize(reg, size))
  IN CASE mode \in {ADDR_MODE_DIRECT_DATA, ADDR_MODE_DIRECT_ADDR}
            -> [s |-> s, v |-> RegGet(s.r, reg, size)]
       [] mode = ADDR_MODE_INDIRECT -> MemRead(s, a, size)
       [] mode = ADDR_MODE_INDIRECT_POSTINCREMENT ->
            LET x == MemRead(s, a, size)
            IN [s |-> RegW(x.s, reg, SIZE_LONG, U32(a + StepSize(reg, size))), v |-> x.v]
       [] mode = ADDR_MODE_INDIRECT_PREDECREMENT ->
            LET x == MemRead(s, na, size)
            IN [s |-> RegW(x.s, reg, SIZE_LONG, na), v |-> x.v]
       [] mode = ADDR_MODE_IMMEDIATE ->
            LET x == MemRead(s, pc, es)
            IN [s |-> RegW(x.s, REG_PC, SIZE_LONG, U32(pc + es)),
                v |-> IF size = SIZE_BYTE THEN MASK(x.v, SIZE_BYTE) ELSE x.v]
       [] mode \in ExtModes ->
            \* absolute short: the extension word is used zero-extended
            LET x    == MemRead(s, pc, es)
                addr == IF mode = ADDR_MODE_ABS_WORD THEN x.v
                        ELSE ExtAddress(s.r, mode, reg, x.v)
            IN MemRead(RegW(x.s, REG_PC, SIZE_LONG, U32(pc + es)), addr, size)
       [] OTHER -> [s |-> s, v |-> 0]

(* CPUState::getDataSilent: the same operand, no PC advance and no       *)
(* auto-increment or auto-decrement of the base register.               *)
getDataSilent(s, mode, reg, size) ==
  LET a  == RegGet(s.r, reg, SIZE_LONG)
      pc == RegGet(s.r, REG_PC, SIZE_LONG)
      es == ExtSize(mode, size)
  IN CASE mode \in {ADDR_MODE_DIRECT_DATA, ADDR_MODE_DIRECT_ADDR}
            -> [s |-> s, v |-> RegGet(s.r, reg, size)]
       [] mode \in {ADDR_MODE_INDIRECT, ADDR_MODE_INDIRECT_POSTINCREMENT}
            -> MemRead(s, a, size)
       [] mode = ADDR_MODE_INDIRECT_PREDECREMENT
            -> MemRead(s, U32(a - StepSize(reg, size)), size)
       [] mode = ADDR_MODE_IMMEDIATE ->
            LET x == MemRead(s, pc, es)
            IN [x EXCEPT !.v = IF size = SIZE_BYTE THEN MASK(@, SIZE_BYTE) ELSE @]
       [] mode \in ExtModes ->
            LET x == MemRead(s, pc, es)
            IN MemRead(x.s, ExtAddress(s.r, mode, reg, x.v), size)
       [] OTHER -> [s |-> s, v |-> 0]

(* CPUState::setData: writes the operand with the side effects of        *)
(* getData; PC-relative and immediate modes are not writable (no-op).    *)
setData(s, mode, reg, size, data) ==
  LET a  == RegGet(s.r, reg, SIZE_LONG)
      pc == RegGet(s.r, REG_PC, SIZE_LONG)
      es == ExtSize(mode, size)
      na == U32(a - StepSize(reg, size))
      x  == MemRead(s, pc, es)
  IN CASE mode \in {ADDR_MODE_DIRECT_DATA, ADDR_MODE_DIRECT_ADDR}
            -> RegW(s, reg, size, data)
       [] mode = ADDR_MODE_INDIRECT -> MemWrite(s, a, size, data)
       [] mode = ADDR_MODE_INDIRECT_POSTINCREMENT ->
            RegW(MemWrite(s, a, size, data), reg, SIZE_LONG, U32(a + StepSize(reg, size)))
       [] mode = ADDR_MODE_INDIRECT_PREDECREMENT ->
            RegW(MemWrite(s, na, size, data), reg, SIZE_LONG, na)
       [] mode = ADDR_MODE_ABS_WORD ->
            \* the write happens before the PC is advanced
            RegW(MemWrite(x.s, ExtAddress(s.r, mode, reg, x.v), size, data),
                 REG_PC, SIZE_LONG, U32(pc + es))
       [] mode \in {ADDR_MODE_INDIRECT_DISPLACEMENT, ADDR_MODE_INDIRECT_INDEX,
                    ADDR_MODE_ABS_LONG} ->
            MemWrite(RegW(x.s, REG_PC, SIZE_LONG, U32(pc + es)),
                     ExtAddress(s.r, mode, reg, x.v), size, data)
       [] OTHER -> s

(* CPUState::getControlAddress: the target of a jump; reads no operand.  *)
(* Absolute modes advance the PC before reading the address and use the *)
(* absolute short word zero-extended.                                   *)
getControlAddress(s, mode, reg) ==
  LET pc == RegGet(s.r, REG_PC, SIZE_LONG)
      es == ExtSize(mode, SIZE_LONG)
  IN CASE mode = ADDR_MODE_INDIRECT -> [s |-> s, v |-> RegGet(s.r, reg, SIZE_LONG)]
       [] mode \in {ADDR_MODE_INDIRECT_DISPLACEMENT, ADDR_MODE_INDIRECT_INDEX,
                    ADDR_MODE_PC_DISPLACEMENT, ADDR_MODE_PC_INDEX} ->
            LET x == MemRead(s, pc, SIZE_WORD)
            IN [s |-> RegW(x.s, REG_PC, SIZE_LONG, U32(pc + SIZE_WORD)),
                v |-> ExtAddress(s.r, mode, reg, x.v)]
       [] mode \in {ADDR_MODE_ABS_WORD, ADDR_MODE_ABS_LONG} ->
            MemRead(RegW(s, REG_PC, SIZE_LONG, U32(pc + es)), pc, es)
       [] OTHER -> [s |-> s, v |-> 0]

(* CPUState::stackPush: the stack pointer is lowered before the write. *)
stackPush(s, size, data) ==
  LET sp == U32(RegGet(s.r, REG_USP, SIZE_LONG) - size)
  IN MemWrite(RegW(s, REG_USP, SIZE_LONG, sp), sp, size, data)

(* CPUState::stackPop *)
stackPop(s, size) ==
  LET sp == RegGet(s.r, REG_USP, SIZE_LONG)
      x  == MemRead(s, sp, size)
  IN [s |-> RegW(x.s, REG_USP, SIZE_LONG, U32(sp + size)), v |-> x.v]

(* CPUState::checkCondition: the sixteen 68000 branch conditions as       *)
(* predicates on N, Z, V and C.  No implemented instruction calls it yet.  *)
(* Mutant: greater-than without the zero flag. *)
checkConditionGTNoZero(r, cond) ==
  LET n == FlagGet(r, SR_FLAG_NEGATIVE)
      z == FlagGet(r, SR_FLAG_ZERO)
      v == FlagGet(r, SR_FLAG_OVERFLOW)
      c == FlagGet(r, SR_FLAG_CARRY)
  IN  [COND_TRUE |-> TRUE, COND_FALSE |-> FALSE,
       COND_HIGHER |-> ~c /\ ~z, COND_LOWER_SAME |-> c \/ z,
       COND_CARRY_CLEAR |-> ~c, COND_CARRY_SET |-> c,
       COND_NOT_EQUAL |-> ~z, COND_EQUAL |-> z,
       COND_OVERFLOW_CLEAR |-> ~v, COND_OVERFLOW_SET |-> v,
       COND_PLUS |-> ~n, COND_MINUS |-> n,
       COND_GREATER_EQUAL |-> (n /\ v) \/ (~n /\ ~v),
       COND_LESS_THAN |-> (n /\ ~v) \/ (~n /\ v),
       COND_GREATER_THAN |-> (n /\ v) \/ (~n /\ ~v),
       COND_LESS_EQUAL |-> (n /\ ~v) \/ ((~n /\ v) \/ z)][cond]

(* checkCondition: the flags are read first, then the switch. *)
checkCondition(r, cond) ==
  LET n == FlagGet(r, SR_FLAG_NEGATIVE)
      z == FlagGet(r, SR_FLAG_ZERO)
      v == FlagGet(r, SR_FLAG_OVERFLOW)
      c == FlagGet(r, SR_FLAG_CARRY)
  IN  [COND_TRUE |-> TRUE, COND_FALSE |-> FALSE,
       COND_HIGHER |-> ~c /\ ~z, COND_LOWER_SAME |-> c \/ z,
       COND_CARRY_CLEAR |-> ~c, COND_CARRY_SET |-> c,
       COND_NOT_EQUAL |-> ~z, COND_EQUAL |-> z,
       COND_OVERFLOW_CLEAR |-> ~v, COND_OVERFLOW_SET |-> v,
       COND_PLUS |-> ~n, COND_MINUS |-> n,
       COND_GREATER_EQUAL |-> (n /\ v) \/ (~n /\ ~v),
       COND_LESS_THAN |-> (n /\ ~v) \/ (~n /\ v),
       COND_GREATER_THAN |-> (n /\ v /\ ~z) \/ (~n /\ ~v /\ ~z),
       COND_LESS_EQUAL |-> (n /\ ~v) \/ ((~n /\ v) \/ z)][cond]
=============================================================================
