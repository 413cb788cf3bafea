---------------------------- MODULE Instructions ----------------------------
(***************************************************************************)
(* The instruction families: the constructor of each, which parses a raw   *)
(* 16-bit opcode into an immutable decoded record, and its execute, which  *)
(* maps a state record [r, m, f] to the state after the instruction.       *)
(* Every execute starts by advancing PC past the opcode and then calls     *)
(* the resolver of CPUState in the order the code does.                    *)
(***************************************************************************)
EXTENDS CPUState

(* The decoded record; fields a family does not use keep their default. *)
Decoded(name, op, dm, dr, sm, sr, size, imm, valid) ==
  [name |-> name, opcode |-> op, dest_mode |-> dm, dest_reg |-> dr,
   src_mode |-> sm, src_reg |-> sr, size |-> size, imm |-> imm, valid |-> valid]

(* Instruction::getAddressingMode *)
getAddressingMode(part_mode, part_reg) ==
  IF part_mode < 7 THEN part_mode
  ELSE IF part_reg <= 4
       THEN <<ADDR_MODE_ABS_WORD, ADDR_MODE_ABS_LONG, ADDR_MODE_PC_DISPLACEMENT,
              ADDR_MODE_PC_INDEX, ADDR_MODE_IMMEDIATE>>[part_reg + 1]
       ELSE ADDR_MODE_UNKNOWN

(* IS_MEMORY_ALTERABLE and IS_CONTROL_ADDR (helpers.hpp). *)
IS_MEMORY_ALTERABLE(mode) == mode \in ADDR_MODE_INDIRECT .. ADDR_MODE_ABS_LONG
IS_CONTROL_ADDR(mode) ==
  mode \in {ADDR_MODE_INDIRECT, ADDR_MODE_INDIRECT_DISPLACEMENT,
            ADDR_MODE_INDIRECT_INDEX, ADDR_MODE_ABS_WORD, ADDR_MODE_ABS_LONG,
            ADDR_MODE_PC_DISPLACEMENT, ADDR_MODE_PC_INDEX}

(* Opcode fields: bits 5..3 mode, 2..0 register, 7..6 size, 11..9 second *)
(* register or quick data, 8 the op-mode / size bit.                     *)
Field(op, lo, width) == (op \div 2 ^ lo) % 2 ^ width
EAMode(op) == getAddressingMode(Field(op, 3, 3), Field(op, 0, 3))
EAReg(op) == getRegisterType(Field(op, 3, 3), Field(op, 0, 3))
(* The 2-bit size field 00/01/10; 11 leaves data_size uninitialised. *)
SizeField(op) == <<SIZE_BYTE, SIZE_WORD, SIZE_LONG, 0>>[Field(op, 6, 2) + 1]
SizeValid(op) == Field(op, 6, 2) # 3

(* Clr::Clr, Neg::Neg, Cmpi::Cmpi: one memory-alterable destination. *)
DecodeDestEA(name, op) ==
  Decoded(name, op, EAMode(op), EAReg(op), ADDR_MODE_UNKNOWN, REG_D0,
          SizeField(op), 0, IS_MEMORY_ALTERABLE(EAMode(op)) /\ SizeValid(op))
Clr(op) == DecodeDestEA("clr", op)
Neg(op) == DecodeDestEA("neg", op)
Cmpi(op) == DecodeDestEA("cmpi", op)

(* Subq::Subq: quick data from bits 11..9, stored as read (0 stays 0). *)
Subq(op) == [DecodeDestEA("subq", op) EXCEPT !.imm = Field(op, 9, 3)]

(* Sub::Sub: op_mode 1 is Dn - <ea> -> <ea>, op_mode 0 is <ea> - Dn -> Dn. *)
Sub(op) ==
  IF Field(op, 8, 1) = 1
  THEN Decoded("sub", op, EAMode(op), EAReg(op), ADDR_MODE_DIRECT_DATA,
               Field(op, 9, 3), SizeField(op), 0,
               IS_MEMORY_ALTERABLE(EAMode(op)) /\ SizeValid(op))
  ELSE Decoded("sub", op, ADDR_MODE_DIRECT_DATA, Field(op, 9, 3), EAMode(op),
               EAReg(op), SizeField(op), 0, SizeValid(op))

(* Adda::Adda: An destination, bit 8 selects word or long. *)
Adda(op) ==
  Decoded("adda", op, ADDR_MODE_DIRECT_ADDR, getRegisterType(1, Field(op, 9, 3)),
          EAMode(op), EAReg(op),
          IF Field(op, 8, 1) = 0 THEN SIZE_WORD ELSE SIZE_LONG, 0, TRUE)

(* Jsr::Jsr: a control-addressing destination, long. *)
Jsr(op) ==
  Decoded("jsr", op, EAMode(op), EAReg(op), ADDR_MODE_UNKNOWN, REG_D0,
          SIZE_LONG, 0, IS_CONTROL_ADDR(EAMode(op)))

(* Rts and Illegal carry no fields. *)
Rts(op) ==
  Decoded("rts", op, ADDR_MODE_UNKNOWN, REG_D0, ADDR_MODE_UNKNOWN, REG_D0,
          SIZE_LONG, 0, TRUE)
Illegal(op) ==
  Decoded("illegal", op, ADDR_MODE_UNKNOWN, REG_D0, ADDR_MODE_UNKNOWN, REG_D0,
          SIZE_WORD, 0, FALSE)

-----------------------------------------------------------------------------
(* Registers::set(StatusRegisterFlag, bool) on the state record. *)
FlagW(s, flag, value) ==
  IF Ok(s) THEN [s EXCEPT !.r = FlagSet(s.r, flag, value)] ELSE s

(* The first step of every execute: PC += SIZE_WORD. *)
AdvancePC(s) == RegW(s, REG_PC, SIZE_LONG, U32(RegGet(s.r, REG_PC, SIZE_LONG) + 2))

(* Mutant: the extend flag is never written. *)
SubFlagsNoExtend(s, src, dest, result, size, withExtend) ==
  FlagW(FlagW(FlagW(FlagW(s,
    SR_FLAG_NEGATIVE, IS_NEGATIVE(result, size)),
    SR_FLAG_ZERO, IS_ZERO(result, size)),
    SR_FLAG_OVERFLOW, IS_OVERFLOW(src, dest, size)),
    SR_FLAG_CARRY, IS_CARRY(result, size))

(* The flag updates of sub, neg and subq (X, N, Z, V, C) and of cmpi     *)
(* (N, Z, V, C).                                                          *)
SubFlags(s, src, dest, result, size, withExtend) ==
  LET sx == IF withExtend THEN FlagW(s, SR_FLAG_EXTEND, IS_CARRY(result, size))
            ELSE s
  IN FlagW(FlagW(FlagW(FlagW(sx,
       SR_FLAG_NEGATIVE, IS_NEGATIVE(result, size)),
       SR_FLAG_ZERO, IS_ZERO(result, size)),
       SR_FLAG_OVERFLOW, IS_OVERFLOW(src, dest, size)),
       SR_FLAG_CARRY, IS_CARRY(result, size))

(* Mutant: clr sets the flags before it writes the destination. *)
ExecClrFlagsFirst(ins, s) ==
  LET s1 == FlagW(FlagW(FlagW(FlagW(AdvancePC(s),
              SR_FLAG_NEGATIVE, FALSE), SR_FLAG_ZERO, TRUE),
              SR_FLAG_OVERFLOW, FALSE), SR_FLAG_CARRY, FALSE)
  IN setData(s1, ins.dest_mode, ins.dest_reg, ins.size, 0)

(* Clr::execute *)
ExecClr(ins, s) ==
  LET s1 == setData(AdvancePC(s), ins.dest_mode, ins.dest_reg, ins.size, 0)
  IN FlagW(FlagW(FlagW(FlagW(s1,
       SR_FLAG_NEGATIVE, FALSE), SR_FLAG_ZERO, TRUE),
       SR_FLAG_OVERFLOW, FALSE), SR_FLAG_CARRY, FALSE)

(* Neg::execute: 0 - <ea>, read silently and written back. *)
ExecNeg(ins, s) ==
  LET d   == getDataSilent(AdvancePC(s), ins.dest_mode, ins.dest_reg, ins.size)
      res == U32(0 - d.v)
  IN SubFlags(setData(d.s, ins.dest_mode, ins.dest_reg, ins.size, res),
              0, d.v, res, ins.size, TRUE)

(* Sub::execute: the source with side effects, the destination silently. *)
ExecSub(ins, s) ==
  LET x   == getData(AdvancePC(s), ins.src_mode, ins.src_reg, ins.size)
      d   == getDataSilent(x.s, ins.dest_mode, ins.dest_reg, ins.size)
      res == U32(d.v - x.v)
  IN SubFlags(setData(d.s, ins.dest_mode, ins.dest_reg, ins.size, res),
              x.v, d.v, res, ins.size, TRUE)

(* Subq::execute: no flags for an address-register destination. *)
ExecSubq(ins, s) ==
  LET d   == getDataSilent(AdvancePC(s), ins.dest_mode, ins.dest_reg, ins.size)
      res == U32(d.v - ins.imm)
      s2  == setData(d.s, ins.dest_mode, ins.dest_reg, ins.size, res)
  IN IF ins.dest_mode # ADDR_MODE_DIRECT_ADDR
     THEN SubFlags(s2, ins.imm, d.v, res, ins.size, TRUE)
     ELSE s2

(* Cmpi::execute: immediate source, destination read with its side       *)
(* effects, flags only.                                                   *)
ExecCmpi(ins, s) ==
  LET x   == getData(AdvancePC(s), ADDR_MODE_IMMEDIATE, REG_D0, ins.size)
      d   == getData(x.s, ins.dest_mode, ins.dest_reg, ins.size)
      res == U32(d.v - x.v)
  IN SubFlags(d.s, x.v, d.v, res, ins.size, FALSE)

(* Adda::execute: src + An at the operand size, no flags. *)
ExecAdda(ins, s) ==
  LET x == getData(AdvancePC(s), ins.src_mode, ins.src_reg, ins.size)
      d == getDataSilent(x.s, ins.dest_mode, ins.dest_reg, ins.size)
  IN setData(d.s, ins.dest_mode, ins.dest_reg, ins.size, U32(x.v + d.v))

(* Mutant: the return address is the PC read before the target is      *)
(* resolved, i.e. pointing at the extension words.                     *)
ExecJsrStalePC(ins, s) ==
  LET pc == RegGet(AdvancePC(s).r, REG_PC, SIZE_LONG)
      t  == getControlAddress(AdvancePC(s), ins.dest_mode, ins.dest_reg)
  IN RegW(stackPush(t.s, SIZE_LONG, pc), REG_PC, SIZE_LONG, t.v)

(* Jsr::execute: the PC is read again after the target is resolved, so  *)
(* the pushed return address is past the extension words.               *)
ExecJsr(ins, s) ==
  LET t  == getControlAddress(AdvancePC(s), ins.dest_mode, ins.dest_reg)
      pc == RegGet(t.s.r, REG_PC, SIZE_LONG)
  IN RegW(stackPush(t.s, SIZE_LONG, pc), REG_PC, SIZE_LONG, t.v)

(* Rts::execute: pops the return address into PC. *)
ExecRts(ins, s) ==
  LET x == stackPop(AdvancePC(s), SIZE_LONG)
  IN RegW(x.s, REG_PC, SIZE_LONG, x.v)

(* Illegal::execute does nothing, PC included. *)
ExecIllegal(ins, s) == s

(* The virtual call instruction->execute(state). *)
Execute(ins, s) ==
  CASE ins.name = "clr"  -> ExecClr(ins, s)
    [] ins.name = "neg"  -> ExecNeg(ins, s)
    [] ins.name = "sub"  -> ExecSub(ins, s)
    [] ins.name = "subq" -> ExecSubq(ins, s)
    [] ins.name = "cmpi" -> ExecCmpi(ins, s)
    [] ins.name = "adda" -> ExecAdda(ins, s)
    [] ins.name = "jsr"  -> ExecJsr(ins, s)
    [] ins.name = "rts"  -> ExecRts(ins, s)
    [] OTHER             -> ExecIllegal(ins, s)
=============================================================================
