------------------------------- MODULE CPUArch -------------------------------
(***************************************************************************)
(* What one instruction promises (spec.md 4.1-4.4 and 7), written without  *)
(* the resolver's structure: every operand's effective address is          *)
(* resolved exactly once, its extension words are consumed once, its      *)
(* auto-increment or auto-decrement is applied once, and a read-modify-    *)
(* write instruction writes where it read.  A step either completes, or   *)
(* one of its memory accesses is misaligned or out of range and the step  *)
(* faults without having changed memory (registers may be partly          *)
(* updated).  Executing an illegal opcode is a distinguishable fault.      *)
(*                                                                         *)
(* With FlagsModelled the condition codes are those of spec 4.4 (carry is  *)
(* the unsigned borrow at the operand width); without it the CCR bits are  *)
(* left alone, for refinement mappings that project them away.             *)
(***************************************************************************)
EXTENDS M68kData

CONSTANTS MemSize, NoFault, AlignFault, BoundsFault, IllegalFault,
          Instrs, MaxSteps, FlagsModelled

VARIABLES regs, mem, fault, steps, lastIns

W == Bits(SIZE_WORD)

(* The register a program names: A7 is SSP in supervisor mode. *)
Named(r, n) == IF n = REG_A7 /\ Bit(r[REG_SR], SR_FLAG_SUPERVISOR) THEN REG_SSP ELSE n
View(r, n, size) == r[Named(r, n)] % Modulus(size)
Put(r, n, size, v) ==
  LET k == Named(r, n)
  IN [r EXCEPT ![k] = (@ - (@ % Modulus(size))) + (v % Modulus(size))]

(* Memory contract: masked address, even for word/long, inside the store. *)
Bus(a) == a % 2 ^ AddrBits
Legal(acc) == /\ acc[2] = SIZE_BYTE \/ Bus(acc[1]) % 2 = 0
              /\ Bus(acc[1]) + acc[2] <= MemSize
Load(m, a, size) ==
  IF Legal(<<a, size>>)
  THEN LET RECURSIVE Be(_)
           Be(k) == IF k = 0 THEN 0 ELSE Be(k - 1) * 2 ^ ByteBits + m[Bus(a) + k - 1]
       IN Be(size)
  ELSE 0
Store(m, a, size, v) ==
  LET RECURSIVE StoreFrom(_, _)
      StoreFrom(mm, k) == IF k = size THEN mm
                    ELSE StoreFrom([mm EXCEPT ![Bus(a) + k] =
                               (v \div 2 ^ (ByteBits * (size - 1 - k))) % 2 ^ ByteBits], k + 1)
  IN StoreFrom(m, 0)

(* The operand named by (mode, n) at the given size, resolved once from   *)
(* registers r whose PC points at its extension words: where it is, the  *)
(* memory accesses of its extension words, and the registers after its    *)
(* side effects.                                                          *)
Operand(r, m, mode, n, size) ==
  LET pc   == r[REG_PC]
      an   == View(r, n, SIZE_LONG)
      step == IF n = REG_A7 /\ size = SIZE_BYTE THEN 2 ELSE size
      w    == Load(m, pc, SIZE_WORD)
      ix   == LET k == (IF Bit(w, W - 1) THEN REG_A0 ELSE REG_D0) + ((w \div 2 ^ (W - 4)) % 8)
                  x == IF Bit(w, W - 5) THEN View(r, k, SIZE_LONG)
                       ELSE SignExt(View(r, k, SIZE_WORD), SIZE_WORD)
              IN x + SignExt(w, SIZE_BYTE)
      ext(len) == [ext |-> {<<pc, len>>}, r |-> [r EXCEPT ![REG_PC] = U32(pc + len)]]
      opnd(kind, at, e) == [kind |-> kind, at |-> at, ext |-> e.ext, r |-> e.r]
      mem1(a, e) == opnd("mem", U32(a), e)
      noext == [ext |-> {}, r |-> r]
  IN CASE mode \in {ADDR_MODE_DIRECT_DATA, ADDR_MODE_DIRECT_ADDR}
            -> opnd("reg", n, noext)
       [] mode = ADDR_MODE_INDIRECT -> mem1(an, noext)
       [] mode = ADDR_MODE_INDIRECT_POSTINCREMENT ->
            mem1(an, [ext |-> {}, r |-> Put(r, n, SIZE_LONG, U32(an + step))])
       [] mode = ADDR_MODE_INDIRECT_PREDECREMENT ->
            mem1(an - step, [ext |-> {}, r |-> Put(r, n, SIZE_LONG, U32(an - step))])
       [] mode = ADDR_MODE_INDIRECT_DISPLACEMENT -> mem1(an + SignExt(w, SIZE_WORD), ext(2))
       [] mode = ADDR_MODE_INDIRECT_INDEX -> mem1(an + ix, ext(2))
       [] mode = ADDR_MODE_ABS_WORD -> mem1(SignExt(w, SIZE_WORD), ext(2))
       [] mode = ADDR_MODE_ABS_LONG -> mem1(Load(m, pc, SIZE_LONG), ext(4))
       [] mode = ADDR_MODE_PC_DISPLACEMENT -> mem1(pc + SignExt(w, SIZE_WORD), ext(2))
       [] mode = ADDR_MODE_PC_INDEX -> mem1(pc + ix, ext(2))
       [] mode = ADDR_MODE_IMMEDIATE ->
            IF size = SIZE_LONG
            THEN opnd("imm", Load(m, pc, SIZE_LONG), ext(4))
            ELSE opnd("imm", Load(m, pc, SIZE_WORD) % Modulus(size), ext(2))

(* Reading and writing an operand; the memory access it makes. *)
ValueOf(r, m, o, size) ==
  CASE o.kind = "reg" -> View(r, o.at, size)
    [] o.kind = "mem" -> Load(m, o.at, size)
    [] OTHER          -> o.at
Access(o, size) == IF o.kind = "mem" THEN {<<o.at, size>>} ELSE {}
WriteReg(r, o, size, v) == IF o.kind = "reg" THEN Put(r, o.at, size, v) ELSE r
WriteMem(m, o, size, v) == IF o.kind = "mem" THEN Store(m, o.at, size, v) ELSE m

(* Condition codes of dest - src at the operand width (spec 4.4). *)
SubCCR(src, dest, size) ==
  LET s == src % Modulus(size)
      d == dest % Modulus(size)
      res == (d - s) % Modulus(size)
      sv == SignExt(d, size) - SignExt(s, size)
  IN [c |-> d < s, v |-> sv # SignExt(res, size), z |-> res = 0,
      n |-> res >= Modulus(size) \div 2]
WithCCR(r, f, x) ==
  LET bits == (IF f.c THEN 1 ELSE 0) + (IF f.v THEN 2 ELSE 0) + (IF f.z THEN 4 ELSE 0)
              + (IF f.n THEN 8 ELSE 0) + (IF x THEN 16 ELSE 0)
  IN IF FlagsModelled
     THEN [r EXCEPT ![REG_SR] = (@ - (@ % 32)) + bits]
     ELSE r
OldX(r) == Bit(r[REG_SR], SR_FLAG_EXTEND)

(* The effect of ins on registers r (PC already past the opcode) and     *)
(* memory m: [acc |-> memory accesses, r |-> registers, m |-> memory].   *)
Effect(ins, r, m) ==
  LET sz == ins.size
      d  == Operand(r, m, ins.dest_mode, ins.dest_reg, sz)
      dv == ValueOf(d.r, m, d, sz)
      sub(o, sv, x, rr, keepResult) ==
        LET res == (ValueOf(rr, m, o, sz) - sv) % Modulus(sz)
            f   == SubCCR(sv, ValueOf(rr, m, o, sz), sz)
        IN [acc |-> o.ext \cup Access(o, sz),
            r |-> WithCCR(IF keepResult THEN WriteReg(o.r, o, sz, res) ELSE o.r,
                          f, IF x THEN f.c ELSE OldX(r)),
            m |-> IF keepResult THEN WriteMem(m, o, sz, res) ELSE m]
  IN CASE ins.name = "clr" ->
            [acc |-> d.ext \cup Access(d, sz),
             r |-> WithCCR(WriteReg(d.r, d, sz, 0),
                           [c |-> FALSE, v |-> FALSE, z |-> TRUE, n |-> FALSE], OldX(r)),
             m |-> WriteMem(m, d, sz, 0)]
       [] ins.name = "neg" ->
            LET res == (0 - dv) % Modulus(sz)
                f   == SubCCR(dv, 0, sz)
            IN [acc |-> d.ext \cup Access(d, sz), r |-> WithCCR(WriteReg(d.r, d, sz, res), f, f.c),
                m |-> WriteMem(m, d, sz, res)]
       [] ins.name = "subq" ->
            IF ins.dest_mode = ADDR_MODE_DIRECT_ADDR
            THEN [acc |-> {}, r |-> WriteReg(d.r, d, sz, dv - (IF ins.imm = 0 THEN 8 ELSE ins.imm)),
                  m |-> m]
            ELSE sub(d, IF ins.imm = 0 THEN 8 ELSE ins.imm, TRUE, d.r, TRUE)
       [] ins.name = "sub" ->
            LET s == Operand(r, m, ins.src_mode, ins.src_reg, sz)
                o == Operand(s.r, m, ins.dest_mode, ins.dest_reg, sz)
                e == sub(o, ValueOf(s.r, m, s, sz), TRUE, s.r, TRUE)
            IN [e EXCEPT !.acc = @ \cup s.ext \cup Access(s, sz)]
       [] ins.name = "cmpi" ->
            LET s == Operand(r, m, ADDR_MODE_IMMEDIATE, REG_D0, sz)
                o == Operand(s.r, m, ins.dest_mode, ins.dest_reg, sz)
                e == sub(o, s.at, FALSE, s.r, FALSE)
            IN [e EXCEPT !.acc = @ \cup s.ext]
       [] ins.name = "adda" ->
            LET s == Operand(r, m, ins.src_mode, ins.src_reg, sz)
                o == Operand(s.r, m, ins.dest_mode, ins.dest_reg, sz)
            IN [acc |-> s.ext \cup Access(s, sz),
                r |-> WriteReg(o.r, o, sz, ValueOf(s.r, m, s, sz) + ValueOf(o.r, m, o, sz)),
                m |-> m]
       [] ins.name = "jsr" ->
            LET sp == U32(View(d.r, REG_A7, SIZE_LONG) - 4)
            IN [acc |-> d.ext \cup {<<sp, SIZE_LONG>>},
                r |-> [Put(d.r, REG_A7, SIZE_LONG, sp) EXCEPT ![REG_PC] = d.at],
                m |-> Store(m, sp, SIZE_LONG, d.r[REG_PC])]
       [] ins.name = "rts" ->
            LET sp == View(r, REG_A7, SIZE_LONG)
            IN [acc |-> {<<sp, SIZE_LONG>>},
                r |-> [Put(r, REG_A7, SIZE_LONG, U32(sp + 4)) EXCEPT
                         ![REG_PC] = Load(m, sp, SIZE_LONG)],
                m |-> m]
       [] OTHER -> [acc |-> {}, r |-> r, m |-> m]

(* One instruction: fetch at PC, then the effect, or a fault. *)
Execute(ins) ==
  LET pc == regs[REG_PC]
      e  == Effect(ins, [regs EXCEPT ![REG_PC] = U32(pc + 2)], mem)
  IN \/ /\ ins.name = "illegal"
        /\ Legal(<<pc, SIZE_WORD>>)
        /\ fault' = IllegalFault
        /\ UNCHANGED <<regs, mem>>
     \/ /\ ins.name # "illegal"
        /\ \A acc \in {<<pc, SIZE_WORD>>} \cup e.acc : Legal(acc)
        /\ regs' = e.r
        /\ mem' = e.m
        /\ fault' = NoFault
     \/ /\ \E acc \in {<<pc, SIZE_WORD>>} \cup e.acc : ~Legal(acc)
        /\ fault' \in {AlignFault, BoundsFault}
        /\ mem' = mem
        /\ regs' \in [RegIds -> Longs]

Init ==
  /\ regs \in [RegIds -> Longs]
  /\ mem \in [0 .. (MemSize - 1) -> Bytes]
  /\ fault = NoFault
  /\ steps = 0

Next ==
  \E ins \in Instrs :
    /\ lastIns' = ins
    /\ fault = NoFault
    /\ steps < MaxSteps
    /\ Execute(ins)
    /\ steps' = steps + 1

Spec == Init /\ [][Next]_<<regs, mem, fault, steps, lastIns>>
=============================================================================
