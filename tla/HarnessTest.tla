----------------------------- MODULE HarnessTest -----------------------------
(***************************************************************************)
(* One single-step test as full_m68k_test.cpp runs it (WorkOnTest with    *)
(* readRegistersJson, TestCpu::fillRamByJson, takeRamSnapshot,             *)
(* readRamSnapshot, getRamDiff and DumpDiff), test after test on one       *)
(* TestCpu.                                                                *)
(*                                                                         *)
(* The TestCpu is built once per thread.  Its AlignedMemory comes from     *)
(* aligned_alloc, which leaves the bytes uninitialised, and the BaseMemory *)
(* constructor then writes 0 to the last byte.  Nothing clears it later:   *)
(* fillRamByJson writes only the bytes a test lists and the four prefetch  *)
(* bytes at the test's PC, so every test starts on what the allocator and *)
(* the previous tests left.  The registers, in contrast, are read into a   *)
(* fresh Registers object and copied over the CPU's for every test.       *)
(*                                                                         *)
(* A test's JSON register set is a function from RegisterType to values:  *)
(* the "usp" key is REG_USP, "ssp" is REG_SSP, and so on.  execute is any  *)
(* emulator: it may write one byte anywhere, or nothing, and set one       *)
(* register through Registers::set, or nothing.  The test name matters    *)
(* only through the "CHK" override, so a test carries a flag chk for it.   *)
(* The log output is left out.                                             *)
(***************************************************************************)
EXTENDS Registers

CONSTANTS
  AddrSet,     \* the memory's addresses
  ByteVals,    \* byte values
  Prefetch,    \* the four prefetch bytes (the two words, high byte first)
  Tests,       \* [chk, ram, final, regs0, regs1] records
  MemWrites,   \* byte writes execute may make: <<address, value>>
  RegWrites    \* register writes execute may make: <<RegisterType, value>>

VARIABLES
  mem,         \* the bytes of the TestCpu's AlignedMemory
  test,        \* the test WorkOnTest ran last
  regEffect,   \* history: the register write execute made in that test
  ramDiffers,  \* its RAM verdict
  regsDiffers  \* its register verdict: regsDiff.has_value()

vars == <<mem, test, regEffect, ramDiffers, regsDiffers>>

NoTest == [chk |-> FALSE, ram |-> <<>>, final |-> <<>>,
           regs0 |-> [x \in RegIds |-> 0], regs1 |-> [x \in RegIds |-> 0]]
None == <<>>            \* no write

(* What one execute may do to memory: write one byte, or nothing. *)
ApplyWrite(m, w) == IF w = None THEN m ELSE [m EXCEPT ![w[1]] = w[2]]

(* What one execute may do to the registers. *)
ApplyRegWrite(r, x) == IF x = None THEN r ELSE RegSet(r, x[1], SIZE_LONG, x[2])

(* AlignedMemory(): any bytes, but BaseMemory's constructor zeroes the    *)
(* last one, baseAddr[memSize - 1].                                       *)
LastAddr == CHOOSE a \in AddrSet : \A b \in AddrSet : b <= a
AllocatedMemory == {m \in [AddrSet -> ByteVals] : m[LastAddr] = 0}

(* Registers::set_<uint32_t>: Registers::set with the size              *)
(* sizeof(uint32_t) = 4 = SIZE_LONG.                                     *)
set_(r, reg, val) == RegSet(r, reg, SIZE_LONG, val)

(* Mutant: SR is set before the stack pointers. *)
readRegistersJsonSRFirst(j) ==
  LET raw == [x \in RegIds |->
                IF x \in {REG_USP, REG_SSP, REG_SR} THEN 0 ELSE j[x]]
  IN  set_(set_(set_(raw, REG_SR, j[REG_SR]), REG_USP, j[REG_USP]),
           REG_SSP, j[REG_SSP])

(* readRegistersJson into a fresh Registers: d[i], a[i] and pc are       *)
(* stored directly, then usp, ssp and sr go through set_ (Registers::set  *)
(* with SIZE_LONG), in that order.                                       *)
readRegistersJson(j) ==
  LET raw == [x \in RegIds |->
                IF x \in {REG_USP, REG_SSP, REG_SR} THEN 0 ELSE j[x]]
  IN  set_(set_(set_(raw, REG_USP, j[REG_USP]), REG_SSP, j[REG_SSP]),
           REG_SR, j[REG_SR])

(* DumpDiff: the data and address registers, usp, ssp and pc compared    *)
(* whole, SR through the mask 0b1111'0111'0001'1111.                     *)
DumpDiffMask == {0, 1, 2, 3, 4, 8, 9, 10, 12, 13, 14, 15}
DumpDiff(lhs, rhs) ==
  \/ \E x \in RegIds \ {REG_SR} : lhs[x] # rhs[x]
  \/ \E b \in DumpDiffMask : Bit(lhs[REG_SR], b) # Bit(rhs[REG_SR], b)

(* fillRamByJson: the listed bytes, then the prefetch bytes at pc .. pc+3 *)
(* over them.                                                            *)
fillRamByJson(m, pc, t) ==
  [a \in DOMAIN m |->
     IF a \in pc .. pc + 3 THEN Prefetch[a - pc + 1]
     ELSE IF a \in DOMAIN t.ram THEN t.ram[a]
     ELSE m[a]]

(* takeRamSnapshot: the current byte at every address the test lists. *)
takeRamSnapshot(m, t) == [a \in DOMAIN t.ram |-> m[a]]

(* readRamSnapshot: the JSON pairs, without those whose value is 0. *)
readRamSnapshot(ram) == [a \in {x \in DOMAIN ram : ram[x] # 0} |-> ram[a]]

(* Mutant: getRamDiff without its second loop. *)
getRamDiffNoRemoved(ram0, ram1) ==
  {<<a, ram1[a]>> : a \in {x \in DOMAIN ram1 :
                             x \notin DOMAIN ram0 \/ ram0[x] # ram1[x]}}

(* getRamDiff: the pairs of ram1 that are new or changed, and the        *)
(* addresses of ram0 missing from ram1 with the value 0.  The vector is   *)
(* sorted and has no two equal pairs, so comparing two diffs is comparing *)
(* sets.                                                                  *)
getRamDiff(ram0, ram1) ==
  {<<a, ram1[a]>> : a \in {x \in DOMAIN ram1 :
                             x \notin DOMAIN ram0 \/ ram0[x] # ram1[x]}}
  \cup {<<a, 0>> : a \in DOMAIN ram0 \ DOMAIN ram1}

Init ==
  /\ mem \in AllocatedMemory
  /\ test = NoTest
  /\ regEffect = None
  /\ ramDiffers = FALSE
  /\ regsDiffers = FALSE

(* WorkOnTest on test t; w and x are what execute does. *)
WorkOnTest(t, w, x) ==
  LET initRegs     == readRegistersJson(t.regs0)
      filled       == fillRamByJson(mem, initRegs[REG_PC], t)
      actualRam0   == takeRamSnapshot(filled, t)
      after        == ApplyWrite(filled, w)
      actualRegs   == ApplyRegWrite(initRegs, x)
      actualRam1   == takeRamSnapshot(after, t)
      expectedRegs == readRegistersJson(t.regs1)
      expectedRam0 == readRamSnapshot(t.ram)
      expectedRam1 == readRamSnapshot(t.final)
  IN  /\ mem' = after
      /\ test' = t
      /\ regEffect' = x
      /\ ramDiffers' = (~t.chk /\ getRamDiff(actualRam0, actualRam1)
                                    # getRamDiff(expectedRam0, expectedRam1))
      /\ regsDiffers' = DumpDiff(expectedRegs, actualRegs)

Next == \E t \in Tests, w \in MemWrites \cup {None}, x \in RegWrites \cup {None} :
          WorkOnTest(t, w, x)

Spec == Init /\ [][Next]_vars

TypeOK ==
  /\ mem \in [AddrSet -> ByteVals]
  /\ test \in Tests \cup {NoTest}
  /\ ramDiffers \in BOOLEAN
  /\ regsDiffers \in BOOLEAN
=============================================================================
