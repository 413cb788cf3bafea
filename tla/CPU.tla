--------------------------------- MODULE CPU ---------------------------------
(***************************************************************************)
(* The execution cycle (CPU::step): read the 16-bit opcode at PC, look it  *)
(* up in the decoder and execute the instruction against the register     *)
(* file and memory.  An exception thrown by a memory access ends the      *)
(* instruction at that access and escapes step(); the caller's loop stops  *)
(* there, so a faulted CPU takes no further steps.                         *)
(*                                                                         *)
(* The opcode value is abstracted: any decoded instruction of Instrs may   *)
(* sit at PC (its extension words are the memory after it).  Init is the  *)
(* state load_elf leaves: the image in memory, PC at the entry point and  *)
(* the user stack pointer at MEMORY_SIZE.                                  *)
(***************************************************************************)
EXTENDS Instructions

CONSTANTS
  Instrs,      \* decoded instructions the program may contain
  InitRegs,    \* register files the loader may leave
  InitMems,    \* memory images the loader may leave
  MaxSteps     \* bound on the number of step() calls

VARIABLES
  regs,        \* Registers::reg_buffer
  mem,         \* the bytes of BaseMemory
  fault,       \* the exception step() threw, or NoFault
  steps,       \* step() calls made (bounded by MaxSteps)
  lastIns      \* the instruction the last step executed (history)

vars == <<regs, mem, fault, steps, lastIns>>

NoInstr == Decoded("none", 0, ADDR_MODE_UNKNOWN, REG_D0, ADDR_MODE_UNKNOWN,
                   REG_D0, 0, 0, FALSE)

Init ==
  /\ regs \in InitRegs
  /\ mem \in InitMems
  /\ fault = NoFault
  /\ steps = 0
  /\ lastIns = NoInstr

(* CPU::step with the instruction ins decoded from the opcode at PC. *)
Step(ins) ==
  /\ fault = NoFault
  /\ steps < MaxSteps
  /\ LET s0    == [r |-> regs, m |-> mem, f |-> NoFault]
         fetch == MemRead(s0, RegGet(regs, REG_PC, SIZE_LONG), SIZE_WORD)
         s1    == Execute(ins, fetch.s)
     IN /\ regs' = s1.r
        /\ mem' = s1.m
        /\ fault' = s1.f
  /\ steps' = steps + 1
  /\ lastIns' = ins

Next == \E ins \in Instrs : Step(ins)

Spec == Init /\ [][Next]_vars

TypeOK ==
  /\ [r |-> regs, m |-> mem, f |-> fault] \in CPUStates
  /\ regs[REG_SR] < 2 ^ 16
  /\ steps \in 0 .. MaxSteps
  /\ lastIns \in Instrs \cup {NoInstr}
=============================================================================
