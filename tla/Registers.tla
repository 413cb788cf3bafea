------------------------------ MODULE Registers ------------------------------
(***************************************************************************)
(* The register file (class Registers): 19 uint32_t slots indexed by       *)
(* RegisterType.  A7 is the user stack pointer; while the supervisor bit   *)
(* of SR is set, reads and writes of A7 are redirected to SSP.  Sized      *)
(* writes replace only the low bits; writes of SR keep 16 bits.  The       *)
(* operators take the register function r and return a value or a new    *)
(* register function.                                                      *)
(***************************************************************************)
EXTENDS M68kData

(* class Registers: the union of REGS_COUNT uint32_t slots (reg_buffer),  *)
(* value-initialised to zero.  The named members, the d[]/a[] arrays and  *)
(* the sr bit-field struct are views of the same words, so the file is a  *)
(* function from RegisterType to 32-bit values.                           *)
RegisterFile == [RegIds -> Longs]

(* sr.supervisor: bit 13 of the status register. *)
Supervisor(r) == Bit(r[REG_SR], SR_FLAG_SUPERVISOR)

(* The slot a RegisterType names after the A7/SSP redirection. *)
Slot(r, reg) == IF reg = REG_A7 /\ Supervisor(r) THEN REG_SSP ELSE reg

(* Registers::get *)
RegGet(r, reg, size) == MASK(r[Slot(r, reg)], size)

(* Registers::set: MASK_ABOVE_n(old) | MASK_n(data), SR masked to 16 bits. *)
RegSet(r, reg, size, data) ==
  LET slot == Slot(r, reg)
      old  == r[slot]
      new  == (old - MASK(old, size)) + MASK(data, size)
  IN [r EXCEPT ![slot] = IF slot = REG_SR THEN new % 2 ^ 16 ELSE new]

(* Registers::get(StatusRegisterFlag) *)
FlagGet(r, flag) == Bit(r[REG_SR], flag)

(* Registers::set(StatusRegisterFlag, bool): clear the bit, then set it. *)
FlagSet(r, flag, value) ==
  LET cleared == r[REG_SR] - (IF FlagGet(r, flag) THEN 2 ^ flag ELSE 0)
  IN [r EXCEPT ![REG_SR] = cleared + (IF value THEN 2 ^ flag ELSE 0)]
=============================================================================
