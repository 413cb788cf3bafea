---------------------------- MODULE MC_HarnessTest ----------------------------
(***************************************************************************)
(* Model-checking instance of HarnessTest: six bytes of memory holding 0  *)
(* or 1, the prefetch at PC = 2 (bytes 2 .. 5), and two kinds of test.    *)
(* RAM tests list a non-empty subset of bytes 0 .. 1 with any initial and *)
(* final values (in user mode, registers unchanged), and one of them is   *)
(* named CHK.  Register tests list no RAM and go between user and         *)
(* supervisor mode with USP 0 or 1 and SSP 0.  As in the SingleStepTests  *)
(* data, a test's final RAM lists the same addresses as its initial RAM.  *)
(***************************************************************************)
EXTENDS HarnessTest, TLC

MCAddrSet == 0 .. 5
MCByteVals == {0, 1}
MCPrefetch == <<1, 0, 0, 1>>
SupervisorSR == 2 ^ SR_FLAG_SUPERVISOR

(* A JSON register set: PC 2, USP usp, SR sr, everything else 0. *)
RegJson(usp, sr) ==
  [x \in RegIds |-> CASE x = REG_PC  -> 2
                      [] x = REG_USP -> usp
                      [] x = REG_SR  -> sr
                      [] OTHER       -> 0]
MCRegJsons == {RegJson(u, sr) : u \in {0, 1}, sr \in {0, SupervisorSR}}

MCRamTests ==
  UNION { { [chk |-> FALSE, ram |-> r, final |-> f,
             regs0 |-> RegJson(0, 0), regs1 |-> RegJson(0, 0)] :
              r \in [L -> MCByteVals], f \in [L -> MCByteVals] }
          : L \in SUBSET (0 .. 1) \ {{}} }
MCChkTest == [chk |-> TRUE, ram |-> (0 :> 1), final |-> (0 :> 0),
              regs0 |-> RegJson(0, 0), regs1 |-> RegJson(0, 0)]
MCRegTests ==
  { [chk |-> FALSE, ram |-> <<>>, final |-> <<>>, regs0 |-> j0, regs1 |-> j1] :
      j0 \in MCRegJsons, j1 \in MCRegJsons }
MCTests == MCRamTests \cup {MCChkTest} \cup MCRegTests

(* execute writes a listed byte or byte 2, unlisted and under the        *)
(* prefetch; or it leaves SR in user mode, or writes A7.                 *)
MCMemWrites == {0, 1, 2} \X MCByteVals
MCRegWrites == {<<REG_SR, 0>>, <<REG_A7, 1>>}

(* Unless the test is named CHK, the harness reports RAM differences     *)
(* exactly when, after execute, some listed byte differs from the test's  *)
(* final value: whatever earlier tests and the allocator left in the      *)
(* reused memory, and although the expected snapshots drop zero bytes     *)
(* while the actual ones keep them.                                       *)
RamVerdictExact ==
  (test # NoTest /\ ~test.chk) =>
    (ramDiffers <=> \E a \in DOMAIN test.final : mem[a] # test.final[a])

(* The SR bits the 68000 defines: T1 T0 S M, I2 I1 I0, X N Z V C. *)
ArchSRBits == {15, 14, 13, 12, 10, 9, 8} \cup CCRFlags

(* The register verdict is exact: the harness reports a register         *)
(* difference exactly when the emulator, started from the test's         *)
(* initial registers and making its write, ends with a register or a     *)
(* defined SR bit other than the test's final value.  This needs          *)
(* readRegistersJson to store USP and SSP in their own slots although     *)
(* REG_USP is REG_A7, which Registers::set redirects in supervisor mode.  *)
RegsVerdictExact ==
  test # NoTest =>
    LET actual == ApplyRegWrite(test.regs0, regEffect)
    IN  regsDiffers <=>
          \/ \E x \in RegIds \ {REG_SR} : actual[x] # test.regs1[x]
          \/ \E b \in ArchSRBits :
               Bit(actual[REG_SR], b) # Bit(test.regs1[REG_SR], b)
=============================================================================
