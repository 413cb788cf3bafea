# TLA+ model of the m68k-emu core

This directory holds TLA+ modules for the Motorola 68000 emulator under `src/`, the TLC configurations that check them, and `PROJECT.json`, which indexes the project:

- components;
- runs;
- mutants;
- the map from each definition to the source lines it translates;
- findings;
- hazards.

## The system

The emulator is a sequential interpreter.

- `CPU::step` (`src/src/cpu.cpp`) reads the 16-bit opcode at PC and looks it up in the `InstructionDecoder` dispatch table. It then calls the decoded instruction's `execute(CPUState&)`.
- `CPUState` (`src/src/cpu_state.cpp`) owns the `Registers` and a reference to an `IMemory`. Its resolvers turn an (addressing mode, register, size) triple into an operand:
  - `getData` reads the operand with its side effects: PC moves past the extension words, and the register auto-increments or auto-decrements.
  - `getDataSilent` reads the same operand without side effects.
  - `setData` writes it, with the side effects.
  - `getControlAddress` computes a jump target.
  - `stackPush` and `stackPop` use A7.
- `Registers` (`src/src/registers.cpp`) is a file of 19 `uint32_t` slots. While the supervisor bit is set, A7 is redirected to SSP. Sized writes replace only the low bits, and SR is masked to 16 bits.
- `BaseMemory` (`src/src/memory.cpp`) masks every address to 24 bits. For an access it throws one of:
  - `length_error` for a word or long at an odd address;
  - `out_of_range` when the access passes the end of the store.
  Values are stored big-endian.
- `load_elf` (`src/src/cpu.cpp`) checks the ELF header, walks the section table, copies every `PT_LOAD`/`SHF_ALLOC` section byte by byte through `memory.set`, then sets USP to `MEMORY_SIZE` and PC to the entry.
- The single-step test runner (`src/test/m68k_full_test/full_m68k_test.cpp`) starts `threadCount` worker threads. Each worker takes the next file index under a mutex, parses the file, and runs each test on a private, reused `TestCpu`: it fills RAM, executes one instruction and compares the RAM and register changes with the expected ones.
- Every family executes the same way. It advances PC by 2, then calls the resolvers in a fixed order. A thrown exception ends the instruction at the failing access, with the earlier register updates kept (spec §7).

There is no concurrency in the core (spec §5). The test runner is written for several workers that share a file queue, but `main` fixes `threadCount = 1` (`full_m68k_test.cpp:382`), so one worker runs. In the core, the hard behaviours are of a different kind:

- the order of accesses inside one instruction;
- partial updates when an access faults;
- read-modify-write operands resolved twice;
- edge values at the operand width (sign bits, carry out of the top bit, the 24-bit bus wrap, the A7 byte rule).

## Modules

| Module | Models | State / operations |
|---|---|---|
| `M68kData` | data widths, `RegisterType`, `StatusRegisterFlag`, `AddressingMode`, the flag macros of `helpers.hpp` | constants and pure operators |
| `Registers` | `registers.hpp`, `registers.cpp` | `RegisterFile` (the class's 19 slots), `RegGet`, `RegSet`, `FlagGet`, `FlagSet` on a register function |
| `Memory` | `memory.hpp`, `memory.cpp` | `MemoryImage` (`BaseMemory`'s bytes), `MemRead`, `MemWrite`, `ReadRealMem`, `WriteRealMem`, `AccessFault` on a state record |
| `CPUState` | `cpu_state.hpp`, `cpu_state.cpp` | `CPUStates` (the class's members as a record), `getData`, `getDataSilent`, `setData`, `getControlAddress`, `stackPush`, `stackPop`, `checkCondition` |
| `Instructions` | constructors and `execute` of clr, neg, sub, subq, cmpi, adda, jsr; rts and illegal (from the spec) | `Clr(op)` … `Illegal(op)`, `ExecClr` … `ExecIllegal`, `Execute` |
| `CPU` | `CPU::step`, the state left by `load_elf` | variables `regs`, `mem`, `fault`, `steps`, `lastIns`; action `Step(ins)` |
| `CPUArch` | the abstract contract of one instruction (spec §4.1–4.4, §7) | same variables; `Execute(ins)` |
| `MC_CPU` | the model-checking instance | initial states, instruction sets, refinement instances, properties |
| `Loader` | `load_elf` on a fresh `CPU` | variables `regs`, `mem`, `mem0`, `elf`, `phase`, `k`, `i`; actions `CheckHeader`, `Reject`, `SkipSection`, `LoadByte` (one iteration of the byte loop), `EndSection`, `Finish` |
| `MC_Loader` | three section tables, header accepted or rejected, three allocation images | `LoadedImage` against a last-writer reference image |
| `TestHarness` | `main`, `WorkOnFile`, the outcome of `WorkOnTest`, `LoadTestFile` | per-thread `pc`, `file`, `nTest`; shared `curIndex`, `totalCount`; actions `TakePath`, `Exit`, `LoadFile`, `ParseThrows`, `RunTest`, `TestThrows`, `EndFile`, `Join` |
| `MC_TestHarness` | one thread (`threadCount = 1`), four files of 0 to 2 tests, failures chosen in `Init` | `AbortedPrefix`, `WorkComplete`, `Termination` |
| `HarnessTest` | `WorkOnTest` with `readRegistersJson`, `fillRamByJson`, `takeRamSnapshot`, `readRamSnapshot`, `getRamDiff`, `DumpDiff` and the CHK override; the `AlignedMemory` of a `TestCpu` | variables `mem`, `test`, `regEffect` (history), `ramDiffers`, `regsDiffers`; action `WorkOnTest(t, w, x)` |
| `MC_HarnessTest` | six bytes, RAM tests over bytes 0..1, register tests across user and supervisor mode | `RamVerdictExact`, `RegsVerdictExact` |

### How the code is translated

A resolver call works on a state record `s = [r |-> registers, m |-> memory, f |-> fault]`. `CPUStates` is the set of these records: `RegisterFile` is the union of `REGS_COUNT` 32-bit words in `class Registers` (the named members, the `d[]`/`a[]` arrays and the `sr` bit-field are views of the same words), and `MemoryImage` is the `memSize` bytes behind `BaseMemory::baseAddr`. `CPU` and `Loader` state their type invariants with these sets.

- Each register or memory access is one operator application (`RegW`, `MemRead`, `MemWrite`), nested in the order the C++ performs them.
- Once `s.f` is a fault, every later operator is the identity. This is how an exception thrown at one access skips the rest of the instruction while keeping the updates already made.
- Operators that return a value return `[s |-> s', v |-> value]`.
- `CPU!Step(ins)` is one `CPU::step`:
  - the opcode fetch (`MemRead` of a word at PC);
  - the whole `execute` of the decoded instruction;
  - the resulting `regs`, `mem` and `fault`.
- A faulted CPU takes no further steps: the exception escapes `step()` and ends the caller's loop.

### What is abstracted

The opcode value at PC is abstracted. The decoder's table has no source in the repository (only `instruction_decoder.hpp`), so any decoded record in the constant `Instrs` may be the instruction at PC. The records are built by the modelled constructors from real 68000 encodings, for example `Clr(\h4227)` is `clr.b -(A7)`. The extension words are read from memory at PC, as the code reads them.

### Scaling

TLC integers are 32-bit signed, so the machine is scaled by the constant `ByteBits`. The runs use `ByteBits = 4`:

| Real width | Scaled width | Real range | Scaled range |
|---|---|---|---|
| byte, 8 bits | 4 bits | 0..255 | 0..15 |
| word, 16 bits | 8 bits | 0..65535 | 0..255 |
| long (`uint32_t`), 32 bits | 16 bits | | |

`uint32_t` arithmetic becomes arithmetic modulo 2^16. The bus has `AddrBits = 9` bits and `MemSize = 2^9`, matching `MEMORY_SIZE = 2^24` for a 24-bit mask.

Everything the properties depend on keeps its position relative to the width:

- sign bits;
- the carry bit just above the operand;
- wrap-around;
- the mask of the bus, which is still wider than a word. This matters because sign-extending and zero-extending an absolute short address then give different addresses.

The brief extension word of the indexed modes keeps its fields relative to the word: top bit An/Dn, the next three bits the register, then the long-index bit, and a signed low-byte displacement. At this width the displacement's sign bit and the size bit overlap. This only changes which index values the model draws.

## The abstract specification and the refinement

`CPUArch` states what one instruction promises, without the resolver's structure:

- Each operand is resolved once from the registers at its extension words. Its extension words are consumed once, and its auto-increment or auto-decrement is applied once.
- A read-modify-write instruction writes where it read.
- A step either:
  - completes, with every access aligned and in range; or
  - faults, because one of its accesses is not. A faulting step leaves memory unchanged, and registers may be partly updated (spec §7).
- The illegal opcode raises a distinguishable fault. `Illegal::execute` has no body under `src/`, so no run executes it: both sides would be spec text.
- Operand values use the spec's semantics: quick data 0 means 8, absolute short is sign-extended, and the condition codes are those of spec §4.4.

`MC_CPU` instantiates the abstract specification twice. `DataArch` maps `regs` through `DataView`, which clears the five condition-code bits, and sets `FlagsModelled <- FALSE`. `FullArch` maps every variable to itself and sets `FlagsModelled <- TRUE`. `DataRefinement == DataArch!Spec` and `FlagRefinement == FullArch!Spec` are checked as `PROPERTIES`.

The abstract `Next` matches the instruction the concrete step executed (`lastIns`), so the refinement is checked instruction by instruction.

## Runs

The `MC_CPU` runs start from 36 initial states:

- PC at the entry point (16);
- USP = MEMORY_SIZE, as `load_elf` leaves it;
- SSP = MEMORY_SIZE / 2;
- D0 = 2^(long bits − 1) + 1, which is 1 as a byte or word and negative as a long;
- A0 ∈ {odd, pointing at the extension words, top of memory};
- SR user or supervisor;
- the two words after the first opcode taken from {0, the most negative word, the most negative word + 1} × {0, 2}.

These are states the test harness (`readRegistersJson`, `fillRamByJson`) and the loader produce.

`MaxSteps = 3` lets a `jsr` be followed by an `rts` or by an instruction that uses the pushed stack. It also lets one instruction read memory another has written. The CPU stops when it faults or reaches the bound, so `CHECK_DEADLOCK` is `FALSE`.

The bounds of the other runs are as follows:
- **`loader`:** a 16-byte memory. The three section tables exercise skipped types, a non-allocated section, an overlap and a wrap past the top of memory. The allocation images are constant 0, 7 or 12, with the constructor's 0 in the last byte.
- **Harness runs:** one thread, because `main` sets `threadCount = 1`. With one thread and a fixed directory there would be one behaviour, so the directory's contents are inputs chosen in `Init`. Every file has 0 to 2 tests, which includes empty files. In `harness_prefix`, file 2 may be unparsable, and either test 2 of file 1 throws or test 1 of files 3 and 4 throws. `harness_termination` has no failures, and `harness_abort` throws at the first test.
- **`harness_test`:** every test over listed bytes 0 and 1 with binary values, plus one CHK test. The prefetch occupies bytes 2..5 at the tests' PC, so the prefetch never overwrites a test byte, as in the test data. `execute` may:
  - write byte 0, 1 or 2, where byte 2 is unlisted and under the prefetch;
  - clear SR to user mode, or write A7.
  There are 16 register tests: every pair of initial and final register sets with USP 0 or 1 in user or supervisor mode.

| Run | Expect | Checks |
|---|---|---|
| `data_refinement` | pass | `StackAligned`, `DataRefinement`, `FaultConfined` on 22 valid encodings covering every addressing mode of the resolvers (Dn, An, (An), (An)+, -(An), (A7)+ and -(A7) byte reads and writes, d16(An), d8(An,Xn), abs.w word write, abs.l, d16(PC), immediate) |
| `flags_refinement` | pass | `ConditionsMatchManual`, `FlagRefinement` on byte and word clr, sub, subq, cmpi plus adda, jsr, rts |
| `long_carry` | violation | `FlagRefinement` for `sub.l D0,(A0)` |
| `neg_overflow` | violation | `FlagRefinement` for `neg.b (A0)` |
| `abs_word_sign_extension` | violation | `DataRefinement` for `jsr abs.w` |
| `subq_eight` | violation | `DataRefinement` for `subq.w #8,(A0)` |
| `loader` | pass | `LoadedImage` (`MC_Loader`, 4-bit address bus) |
| `harness_termination` | pass | `WorkComplete`, `Termination` (one thread, nothing throws) |
| `harness_abort` | violation | `Termination` (one thread, the first test throws) |
| `harness_prefix` | pass | `AbortedPrefix` (one thread, failures chosen in `Init`) |
| `harness_test` | pass | `RamVerdictExact`, `RegsVerdictExact` |

### Passing runs

`data_refinement` shows that, apart from the condition codes and the cases of the findings, the resolver's structure is equivalent to resolving each operand once. This covers:

- reading the destination silently and then writing it through `setData`;
- re-reading extension words;
- the A7 byte rule in all five places: `cmpi.b #,(A7)+` reads through getData's post-increment (`:122`), `sub.b -(A7),D0` through its pre-decrement (`:130`), `neg.b -(A7)` through getDataSilent (`:234`) and setData (`:335`), and `clr.b (A7)+` writes through setData's post-increment (`:326`);
- the order of PC updates against accesses.

It also shows that no fault ever leaves memory changed, in user and supervisor mode. This includes misaligned and out-of-range operands, stack pushes, and `clr.w` to an odd absolute short address, whose write `setData` makes before it advances PC (`:393`). Where that fault leaves PC is not checked: spec §7 accepts any partial register update.

`data_refinement` also checks `FaultConfined`. A faulting step may leave changed only:
- PC;
- the address register of a post-increment or pre-decrement operand;
- for `jsr`, the stack pointer lowered by `stackPush`.
Every family writes its result and sets its flags after the last access that can throw, and `rts` moves SP only after the pop has read. So the partial update that spec §7 allows never reaches a data register, SR, the other stack pointer or an unrelated address register.

`flags_refinement` shows that the flag updates are those of dest − src at the operand width for byte and word sizes. It also checks `ConditionsMatchManual`: on every flag state those instructions reach, `checkCondition` agrees with the 68000 condition table. That table is written in MC_CPU as the eight base conditions and their negations.

`loader` shows that after `load_elf` returns true, memory is the allocation image with every SHT_PROGBITS section that has SHF_ALLOC written over it in table order. The reference states this in ELF terms and takes byte addresses modulo `MEMORY_SIZE`, rather than reusing `load_elf`'s own test and `MASK_ADDR`. Three effects are checked:
- a section past the top of memory wraps to address 0;
- a later section overwrites an earlier one;
- `.bss` and `.init_array` are never written, so they keep the indeterminate bytes of `new uint8_t[]`.
After a rejected header, memory is untouched. The reference image is defined by "last writer wins" rather than by a loop.

`harness_termination` shows that when nothing throws, the worker eventually returns and `main` joins. By then every test of every accepted file has run exactly once.

`harness_prefix` shows what a crashed run leaves: once an uncaught exception has ended the process, the tests that ran are exactly those before the first failure in path and test order. The failure is `json::parse` at `:190` or `execute` at `:266`. So the logs of a crashed run cover a prefix of the suite.

`harness_test` runs test after test on one memory. The memory starts arbitrary, as `aligned_alloc` leaves it, except that the last byte is zeroed by `BaseMemory`'s constructor. `execute` writes any one byte and sets any one register, or does nothing. The run checks two verdicts:
- **RAM:** outside CHK tests, the RAM verdict is set exactly when some listed byte differs from its expected final value. This holds although the expected snapshots drop zero bytes and the actual ones keep them, and although unlisted bytes carry over from earlier tests.
- **Registers:** the register verdict is set exactly when the emulator's registers, started from the test's initial values, differ from the expected ones in a register or a defined SR bit. This holds because `readRegistersJson` writes USP before SR on a fresh `Registers`. Writing SR first would send a supervisor test's USP to SSP, because `REG_USP` is `REG_A7`.

### Violation runs and what they show

The five violation runs each show a disagreement between the code and the spec. They are listed in `PROJECT.json` under `findings`:

- **`long_carry`:** the long carry is lost, because the subtraction wraps at 32 bits before it is widened to `uint64_t`. This affects `sub.cpp:61`, `neg.cpp:47` and `cmpi.cpp:47`.
- **`neg_overflow`:** neg passes its overflow arguments in sub's order (`neg.cpp:54`).
- **`abs_word_sign_extension`:** `getData` and `getControlAddress` zero-extend absolute short, while `getDataSilent` and `setData` sign-extend it.
- **`subq_eight`:** `subq` keeps quick data 0 as 0.
- **`harness_abort`:** a memory fault thrown by `execute` (`full_m68k_test.cpp:266`) is caught nowhere in the worker. `std::terminate` ends the process, so one faulting test stops the whole run and `main` never joins.

### Mutants

Each property of a passing run is broken by a plausible bug in the code it covers:

| Property | Mutated definition | Bug introduced |
|---|---|---|
| `StackAligned` | `StepSize` | no A7 rule |
| `DataRefinement` | `ExecJsr` | pushes the PC read before the target is resolved |
| `FlagRefinement` | `SubFlags` | never writes X |
| `FaultConfined` | `ExecClr` | sets the flags before the write |
| `ConditionsMatchManual` | `checkCondition` | GT without the Z test |
| `LoadedImage` | `LoadByte` | writes each byte one address too far |
| `AbortedPrefix` | `NextRunnable` | the skip loop starts one past `curIndex` |
| `WorkComplete` | `EndFile` | the test loop ends one test early |
| `Termination` | `Exit` | `continue` instead of `return` when the queue is empty |
| `RamVerdictExact` | `getRamDiff` | without its second loop (bytes that became 0) |
| `RegsVerdictExact` | `readRegistersJson` | sets SR before USP and SSP |

## Fairness

The core is a synchronous interpreter driven by the caller's loop, so no liveness is checked of it.

`TestHarness` has weak fairness on the thread's step (`WF_vars(ThreadStep(t))`) and on `Join`. The workers are OS threads, and the scheduler eventually runs a runnable thread. The mutex is held only inside `TakePath`/`Exit`, which are single steps, so a waiting thread's step stays continuously enabled. Weak fairness is therefore enough, and strong fairness is not assumed. `CHECK_DEADLOCK` is `FALSE` in the harness runs because the process really stops after the join or after `std::terminate`.

## Not modelled

- **The decoder table.** `generateOpcodeTable` and `Decode` have no source. Table totality and family overlap (spec §8, §9) would have to be modelled from the spec.
- **`debugPrint` and the loader's printout.** These are output only.
- **Disassembly.** Each `disassembly` method advances the CPU's real PC and then calls `DISASSEMBLER::effectiveAddress`, which has no source in the repository. Its effect on the state cannot be translated, and nothing calls `disassembly()`.
- **ELF parsing.** It is an external library (ELFIO). A file is a record of its header verdict, entry and section table.
- **addq, addi, addx, move, moveq.** Their headers exist, but no execute is under `src/`.
- **The harness's file I/O:** the directory scan (the files become sorted indices), the `logs` directory and the log output. `TestHarness` abstracts `WorkOnTest` to whether it returns or throws. `HarnessTest` models `WorkOnTest` itself.
- **Allocation failure.** `BaseMemory`'s constructor tests `baseAddr || memSize`, so a null allocation would be written through. This is recorded as a hazard.
- **Invalid encodings.** `is_valid` is computed but never read. The runs use valid encodings only, because whether invalid records reach the table depends on the missing decoder source.
- **The width of `adda.w`.** `Adda::execute` adds the zero-extended low words and writes the sum with `setData` at `SIZE_WORD`, so the upper half of An is kept and a carry out of the low word is lost. The 68000 sign-extends the source and writes all of An. Spec §4.4 states the sign-extension rule only for the move-address form and says nothing about adda's width. `CPUArch` therefore follows the code, and no run can tell the two apart. The case is listed as a hazard (`adda.cpp:45`). The harness's hardware test vectors are what would expose it.
- **Loader and CPU composed.** `Loader` ends in USP = `MEMORY_SIZE`, user mode (SR = 0), PC = entry and the loaded image. `MC_CPU`'s user-mode initial states have the same USP, SR and PC. They differ in D0, A0 and SSP, which take values chosen to reach the flag and fault cases, instead of the loader's zeros. Starting the CPU from `Loader`'s final states would add no new behaviour to what `MC_CPU` checks. It would also multiply the state space by the section tables, which the CPU never reads as such.
- **Several workers.** The lambda is written for `threadCount` workers, but `main` sets it to 1 (the 10 is commented out), and the runs use what the code runs. `TestHarness` keeps `Threads` a parameter. The mutex section is one atomic step of the model, so with several workers a handout race could not appear in it in any case.
- **Uninitialised memory in the CPU runs.** `MC_CPU` starts from images in which unloaded bytes are 0. `Loader` and `HarnessTest` do model indeterminate bytes.

## Plan for later work

1. A decoder module, once `generateOpcodeTable` is in the repository. The constructors do not check an opcode's fixed bits, so overlap between families is decided only by the table's ranges.
2. Long-size flags once the carry bug is decided, and neg in the flags run.
3. If the spec settles adda's operand width (sign-extended word source, whole An written), add it to `CPUArch`. A violation run would then record `adda.cpp:45`.
