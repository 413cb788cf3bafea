------------------------------- MODULE Loader -------------------------------
(***************************************************************************)
(* load_elf (src/src/cpu.cpp) on a freshly constructed CPU.               *)
(*                                                                         *)
(* The CPU's SimpleMemory comes from new uint8_t[MEMORY_SIZE], which      *)
(* leaves the bytes indeterminate; the BaseMemory constructor writes 0 to *)
(* the last byte only.  The Registers are value-initialised to zero.      *)
(* load_elf returns false if the file does not load or its header is not  *)
(* 32-bit, big-endian, ET_EXEC, EM_68K.  Otherwise it walks the SECTION   *)
(* table in order, and for each section whose type equals PT_LOAD (the    *)
(* value 1, which as a section type is SHT_PROGBITS) and whose flags have  *)
(* SHF_ALLOC it writes the section's bytes one at a time with              *)
(* memory.set(base + i, SIZE_BYTE, data[i]).  Finally it sets USP to      *)
(* MEMORY_SIZE and PC to the entry address.  The section-table printout   *)
(* is output only and left out.                                           *)
(***************************************************************************)
EXTENDS Registers, Memory, Sequences

CONSTANTS
  ElfFiles,          \* the files: [ok, entry, sections] records
  AllocatedImages    \* byte images new uint8_t[] may leave (see Init)

PT_LOAD == 1         \* ELFIO::PT_LOAD, compared with a section type
SHF_ALLOC == 2       \* ELFIO::SHF_ALLOC

VARIABLES
  regs,      \* cpu->state.registers
  mem,       \* the bytes of cpu->memory
  mem0,      \* the bytes the allocation left (history, never changed)
  elf,       \* the file being loaded
  phase,     \* "header", "sections", "done" (true) or "rejected" (false)
  k,         \* the section the loop is at
  i          \* the byte of section k the inner loop is at

vars == <<regs, mem, mem0, elf, phase, k, i>>

Init ==
  /\ regs = [x \in RegIds |-> 0]
  /\ mem \in AllocatedImages
  /\ mem0 = mem
  /\ elf \in ElfFiles
  /\ phase = "header"
  /\ k = 1
  /\ i = 0

(* The test of line 55: the section type against PT_LOAD, the flags     *)
(* against SHF_ALLOC.                                                    *)
Loadable(sec) == sec.type = PT_LOAD /\ (sec.flags \div SHF_ALLOC) % 2 = 1

(* elf_reader.load and the four header checks pass. *)
CheckHeader ==
  /\ phase = "header"
  /\ elf.ok
  /\ phase' = "sections"
  /\ UNCHANGED <<regs, mem, mem0, elf, k, i>>

(* A header check fails: return false with nothing written. *)
Reject ==
  /\ phase = "header"
  /\ ~elf.ok
  /\ phase' = "rejected"
  /\ UNCHANGED <<regs, mem, mem0, elf, k, i>>

(* A section the test of line 55 rejects. *)
SkipSection ==
  /\ phase = "sections"
  /\ k <= Len(elf.sections)
  /\ ~Loadable(elf.sections[k])
  /\ k' = k + 1
  /\ UNCHANGED <<regs, mem, mem0, elf, phase, i>>

(* Mutant: the byte is written one address too far. *)
LoadByteOffByOne ==
  /\ phase = "sections"
  /\ k <= Len(elf.sections)
  /\ Loadable(elf.sections[k])
  /\ i < Len(elf.sections[k].data)
  /\ LET sec == elf.sections[k]
         s   == [r |-> regs, m |-> mem, f |-> NoFault]
     IN  mem' = MemWrite(s, U32(sec.addr + i + 1), SIZE_BYTE, sec.data[i + 1]).m
  /\ i' = i + 1
  /\ UNCHANGED <<regs, mem0, elf, phase, k>>

(* One iteration of the inner loop: address = base_address + i (uint32), *)
(* memory.set of one byte, which masks the address and never throws.     *)
LoadByte ==
  /\ phase = "sections"
  /\ k <= Len(elf.sections)
  /\ Loadable(elf.sections[k])
  /\ i < Len(elf.sections[k].data)
  /\ LET sec == elf.sections[k]
         s   == [r |-> regs, m |-> mem, f |-> NoFault]
     IN  mem' = MemWrite(s, U32(sec.addr + i), SIZE_BYTE, sec.data[i + 1]).m
  /\ i' = i + 1
  /\ UNCHANGED <<regs, mem0, elf, phase, k>>

(* The inner loop of a loaded section ends. *)
EndSection ==
  /\ phase = "sections"
  /\ k <= Len(elf.sections)
  /\ Loadable(elf.sections[k])
  /\ i = Len(elf.sections[k].data)
  /\ k' = k + 1
  /\ i' = 0
  /\ UNCHANGED <<regs, mem, mem0, elf, phase>>

(* After the section loop: USP = MEMORY_SIZE, PC = entry, return true.  *)
Finish ==
  /\ phase = "sections"
  /\ k > Len(elf.sections)
  /\ regs' = RegSet(RegSet(regs, REG_USP, SIZE_LONG, MemSize),
                    REG_PC, SIZE_LONG, elf.entry)
  /\ phase' = "done"
  /\ UNCHANGED <<mem, mem0, elf, k, i>>

Next ==
  \/ CheckHeader \/ Reject \/ SkipSection \/ LoadByte \/ EndSection
  \/ Finish

Spec == Init /\ [][Next]_vars

TypeOK ==
  /\ regs \in RegisterFile
  /\ mem \in MemoryImage
  /\ phase \in {"header", "sections", "done", "rejected"}
  /\ k \in 1 .. Len(elf.sections) + 1
  /\ i \in 0 .. MemSize
=============================================================================
