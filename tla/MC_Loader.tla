------------------------------ MODULE MC_Loader ------------------------------
(***************************************************************************)
(* Model-checking instance of Loader: 16 bytes of memory (AddrBits = 4),  *)
(* and section tables with text and data sections, a .bss (SHT_NOBITS),   *)
(* a non-allocated section, an .init_array (SHT_INIT_ARRAY), overlapping  *)
(* sections and a section that runs past the top of memory.               *)
(***************************************************************************)
EXTENDS Loader

(* Section records: ELF type, flags, address and bytes. *)
Sec(type, flags, addr, data) ==
  [type |-> type, flags |-> flags, addr |-> addr, data |-> data]

SHT_PROGBITS == 1
SHT_NOBITS == 8
SHT_INIT_ARRAY == 14

MCTables ==
  { << Sec(SHT_PROGBITS, 6, 2, <<1, 2, 3>>),         \* .text, ALLOC|EXEC
       Sec(SHT_NOBITS, 3, 5, <<>>),                   \* .bss
       Sec(SHT_PROGBITS, 3, 15, <<4, 5>>) >>,         \* .data, wraps to 0
    << Sec(SHT_PROGBITS, 2, 3, <<6, 7>>),             \* .rodata
       Sec(SHT_PROGBITS, 0, 0, <<8>>),                \* .comment
       Sec(SHT_INIT_ARRAY, 3, 8, <<9>>),              \* .init_array
       Sec(SHT_PROGBITS, 3, 4, <<10, 11>>) >>,        \* .data over .rodata
    << Sec(SHT_PROGBITS, 6, 13, <<1, 2, 3, 4, 5>>),    \* .text across the top
       Sec(SHT_PROGBITS, 3, 1, <<14>>) >> }            \* .data over its tail

MCElfFiles ==
  { [ok |-> ok, entry |-> 2, sections |-> t] : ok \in BOOLEAN, t \in MCTables }

(* What new uint8_t[MEMORY_SIZE] may leave, with the constructor's 0 in *)
(* the last byte: zeros, or garbage.                                      *)
MCAllocatedImages ==
  { [a \in Addrs |-> IF a = MemSize - 1 THEN 0 ELSE g] : g \in {0, 7, 12} }

(* The sections whose bytes the image holds, stated in ELF terms and not *)
(* through load_elf's test: sections with contents in the file            *)
(* (SHT_PROGBITS) that occupy memory (SHF_ALLOC, the flag of value 2).    *)
(* .bss, .init_array and non-allocated sections are not in it.            *)
InImage(sec) == sec.type = SHT_PROGBITS /\ sec.flags % 4 \in {2, 3}

(* The section (and offset) whose byte is the last one written at a,    *)
(* or <<0, 0>> when no section of the image covers a.  A byte beyond the *)
(* top of memory lands at its address modulo MemSize (spec 3: the bus    *)
(* address is masked).                                                   *)
LastWriter(secs, a) ==
  LET W == { <<n, j>> \in (1 .. Len(secs)) \X (1 .. MemSize) :
               /\ InImage(secs[n])
               /\ j <= Len(secs[n].data)
               /\ (secs[n].addr + j - 1) % MemSize = a }
  IN  IF W = {} THEN <<0, 0>>
      ELSE CHOOSE w \in W : \A v \in W : v[1] <= w[1]

(* The reference image: each byte of a loaded section at its address     *)
(* modulo the bus, a later section over an earlier one, the allocator's  *)
(* bytes everywhere else.                                                 *)
ImageRef(m0, secs) ==
  [a \in Addrs |-> LET w == LastWriter(secs, a)
                   IN  IF w = <<0, 0>> THEN m0[a]
                       ELSE secs[w[1]].data[w[2]]]

(* When load_elf returns true, memory is the reference image of the      *)
(* file's loaded sections over what the allocation left, PC is the entry *)
(* and USP is MEMORY_SIZE; when it returns false, nothing was written.   *)
LoadedImage ==
  /\ phase = "done" =>
       /\ mem = ImageRef(mem0, elf.sections)
       /\ RegGet(regs, REG_PC, SIZE_LONG) = elf.entry
       /\ RegGet(regs, REG_USP, SIZE_LONG) = MemSize
  /\ phase = "rejected" => mem = mem0
=============================================================================
