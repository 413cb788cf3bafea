------------------------------- MODULE Memory -------------------------------
(***************************************************************************)
(* Addressable memory (class BaseMemory): a byte array of MemSize bytes.   *)
(* get/set mask the address to the bus width, throw std::length_error for  *)
(* a word or long at an odd address and std::out_of_range when the access  *)
(* does not fit, and store values big-endian.                              *)
(*                                                                         *)
(* An access works on a state record s = [r |-> registers, m |-> memory,   *)
(* f |-> fault].  A thrown exception is s.f # NoFault; every operator is   *)
(* the identity on a state that has already faulted, because the throw     *)
(* ends the instruction at the failing access.                             *)
(***************************************************************************)
EXTENDS M68kData, FiniteSetsExt

CONSTANTS
  MemSize,        \* MEMORY_SIZE, the length of the backing store
  NoFault,        \* no exception was thrown
  AlignFault,     \* std::length_error("Memory address must be even.")
  BoundsFault     \* std::out_of_range("Memory address out of range. ...")

Addrs == 0 .. (MemSize - 1)
Faults == {AlignFault, BoundsFault}

(* class BaseMemory: baseAddr points at memSize bytes. *)
MemoryImage == [Addrs -> Bytes]

Ok(s) == s.f = NoFault

(* IMemory::read_real_mem: big-endian composition of size bytes. *)
ReadRealMem(m, a, size) ==
  MapThenSumSet(LAMBDA i : m[a + i] * 2 ^ (ByteBits * (size - 1 - i)),
                0 .. (size - 1))

(* Byte k (0 = most significant) of a size-byte value. *)
ByteOfValue(data, size, k) == (data \div 2 ^ (ByteBits * (size - 1 - k))) % 2 ^ ByteBits

(* Mutant: the bytes are not cut to 8 bits (the MASK_8 casts dropped). *)
WriteRealMemNoMask(m, a, size, data) ==
  CASE size = SIZE_BYTE -> [m EXCEPT ![a] = data]
    [] size = SIZE_WORD -> [m EXCEPT ![a] = data \div 2 ^ ByteBits,
                                     ![a + 1] = ByteOfValue(data, size, 1)]
    [] OTHER -> [m EXCEPT ![a] = data \div 2 ^ (3 * ByteBits),
                          ![a + 1] = ByteOfValue(data, size, 1),
                          ![a + 2] = ByteOfValue(data, size, 2),
                          ![a + 3] = ByteOfValue(data, size, 3)]

(* IMemory::write_real_mem: the switch on the size, most significant *)
(* byte first.                                                       *)
WriteRealMem(m, a, size, data) ==
  CASE size = SIZE_BYTE -> [m EXCEPT ![a] = ByteOfValue(data, size, 0)]
    [] size = SIZE_WORD -> [m EXCEPT ![a] = ByteOfValue(data, size, 0),
                                     ![a + 1] = ByteOfValue(data, size, 1)]
    [] OTHER -> [m EXCEPT ![a] = ByteOfValue(data, size, 0),
                          ![a + 1] = ByteOfValue(data, size, 1),
                          ![a + 2] = ByteOfValue(data, size, 2),
                          ![a + 3] = ByteOfValue(data, size, 3)]

(* The exception get and set throw for an access, or NoFault. *)
AccessFault(address, size) ==
  LET a == MASK_ADDR(address)
  IN CASE size # SIZE_BYTE /\ a % 2 # 0 -> AlignFault
       [] a + size > MemSize             -> BoundsFault
       [] OTHER                          -> NoFault

(* BaseMemory::get: [s |-> state after the call, v |-> value read]. *)
MemRead(s, address, size) ==
  LET e == AccessFault(address, size)
  IN IF ~Ok(s) THEN [s |-> s, v |-> 0]
     ELSE IF e # NoFault THEN [s |-> [s EXCEPT !.f = e], v |-> 0]
     ELSE [s |-> s, v |-> ReadRealMem(s.m, MASK_ADDR(address), size)]

(* BaseMemory::set *)
MemWrite(s, address, size, data) ==
  LET e == AccessFault(address, size)
  IN IF ~Ok(s) THEN s
     ELSE IF e # NoFault THEN [s EXCEPT !.f = e]
     ELSE [s EXCEPT !.m = WriteRealMem(s.m, MASK_ADDR(address), size, data)]
=============================================================================
