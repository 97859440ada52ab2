------------------------------- MODULE Memory -------------------------------
(***************************************************************************)
(* The memory of the machine while programs write to it: bytes and words,   *)
(* at any address, until a store fails; and the shell that clears it        *)
(* between two programs.                                                    *)
(***************************************************************************)
EXTENDS Integers, Sequences, FiniteSets

CONSTANTS ByteSize, Paragraph, AddressSpace, PrimarySize, PageSize, PageCount, WindowFirst,
          WindowSize,    \* those of MemoryMap
          Segments,      \* segments in use
          HeapRoom       \* pages the heap has room for, at most

INSTANCE MemoryMap

ASSUME MemoryAssumption ==
  /\ ByteSize \in Nat \ {0, 1} /\ Paragraph \in Nat
  /\ AddressSpace \in Nat /\ WordSize <= AddressSpace
  /\ PrimarySize \in Nat /\ PageSize \in Nat \ {0} /\ PageCount \in Nat
  /\ WindowFirst \in Nat /\ WindowSize \in Nat
  /\ MemorySize <= WindowFirst /\ WindowFirst + WindowSize <= AddressSpace
  /\ Segments \subseteq Nat
  /\ HeapRoom \in Nat

VARIABLE memory

ByteValue == 0..ByteSize - 1
Address == 0..AddressSpace - 1

MemoryInit == \E room \in 0..HeapRoom : memory = NewMemory(room)

StoreByte ==
  /\ ~memory.stopped
  /\ \E a \in Address, v \in ByteValue : memory' = Write8(memory, a, v)

StoreWord ==
  /\ ~memory.stopped
  /\ \E a \in Address, word \in 0..WordSize - 1 : memory' = Write16(memory, a, word)

StoreWordSeg ==
  /\ ~memory.stopped
  /\ \E segment \in Segments, offset, word \in 0..WordSize - 1 :
       memory' = Write16Seg(memory, segment, offset, word)

\* mutant of ClearMemory
ClearPrimary == memory' = [memory EXCEPT !.primary = [a \in DOMAIN @ |-> 0], !.stopped = FALSE]

(* d2e_supervisor_launch and enter_shell clear the memory, and loading a    *)
(* program resets the CPU.                                                  *)
ClearMemory ==
  memory' = [NewMemory(memory.room + Cardinality(Freed(memory))) EXCEPT !.vram = memory.vram]

MemoryNext == StoreByte \/ StoreWord \/ StoreWordSeg \/ ClearMemory

MemorySpec == MemoryInit /\ [][MemoryNext]_memory

MemoryTypeOK ==
  /\ memory.primary \in [0..PrimarySize - 1 -> ByteValue]
  /\ \A n \in 0..PageCount - 1 : memory.pages[n] \in {Absent} \cup [0..PageSize - 1 -> ByteValue]
  /\ memory.vram \in [0..WindowSize - 1 -> ByteValue]
  /\ memory.room + Cardinality(Freed(memory)) \in 0..HeapRoom

----------------------------------------------------------------------------
WithMemory == {a \in Address : a < MemorySize \/ IsWindow(a)}

(* The three places together are one memory: pages that come into being on  *)
(* a write, the end of one place in the middle of a word, addresses that    *)
(* wrap and a heap that is full are never seen by a program, except as a    *)
(* stop of the store that needs a page.                                     *)
Plainly == INSTANCE Ram WITH
  ram <- [a \in WithMemory |-> Read8(memory, a)], halted <- memory.stopped,
  Cells <- WithMemory, Kept <- {a \in Address : IsWindow(a)},
  Space <- AddressSpace, Wrap <- WordSize, Byte <- ByteValue

MemoryIsRam == Plainly!RamSpec
=============================================================================
