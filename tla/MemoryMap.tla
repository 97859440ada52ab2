----------------------------- MODULE MemoryMap -----------------------------
(***************************************************************************)
(* x86_memory.c: the address space of the program, over memory in three     *)
(* places: an array for the first part, pages that the shell allocates on   *)
(* the first write to one (d2e_shell_main.c), and the video memory.         *)
(***************************************************************************)
EXTENDS Integers, Sequences

CONSTANTS ByteSize,      \* 2^8; a word is two bytes, also of a segment
          Paragraph,     \* 16: bytes from one segment to the next
          AddressSpace,  \* 2^20, behind which addresses wrap
          PrimarySize,   \* primary_memory_size
          PageSize,      \* D2E_EXTENDED_PAGE_BYTES
          PageCount,     \* D2E_EXTENDED_PAGE_COUNT
          WindowFirst, WindowSize  \* the CGA at B8000h

WordSize == ByteSize * ByteSize
MemorySize == PrimarySize + PageSize * PageCount
Absent == << >>          \* a page that is not allocated
Floating == ByteSize - 1 \* what a read finds where there is no memory

(* The pages that the heap still has room for are part of the memory.       *)
ZeroPage == [x \in 0..PageSize - 1 |-> 0]
NewMemory(room) ==
  [primary |-> [a \in 0..PrimarySize - 1 |-> 0],
   pages |-> [n \in 0..PageCount - 1 |-> Absent], room |-> room,
   vram |-> [x \in 0..WindowSize - 1 |-> 0], stopped |-> FALSE]

Wrapped(address) == address % AddressSpace
Linear(segment, offset) == Wrapped(segment * Paragraph + offset)
IsExtended(a) == a >= PrimarySize /\ a < MemorySize
IsWindow(a) == a >= WindowFirst /\ a < WindowFirst + WindowSize

(* d2e_x86_read8, resolve_read and read_extended_conventional.              *)
ReadPage(page, x) == IF page = Absent THEN 0 ELSE page[x]
Read8(mem, address) ==
  LET a == Wrapped(address)
      x == a - PrimarySize
  IN  IF IsExtended(a) THEN ReadPage(mem.pages[x \div PageSize], x % PageSize)
      ELSE IF IsWindow(a) THEN mem.vram[a - WindowFirst]
      ELSE IF a < PrimarySize THEN mem.primary[a]
      ELSE Floating

(* write_extended_conventional: the page is allocated full of zeros, if the *)
(* heap has one; otherwise the program stops.                               *)
Stopped(mem) == [mem EXCEPT !.stopped = TRUE]
WritePage(mem, n, x, byte) ==
  IF mem.pages[n] # Absent THEN [mem EXCEPT !.pages[n] = [@ EXCEPT ![x] = byte]]
  ELSE IF mem.room = 0 THEN Stopped(mem)
  ELSE [mem EXCEPT !.pages[n] = [ZeroPage EXCEPT ![x] = byte], !.room = @ - 1]

(* d2e_x86_write8.                                                          *)
Write8(mem, address, byte) ==
  LET a == Wrapped(address)
      x == a - PrimarySize
  IN  IF IsExtended(a) THEN WritePage(mem, x \div PageSize, x % PageSize, byte)
      ELSE IF IsWindow(a) THEN [mem EXCEPT !.vram[a - WindowFirst] = byte]
      ELSE IF a < PrimarySize THEN [mem EXCEPT !.primary[a] = byte]
      ELSE Stopped(mem)

(* Words, at an address and in a segment, at whose end they wrap.           *)
LowByte(word) == word % ByteSize
HighByte(word) == word \div ByteSize
Read16(mem, a) == Read8(mem, a) + ByteSize * Read8(mem, a + 1)
Write16(mem, a, word) == Write8(Write8(mem, a, LowByte(word)), a + 1, HighByte(word))
NextOffset(offset) == (offset + 1) % WordSize
Read16Seg(mem, segment, offset) ==
  Read8(mem, Linear(segment, offset)) + ByteSize * Read8(mem, Linear(segment, NextOffset(offset)))
Write16Seg(mem, segment, offset, word) ==
  Write8(Write8(mem, Linear(segment, offset), LowByte(word)),
         Linear(segment, NextOffset(offset)), HighByte(word))

(* d2e_x86_clear_memory: pages go back to the heap, video memory stays.     *)
Freed(mem) == {n \in 0..PageCount - 1 : mem.pages[n] # Absent}
=============================================================================
