------------------------------- MODULE Loader -------------------------------
(***************************************************************************)
(* native_runtime.c: d2e_native_load puts a COM or an MZ program into the   *)
(* memory, from an image or from the fragments that are not zero, behind a  *)
(* PSP; and what the memory and the registers should be then.               *)
(***************************************************************************)
EXTENDS MemoryMap, FiniteSets, SequencesExt

CONSTANT PspSize   \* 100h, a number of paragraphs

PspParagraphs == PspSize \div Paragraph
ExitCall == <<ByteSize - 1, ByteSize - 2>>   \* INT 20h
NoImage == [bytes |-> << >>, given |-> FALSE]

(* A program is [format, segment, size, image, fragments, relocations, cs,  *)
(* ss, sp]: an image or, without one, fragments <<offset, bytes>>, and      *)
(* relocations <<segment, offset>>.                                         *)
WriteAll(mem, address, bytes) ==
  FoldLeft(LAMBDA m, i : Write8(m, address + i - 1, bytes[i]), mem, [i \in DOMAIN bytes |-> i])

FragmentsValid(p) ==
  \A i \in DOMAIN p.fragments :
    LET f == p.fragments[i]
    IN  /\ f[2] # << >>
        /\ f[1] <= p.size /\ Len(f[2]) <= p.size - f[1]
        /\ i > 1 => f[1] >= p.fragments[i - 1][1] + Len(p.fragments[i - 1][2])

(* load_program_image.                                                      *)
ImageLoads(p) == IF p.image.given THEN p.fragments = << >> ELSE FragmentsValid(p)
LoadImage(mem, p, address) ==
  IF p.image.given THEN WriteAll(mem, address, p.image.bytes)
  ELSE FoldLeft(LAMBDA m, f : WriteAll(m, address + f[1], f[2]),
                WriteAll(mem, address, [i \in 1..p.size |-> 0]), p.fragments)

\* mutant of ClearPsp
ClearNothing(mem, psp) == [mem EXCEPT !.stopped = FALSE]

(* The PSP is cleared, and gets its exit call, in the array of the first    *)
(* part, with no regard to where that ends: what lies behind it runs over   *)
(* other variables (Overruns) and reaches no page of the extended memory.   *)
(* Its memory size is written like a program would write it.                *)
Overruns(psp) == psp + PspSize > PrimarySize
StoreInArray(mem, bytes) ==
  [mem EXCEPT !.primary = [a \in DOMAIN @ |-> IF a \in DOMAIN bytes THEN bytes[a] ELSE @[a]]]
ClearPsp(mem, psp) ==
  [StoreInArray(mem, [a \in psp..psp + PspSize - 1 |-> 0]) EXCEPT !.stopped = FALSE]
FillPsp(mem, psp) ==
  Write16(StoreInArray(mem, [a \in psp..psp + 1 |-> ExitCall[a - psp + 1]]),
          psp + 2, (MemorySize \div Paragraph) % WordSize)

Registers(cs, ds, ss, sp) == [cs |-> cs, ds |-> ds, ss |-> ss, sp |-> sp]
NoRegisters == Registers(0, 0, 0, 0)
Answer(ok, mem, registers, overrun) ==
  [ok |-> ok, memory |-> mem, registers |-> registers, overrun |-> overrun]
Rejected(mem) == Answer(FALSE, mem, NoRegisters, FALSE)
Damaged(mem, psp) == Answer(FALSE, mem, NoRegisters, Overruns(psp))
Loaded(mem, registers, psp) == Answer(~mem.stopped, mem, registers, Overruns(psp))

LoadCom(mem, p) ==
  LET psp == Linear(p.segment, 0)
      image == Linear(p.segment, PspSize)
      top == WordSize - 2
  IN  IF p.size > WordSize - PspSize \/ psp + PspSize > MemorySize \/ image + p.size > MemorySize
        THEN Rejected(mem)
      ELSE IF ~ImageLoads(p) THEN Damaged(ClearPsp(mem, psp), psp)
      ELSE Loaded(Write16Seg(FillPsp(LoadImage(ClearPsp(mem, psp), p, image), psp), p.segment, top, 0),
                  Registers(p.segment, p.segment, p.segment, top), psp)

(* Relocations are words of the image that take the segment it is loaded at.*)
PlaceOf(r) == r[1] * Paragraph + r[2]
Relocate(mem, p, image) ==
  FoldLeft(LAMBDA m, r : LET a == image + PlaceOf(r)
                         IN  Write16(m, a, (Read16(m, a) + p.segment) % WordSize),
           mem, p.relocations)

LoadMz(mem, p) ==
  LET pspSegment == p.segment - PspParagraphs
      psp == Linear(pspSegment, 0)
      image == Linear(p.segment, 0)
  IN  IF p.segment < PspParagraphs THEN Rejected(mem)
      ELSE IF psp + PspSize > MemorySize \/ image + p.size > MemorySize THEN Rejected(mem)
      ELSE IF \E i \in DOMAIN p.relocations : PlaceOf(p.relocations[i]) + 1 >= p.size THEN Rejected(mem)
      ELSE IF ~ImageLoads(p) THEN Damaged(ClearPsp(mem, psp), psp)
      ELSE Loaded(Relocate(FillPsp(LoadImage(ClearPsp(mem, psp), p, image), psp), p, image),
                  Registers((p.segment + p.cs) % WordSize, pspSegment, (p.segment + p.ss) % WordSize, p.sp), psp)

Load(mem, p) == IF p.format = "com" THEN LoadCom(mem, p) ELSE LoadMz(mem, p)

----------------------------------------------------------------------------
(* What is in memory when a program starts, byte by byte.                   *)
Base(p) == IF p.format = "com" THEN p.segment * Paragraph + PspSize ELSE p.segment * Paragraph
PspOf(p) == Base(p) - PspSize
StackWord(p) == IF p.format = "com" THEN {PspOf(p) + WordSize - 2, PspOf(p) + WordSize - 1} ELSE {}

InFragment(f, x) == x \in f[1]..f[1] + Len(f[2]) - 1
Contents(p, x) ==
  IF p.image.given THEN p.image.bytes[x + 1]
  ELSE IF \E f \in ToSet(p.fragments) : InFragment(f, x)
    THEN LET f == CHOOSE f \in ToSet(p.fragments) : InFragment(f, x) IN f[2][x - f[1] + 1]
    ELSE 0

(* A byte of a relocated word; relocations do not overlap.                  *)
Relocated(p, x) ==
  LET at == {PlaceOf(r) : r \in ToSet(p.relocations)}
      Sum(y) == (Contents(p, y) + ByteSize * Contents(p, y + 1) + p.segment) % WordSize
  IN  IF x \in at THEN LowByte(Sum(x))
      ELSE IF x - 1 \in at THEN HighByte(Sum(x - 1))
      ELSE Contents(p, x)

PspByte(x) ==
  CASE x = 0 -> ExitCall[1] [] x = 1 -> ExitCall[2]
    [] x = 2 -> LowByte((MemorySize \div Paragraph) % WordSize)
    [] x = 3 -> HighByte((MemorySize \div Paragraph) % WordSize)
    [] OTHER -> 0

AtStart(p, before, a) ==
  IF a \in StackWord(p) THEN 0
  ELSE IF a \in Base(p)..Base(p) + p.size - 1
    THEN IF p.format = "mz" THEN Relocated(p, a - Base(p)) ELSE Contents(p, a - Base(p))
  ELSE IF a \in PspOf(p)..Base(p) - 1 THEN PspByte(a - PspOf(p))
  ELSE Read8(before, a)

(* A program has a place when its PSP and its image are in memory that is   *)
(* there, a COM program's in one segment. It can be loaded when its image   *)
(* is sound and the heap has the pages it needs.                            *)
PspRange(p) == PspOf(p)..Base(p) - 1
HasPlace(p) ==
  /\ PspRange(p) \cup (Base(p)..Base(p) + p.size - 1) \subseteq 0..MemorySize - 1
  /\ p.format = "com" => p.size <= WordSize - PspSize
  /\ \A r \in ToSet(p.relocations) : p.format = "mz" => PlaceOf(r) + 1 < p.size
Taken(p) == PspRange(p) \cup (Base(p)..Base(p) + p.size - 1) \cup StackWord(p)
PagesOf(addresses) == {(a - PrimarySize) \div PageSize : a \in {b \in addresses : b >= PrimarySize}}
CanLoad(p, before) ==
  /\ HasPlace(p) /\ Taken(p) \subseteq 0..MemorySize - 1
  /\ IF p.image.given THEN p.fragments = << >> ELSE FragmentsValid(p)
  /\ Cardinality({n \in PagesOf(Taken(p)) : before.pages[n] = Absent}) <= before.room

(* Loading runs over the array exactly when the PSP of a program that has a *)
(* place is not all in it; nothing can be said of such a loading. Any other *)
(* one succeeds when the program can be loaded, and the memory and the      *)
(* registers are then as they should be.                                    *)
LoadedRight(p, before, got) ==
  /\ got.overrun <=> HasPlace(p) /\ ~(PspRange(p) \subseteq DOMAIN before.primary)
  /\ ~got.overrun => (got.ok <=> CanLoad(p, before))
  /\ got.ok /\ ~got.overrun =>
       /\ \A a \in 0..MemorySize - 1 : Read8(got.memory, a) = AtStart(p, before, a)
       /\ got.registers = IF p.format = "com"
            THEN Registers(p.segment, p.segment, p.segment, WordSize - 2)
            ELSE Registers((p.segment + p.cs) % WordSize, PspOf(p) \div Paragraph,
                           (p.segment + p.ss) % WordSize, p.sp)
=============================================================================
