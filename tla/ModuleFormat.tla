---------------------------- MODULE ModuleFormat ----------------------------
(***************************************************************************)
(* xip_module.c: what a module file must be before its tables are read and  *)
(* its code is patched and run. Numbers of the file are words, which a sum   *)
(* may overflow.                                                            *)
(***************************************************************************)
EXTENDS Integers, Sequences

CONSTANTS Limit,         \* 2^32
          HeaderSize,    \* D2E_XIP_HEADER_SIZE
          FlashPage,     \* D2E_XIP_FLASH_PAGE_SIZE
          RelocationSize, FragmentSize, MzSize,   \* of the records of the tables
          PatchSize      \* of the word that a relocation patches

Words == 0..Limit - 1

(* Modules as they are read, with any numbers.                              *)
Relocation == [patch : Words, kind : {"irom", "drom", "import", "none"}, target : Words]
Fragment == [image : Words, data : Words, size : Words]
ModuleFile ==
  [held : Nat, size : Words, irom : Words, iromSize : Words, drom : Words, dromSize : Words,
   region : Words, imageSize : Words, relocs : Words, relocations : Seq(Relocation),
   frags : Words, fragments : Seq(Fragment), mz : Words, mzCount : Words]

\* mutant of RangeValid
RangeValidWrapping(offset, size, total) == offset <= total /\ (offset + size) % Limit <= total

(* range_valid and table_valid, in words.                                   *)
RangeValid(offset, size, total) == offset <= total /\ size <= total - offset
TableValid(offset, count, itemSize, total) ==
  /\ count # 0 => offset >= HeaderSize
  /\ count <= (Limit - 1) \div itemSize
  /\ RangeValid(offset, (count * itemSize) % Limit, total)

(* A module is [held, size, irom, iromSize, drom, dromSize, region,         *)
(* imageSize, relocs, relocations, frags, fragments, mz, mzCount]: a table  *)
(* is an offset and its records, the one of MZ relocations only a count.    *)
InMappedSegment(m, offset, size) ==
  \/ offset >= m.irom /\ RangeValid((offset - m.irom) % Limit, size, m.iromSize)
  \/ offset >= m.drom /\ RangeValid((offset - m.drom) % Limit, size, m.dromSize)

(* validate_records. A relocation is [patch, kind, target].                 *)
RelocationValid(m, i) ==
  LET r == m.relocations[i]
      previousEnd == IF i = 1 THEN 0 ELSE (m.relocations[i - 1].patch + PatchSize) % Limit
  IN  /\ r.patch % PatchSize = 0 /\ r.patch >= previousEnd
      /\ InMappedSegment(m, r.patch, PatchSize)
      /\ r.kind \in {"irom", "drom", "import"}
      /\ r.kind = "irom" => r.target < m.iromSize
      /\ r.kind = "drom" => r.target < m.dromSize

(* A fragment is [image, data, size].                                       *)
FragmentValid(m, i) ==
  LET f == m.fragments[i]
      previousEnd == IF i = 1 THEN 0 ELSE (m.fragments[i - 1].image + m.fragments[i - 1].size) % Limit
  IN  /\ f.size # 0 /\ f.image >= previousEnd
      /\ RangeValid(f.image, f.size, m.imageSize)
      /\ RangeValid(f.data, f.size, m.size)
      /\ f.data >= m.drom /\ RangeValid((f.data - m.drom) % Limit, f.size, m.dromSize)

(* d2e_xip_module_open, behind the magic and the versions.                  *)
ModuleOpens(m) ==
  /\ m.held >= HeaderSize /\ m.size <= m.held /\ m.size >= HeaderSize
  /\ m.irom % FlashPage = 0 /\ m.drom % FlashPage = 0
  /\ m.iromSize # 0 /\ m.dromSize # 0
  /\ RangeValid(m.irom, m.iromSize, m.size) /\ RangeValid(m.drom, m.dromSize, m.size)
  /\ m.region < m.iromSize
  /\ TableValid(m.relocs, Len(m.relocations), RelocationSize, m.size)
  /\ TableValid(m.frags, Len(m.fragments), FragmentSize, m.size)
  /\ TableValid(m.mz, m.mzCount, MzSize, m.size)
  /\ \A i \in DOMAIN m.relocations : RelocationValid(m, i)
  /\ \A i \in DOMAIN m.fragments : FragmentValid(m, i)

----------------------------------------------------------------------------
(* The same of a module in terms of the bytes that are its own: everything  *)
(* it names lies inside, and nothing twice.                                 *)
Bytes(offset, size) == offset..offset + size - 1
FileBytes(m) == Bytes(0, m.size)
Irom(m) == Bytes(m.irom, m.iromSize)
Drom(m) == Bytes(m.drom, m.dromSize)
TableInside(m, offset, count, itemSize) ==
  IF count = 0 THEN offset <= m.size
  ELSE Bytes(offset, count * itemSize) \subseteq FileBytes(m) \ Bytes(0, HeaderSize)

PatchOf(m, i) == Bytes(m.relocations[i].patch, PatchSize)
DataOf(m, i) == Bytes(m.fragments[i].data, m.fragments[i].size)
TargetOf(m, i) == Bytes(m.fragments[i].image, m.fragments[i].size)
InOrder(s) == \A i, j \in DOMAIN s : i < j => \A x \in s[i], y \in s[j] : x < y

ModuleIsSafe(m) ==
  /\ HeaderSize <= m.size /\ m.size <= m.held
  /\ m.irom % FlashPage = 0 /\ m.drom % FlashPage = 0
  /\ Irom(m) # {} /\ Irom(m) \subseteq FileBytes(m) /\ Drom(m) # {} /\ Drom(m) \subseteq FileBytes(m)
  /\ m.irom + m.region \in Irom(m)
  /\ TableInside(m, m.relocs, Len(m.relocations), RelocationSize)
  /\ TableInside(m, m.frags, Len(m.fragments), FragmentSize)
  /\ TableInside(m, m.mz, m.mzCount, MzSize)
  /\ \A i \in DOMAIN m.relocations :
       LET r == m.relocations[i]
       IN  /\ r.patch % PatchSize = 0
           /\ PatchOf(m, i) \subseteq Irom(m) \/ PatchOf(m, i) \subseteq Drom(m)
           /\ \/ r.kind = "irom" /\ m.irom + r.target \in Irom(m)
              \/ r.kind = "drom" /\ m.drom + r.target \in Drom(m)
              \/ r.kind = "import"
  /\ InOrder([i \in DOMAIN m.relocations |-> PatchOf(m, i)])
  /\ \A i \in DOMAIN m.fragments :
       /\ TargetOf(m, i) # {} /\ TargetOf(m, i) \subseteq Bytes(0, m.imageSize)
       /\ DataOf(m, i) \subseteq Drom(m)
  /\ InOrder([i \in DOMAIN m.fragments |-> TargetOf(m, i)])
=============================================================================
