--------------------------- MODULE XipStoreProofs ---------------------------
(***************************************************************************)
(* Proofs about XipStore, for every set of files, commands and mappings,   *)
(* every size of the catalog and of the volume, and every set of faults    *)
(* that a theorem does not exclude.                                        *)
(***************************************************************************)
EXTENDS XipStore, ModuleFormat, SequenceTheorems, FunctionTheorems, FiniteSetTheorems,
        Induction, TLAPS

-----------------------------------------------------------------------------
(* Lemmas about the operators.                                             *)

LEMMA RecordKinds ==
  ASSUME NEW r \in Record \cup {NoRecord}
  PROVE  /\ r.kind = "module" <=> r \in Entry
         /\ r.kind = "autoexec" <=> r \in Script
  BY DEF Record, Entry, Script, NoRecord

LEMMA EntryFields ==
  ASSUME NEW e \in Entry
  PROVE  /\ e.file \in File
         /\ e.at \in 1..Extents
         /\ e.env \in Env \cup {Raw}
         /\ CommandIn(e) \in Command
  BY XipAssumption DEF Entry, CommandIn

LEMMA RepatchedType ==
  ASSUME NEW m \in Entry, NEW e \in Env
  PROVE  [m EXCEPT !.env = e] \in Entry
<1>1. [m EXCEPT !.env = e] = [kind |-> "module", file |-> m.file, at |-> m.at, env |-> e]
  BY DEF Entry
<1> QED
  BY <1>1, EntryFields DEF Entry

LEMMA ProgrammedType ==
  ASSUME NEW old \in Slot, NEW rec \in Record, NEW whole \in BOOLEAN
  PROVE  Programmed(old, rec, whole) \in Slot
<1> DEFINE fresh == old.state = "blank" \/ (old.state = "smudged" /\ old.rec = rec)
<1>1. CASE fresh
  BY <1>1 DEF Programmed, Slot
<1>2. CASE ~fresh /\ old.state \in {"torn", "full"} /\ old.rec = rec
  BY <1>2 DEF Programmed, Slot
<1>3. CASE ~fresh /\ ~(old.state \in {"torn", "full"} /\ old.rec = rec)
  BY <1>3 DEF Programmed, Slot, GarbledSlot
<1> QED
  BY <1>1, <1>2, <1>3

LEMMA SmudgedType ==
  ASSUME NEW old \in Slot, NEW rec \in Record
  PROVE  Smudged(old, rec) \in Slot
<1>1. CASE ReadsBlank(old)
  BY <1>1 DEF Smudged, Slot
<1>2. CASE ~ReadsBlank(old) /\ old.state \in {"torn", "full"} /\ old.rec = rec
  BY <1>2 DEF Smudged, Slot
<1>3. CASE ~ReadsBlank(old) /\ ~(old.state \in {"torn", "full"} /\ old.rec = rec)
  BY <1>3 DEF Smudged, Slot, GarbledSlot
<1> QED
  BY <1>1, <1>2, <1>3

(* add_module keeps a table of at most Capacity entries.                   *)
LEMMA AddModuleType ==
  ASSUME NEW ms \in Seq(Entry), Len(ms) <= Capacity, NEW e \in Entry
  PROVE  /\ AddModule(ms, e) \in Seq(Entry)
         /\ Len(AddModule(ms, e)) <= Capacity
         /\ Len(AddModule(ms, e)) >= Len(ms)
         /\ DOMAIN ms \subseteq DOMAIN AddModule(ms, e)
<1> DEFINE same == \E k \in DOMAIN ms : CommandIn(ms[k]) = CommandIn(e)
           upd == [k \in DOMAIN ms |-> IF CommandIn(ms[k]) = CommandIn(e) THEN e ELSE ms[k]]
<1>1. CASE same
  <2>1. AddModule(ms, e) = upd
    BY <1>1 DEF AddModule
  <2>2. /\ DOMAIN ms = 1..Len(ms)
        /\ Len(ms) \in Nat
        /\ \A k \in 1..Len(ms) : upd[k] \in Entry
    OBVIOUS
  <2>3. upd \in [1..Len(ms) -> Entry]
    BY <2>2
  <2>4. upd \in Seq(Entry) /\ Len(upd) = Len(ms)
    BY <2>2, <2>3, LenProperties, SeqDef
  <2> QED
    BY <2>1, <2>2, <2>4
<1>2. CASE ~same /\ Len(ms) < Capacity
  <2>1. AddModule(ms, e) = Append(ms, e)
    BY <1>2 DEF AddModule
  <2> QED
    BY <2>1, <1>2, XipAssumption
<1>3. CASE ~same /\ ~(Len(ms) < Capacity)
  BY <1>3 DEF AddModule
<1> QED
  BY <1>1, <1>2, <1>3

-----------------------------------------------------------------------------
(* Type correctness.                                                       *)

\* What the code's control flow guarantees of its local variables.
LocalsOK ==
  /\ pc \in {"erase", "copy", "verify", "commit", "startup"} => file \in File
  /\ pc \in {"erase", "copy", "verify", "commit"} => nextMod <= Extents
  /\ pc = "copy" => step <= Sectors
  /\ pc = "migrate" => mods # <<>>
  /\ pc \in {"relocate", "flush", "append", "map"} => target \in DOMAIN mods
  /\ pc \in {"relocate", "flush"} => step \in 1..Sectors

TypeInv == TypeOK /\ LocalsOK

LEMMA PendingType ==
  ASSUME TypeInv, pc \in Recording
  PROVE  Pending \in Record
<1> USE DEF TypeInv, TypeOK, LocalsOK, Record
<1>1. CASE pc = "commit"
  BY <1>1, XipAssumption DEF Pending, Module, Entry
<1>2. CASE pc = "startup"
  BY <1>2, XipAssumption DEF Pending, Startup, Script
<1>3. CASE pc = "migrate"
  <2>1. mods[1] \in Entry
    BY <1>3
  <2> QED
    BY <1>3, <2>1, EntryFields DEF Pending, Startup, Script
<1>4. CASE pc = "append"
  BY <1>4 DEF Pending
<1> QED
  BY <1>1, <1>2, <1>3, <1>4 DEF Recording

LEMMA WriteRecordType ==
  ASSUME TypeInv, pc \in Recording, WriteRecord
  PROVE  /\ super' \in BOOLEAN
         /\ slots' \in [1..Slots -> Slot]
         /\ data' \in [1..Extents -> Extent]
         /\ nextRec' \in 1..(Slots + 1)
<1>1. nextRec \in 1..Slots
  BY XipAssumption DEF WriteRecord, Room, TypeInv, TypeOK
<1>2. Programmed(slots[nextRec], Pending, TRUE) \in Slot
  BY <1>1, PendingType, ProgrammedType DEF TypeInv, TypeOK
<1>3. slots' \in [1..Slots -> Slot]
  BY <1>1, <1>2 DEF WriteRecord, TypeInv, TypeOK
<1>4. nextRec' \in 1..(Slots + 1)
  BY <1>1, XipAssumption DEF WriteRecord
<1> QED
  BY <1>3, <1>4 DEF WriteRecord, TypeInv, TypeOK

(* Patching a sector leaves an extent an extent.                           *)
LEMMA SectorUpdateType ==
  ASSUME NEW d \in [1..Extents -> Extent], NEW x \in 1..Extents,
         NEW s \in 1..Sectors, NEW sec \in Sector
  PROVE  [d EXCEPT ![x].body[s] = sec] \in [1..Extents -> Extent]
<1> DEFINE b == [d[x].body EXCEPT ![s] = sec]
<1>1. d[x] \in Extent /\ b \in [1..Sectors -> Sector]
  BY DEF Extent
<1>2. [d[x] EXCEPT !.body = b] = [head |-> d[x].head, body |-> b]
  BY <1>1 DEF Extent
<1>3. [d[x] EXCEPT !.body = b] \in Extent
  BY <1>1, <1>2 DEF Extent
<1>4. [d EXCEPT ![x].body[s] = sec] = [d EXCEPT ![x] = [d[x] EXCEPT !.body = b]]
  OBVIOUS
<1> HIDE DEF b
<1> QED
  BY <1>3, <1>4

LEMMA ErasedTypes ==
  /\ ErasedSector \in Sector
  /\ ErasedExtent \in Extent
  BY DEF ErasedSector, ErasedExtent, Sector, Extent, Word

LEMMA TypeInit == Init => TypeInv
<1> SUFFICES ASSUME Init PROVE TypeInv
  OBVIOUS
<1>1. slots \in [1..Slots -> Slot]
  BY DEF Init, BlankSlot, GarbledSlot, Slot
<1>2. mods \in Seq(Entry) /\ Len(mods) = 0
  BY EmptySeq DEF Init
<1>3. data \in [1..Extents -> Extent]
  BY ErasedTypes DEF Init
<1>4. TypeOK
  <2>1. super \in BOOLEAN /\ pc = "off" /\ env \in Env
    BY DEF Init
  <2>2. nextMod \in 1..(Extents + 1) /\ nextRec \in 1..(Slots + 1)
    BY XipAssumption DEF Init
  <2>3. target \in 0..Capacity /\ step \in 0..(Sectors + 1) /\ Len(mods) <= Capacity
    BY <1>2, XipAssumption DEF Init
  <2>4. /\ autoexec = NoCommand /\ active = NoEntry
        /\ file = NoFile /\ buffer = NoFile /\ reported = NoFile
    BY DEF Init
  <2> QED
    BY <1>1, <1>2, <1>3, <2>1, <2>2, <2>3, <2>4 DEF TypeOK
<1>5. LocalsOK
  BY DEF Init, LocalsOK
<1> QED
  BY <1>4, <1>5 DEF TypeInv

LEMMA TypeNext == TypeInv /\ [Next]_vars => TypeInv'
<1> SUFFICES ASSUME TypeInv, [Next]_vars PROVE TypeInv'
  OBVIOUS
<1> USE XipAssumption DEF TypeInv, TypeOK, LocalsOK, flash, catalog, work
<1>1. ASSUME NEW e \in Env, Boot(e) PROVE TypeInv'
  BY <1>1 DEF Boot
<1>2. CASE EraseAll
  BY <1>2, ErasedTypes DEF EraseAll, BlankSlot, Slot
<1>3. CASE WriteSuperblock
  BY <1>3 DEF WriteSuperblock
<1>4. CASE ScanRecord
  <2> DEFINE rec == slots[nextRec].rec
  <2>1. nextRec \in 1..Slots /\ rec \in Record \cup {NoRecord}
    BY <1>4 DEF ScanRecord, Room, Slot
  <2>2. CASE /\ Live(nextRec)
             /\ mods' = AddModule(mods, rec)
             /\ nextMod' = NextExtent(nextMod, rec.at)
             /\ UNCHANGED autoexec
    <3>1. rec \in Entry
      BY <2>1, <2>2, RecordKinds DEF Live, Holds
    <3>2. /\ mods' \in Seq(Entry)
          /\ Len(mods') <= Capacity
      BY <2>2, <3>1, AddModuleType
    <3>3. nextMod' \in 1..(Extents + 1)
      <4>1. rec.at \in 1..Extents
        BY <3>1, EntryFields
      <4>2. NextExtent(nextMod, rec.at) \in {nextMod, rec.at + 1}
        BY DEF NextExtent
      <4> QED
        BY <2>2, <4>1, <4>2
    <3>4. nextRec' \in 1..(Slots + 1)
      BY <1>4, <2>1 DEF ScanRecord
    <3> QED
      BY <1>4, <2>2, <3>2, <3>3, <3>4 DEF ScanRecord
  <2>3. CASE /\ Holds(nextRec, "autoexec")
             /\ autoexec' = rec.command
             /\ UNCHANGED <<mods, nextMod>>
    <3>1. rec \in Script
      BY <2>1, <2>3, RecordKinds DEF Holds
    <3> QED
      BY <1>4, <2>1, <2>3, <3>1 DEF ScanRecord, Script
  <2>4. CASE UNCHANGED <<mods, nextMod, autoexec>>
    BY <1>4, <2>1, <2>4 DEF ScanRecord
  <2> QED
    BY <1>4, <2>2, <2>3, <2>4 DEF ScanRecord
<1>5. CASE ScanEnd
  BY <1>5 DEF ScanEnd
<1>6. ASSUME NEW f \in File, StartInstall(f) PROVE TypeInv'
  BY <1>6 DEF StartInstall, Finish
<1>7. CASE EraseExtent
  BY <1>7, ErasedTypes DEF EraseExtent
<1>8. CASE CopyChunk
  <2>1. [code |-> file, words |-> Raw] \in Sector
    BY <1>8 DEF CopyChunk, Sector, Word
  <2>2. data' \in [1..Extents -> Extent]
    <3>1. CASE step = 0
      <4>1. data[nextMod] \in Extent
        BY <1>8 DEF CopyChunk
      <4>2. [data[nextMod] EXCEPT !.head = file] \in Extent
        BY <1>8, <4>1 DEF CopyChunk, Extent
      <4> QED
        BY <1>8, <3>1, <4>2 DEF CopyChunk
    <3>2. CASE step # 0
      <4>1. step \in 1..Sectors /\ nextMod \in 1..Extents
        BY <1>8, <3>2 DEF CopyChunk
      <4> QED
        BY <1>8, <3>2, <4>1, <2>1, SectorUpdateType DEF CopyChunk
    <3> QED
      BY <3>1, <3>2
  <2>3. /\ pc' \in {"copy", "verify"}
        /\ pc' = "copy" => step' <= Sectors
        /\ step' \in 0..(Sectors + 1)
    BY <1>8 DEF CopyChunk
  <2> QED
    BY <1>8, <2>2, <2>3 DEF CopyChunk
<1>9. CASE VerifyModule
  BY <1>9 DEF VerifyModule, Finish
<1>10. CASE CommitInstall
  <2>1. Pending \in Entry
    BY <1>10 DEF CommitInstall, Pending, Module, Entry
  <2>2. /\ mods' \in Seq(Entry)
        /\ Len(mods') <= Capacity
    BY <1>10, <2>1, AddModuleType DEF CommitInstall
  <2>3. /\ super' \in BOOLEAN
        /\ slots' \in [1..Slots -> Slot]
        /\ data' \in [1..Extents -> Extent]
        /\ nextRec' \in 1..(Slots + 1)
    BY <1>10, WriteRecordType DEF CommitInstall, Recording
  <2>4. nextMod' \in 1..(Extents + 1)
    BY <1>10 DEF CommitInstall
  <2> QED
    BY <1>10, <2>2, <2>3, <2>4 DEF CommitInstall, Finish
<1>11. CASE CreateAutoexec
  <2>1. Pending.command \in Command
    <3>1. CASE pc = "startup"
      BY <3>1 DEF Pending, Startup
    <3>2. CASE pc = "migrate"
      BY <3>2, EntryFields DEF Pending, Startup
    <3> QED
      BY <1>11, <3>1, <3>2 DEF CreateAutoexec
  <2>2. /\ super' \in BOOLEAN
        /\ slots' \in [1..Slots -> Slot]
        /\ data' \in [1..Extents -> Extent]
        /\ nextRec' \in 1..(Slots + 1)
    BY <1>11, WriteRecordType DEF CreateAutoexec, Recording
  <2> QED
    BY <1>11, <2>1, <2>2 DEF CreateAutoexec, Finish
<1>12. ASSUME NEW k \in 1..Capacity, Activate(k) PROVE TypeInv'
  BY <1>12 DEF Activate
<1>13. CASE EraseSector
  <2>1. mods[target].at \in 1..Extents
    BY <1>13, EntryFields DEF EraseSector
  <2>2. data' \in [1..Extents -> Extent]
    BY <1>13, <2>1, ErasedTypes, SectorUpdateType DEF EraseSector
  <2>3. data[mods[target].at].body[step] \in Sector
    BY <1>13, <2>1 DEF EraseSector, Extent
  <2>4. buffer' \in File \cup {NoFile}
    BY <1>13, <2>3 DEF EraseSector, Sector
  <2> QED
    BY <1>13, <2>2, <2>4 DEF EraseSector
<1>14. CASE FlushSector
  <2>1. mods[target].at \in 1..Extents
    BY <1>14, EntryFields DEF FlushSector
  <2>2. [code |-> buffer, words |-> env] \in Sector
    BY DEF Sector, Word
  <2>3. data' \in [1..Extents -> Extent]
    BY <1>14, <2>1, <2>2, SectorUpdateType DEF FlushSector
  <2>4. [mods[target] EXCEPT !.env = env] \in Entry
    BY <1>14, RepatchedType DEF FlushSector
  <2>5. /\ mods' \in Seq(Entry)
        /\ Len(mods') = Len(mods)
    <3>1. CASE UNCHANGED mods
      BY <3>1
    <3>2. CASE mods' = [mods EXCEPT ![target] = [mods[target] EXCEPT !.env = env]]
      BY <1>14, <2>4, <3>2, ExceptSeq DEF FlushSector
    <3> QED
      BY <1>14, <3>1, <3>2 DEF FlushSector
  <2>6. DOMAIN mods' = DOMAIN mods
    BY <2>5
  <2>7. /\ pc' \in {"append", "relocate"}
        /\ pc' = "relocate" => step' \in 1..Sectors
        /\ step' \in 0..(Sectors + 1)
        /\ target' \in DOMAIN mods'
    BY <1>14, <2>6 DEF FlushSector
  <2>8. LocalsOK'
    BY <2>7
  <2>9. TypeOK'
    BY <1>14, <2>3, <2>5, <2>7 DEF FlushSector
  <2> QED
    BY <2>8, <2>9
<1>15. CASE AppendRelocated
  BY <1>15, WriteRecordType DEF AppendRelocated, Recording
<1>16. CASE MapModule
  BY <1>16 DEF MapModule, Finish
<1>17. CASE Deactivate
  BY <1>17 DEF Deactivate
<1>18. CASE RecordRefused
  BY <1>18 DEF RecordRefused, Finish
<1>19. CASE RecordFails
  <2>1. /\ \A whole \in BOOLEAN : Programmed(slots[nextRec], Pending, whole) \in Slot
        /\ Smudged(slots[nextRec], Pending) \in Slot
    BY <1>19, PendingType, ProgrammedType, SmudgedType DEF RecordFails, Room
  <2>2. slots' \in [1..Slots -> Slot]
    <3>1. CASE slots' = slots
      BY <3>1
    <3>2. ASSUME NEW whole \in BOOLEAN, slots' = [slots EXCEPT ![nextRec] = Programmed(@, Pending, whole)]
          PROVE  slots' \in [1..Slots -> Slot]
      BY <2>1, <3>2
    <3>3. CASE slots' = [slots EXCEPT ![nextRec] = Smudged(@, Pending)]
      BY <2>1, <3>3
    <3> QED
      BY <1>19, <3>1, <3>2, <3>3 DEF RecordFails
  <2> QED
    BY <1>19, <2>2 DEF RecordFails, Finish
<1>20. CASE StepFails
  BY <1>20 DEF StepFails, Finish
<1>21. CASE Crash
  <2>1. slots' \in [1..Slots -> Slot]
    <3>1. CASE UNCHANGED slots
      BY <3>1
    <3>2. CASE /\ pc \in Recording
               /\ Room
               /\ slots' = [slots EXCEPT ![nextRec] = Programmed(@, Pending, FALSE)]
      BY <3>2, PendingType, ProgrammedType DEF Room
    <3>3. CASE /\ pc \in Recording
               /\ Room
               /\ slots' = [slots EXCEPT ![nextRec] = Smudged(@, Pending)]
      BY <3>3, PendingType, SmudgedType DEF Room
    <3> QED
      BY <1>21, <3>1, <3>2, <3>3 DEF Crash
  <2> QED
    BY <1>21, <2>1, EmptySeq DEF Crash
<1>22. CASE UNCHANGED vars
  BY <1>22 DEF vars
<1> QED
  BY <1>1, <1>2, <1>3, <1>4, <1>5, <1>6, <1>7, <1>8, <1>9, <1>10, <1>11, <1>12, <1>13,
     <1>14, <1>15, <1>16, <1>17, <1>18, <1>19, <1>20, <1>21, <1>22
     DEF Next, Mounting, Installing, Activating, Failing

(* Every variable keeps its type: the cursors stay inside the catalog and  *)
(* the volume, the module table never exceeds its capacity, under any      *)
(* combination of power failures and driver errors.                        *)
THEOREM TypeCorrect == Spec => []TypeOK
<1>1. TypeInv => TypeOK
  BY DEF TypeInv
<1> QED
  BY <1>1, TypeInit, TypeNext, PTL DEF Spec

-----------------------------------------------------------------------------
(* The catalog and the extents.                                            *)

Scanning == pc = "scan" \/ Mounted

\* A record is written whole, or torn where scan_catalog can see it.
SoundRecords == {"record_error", "smudge"} \cap Faults = {}

\* The records fill a prefix of the catalog, and the cursor stands at its end.
CursorInv ==
  /\ \A i \in 1..Slots : slots[i].state # "smudged"
  /\ pc \in {"format", "superblock"} => ~super
  /\ Scanning => super
  /\ pc \in {"off", "format", "superblock"} => mods = <<>> /\ nextRec = 1
  /\ pc = "superblock" => \A i \in 1..Slots : slots[i].state = "blank"
  /\ \A i \in 1..Slots : i < nextRec => slots[i].state # "blank"
  /\ super => \A i, j \in 1..Slots :
                i < j /\ slots[i].state = "blank" => slots[j].state = "blank"
  /\ Mounted => \A i \in 1..Slots : i >= nextRec => slots[i].state = "blank"

\* The extent of an entry, recorded or listed, holds its file.
Complete(e) ==
  /\ data[e.at].head = e.file
  /\ \A s \in 1..Sectors : data[e.at].body[s].code = e.file \/ BeingPatched(e.at, s)

\* Every extent in use is complete and lies before the next free one.
ExtentInv ==
  /\ super => \A i \in 1..Slots : Holds(i, "module") => Complete(slots[i].rec)
  /\ \A i \in 1..Slots : i < nextRec /\ Holds(i, "module") => slots[i].rec.at < nextMod
  /\ \A k \in DOMAIN mods : Complete(mods[k]) /\ mods[k].at < nextMod
  /\ pc = "commit" => data[nextMod] = CopyOf(file)
  /\ pc = "flush" => buffer = mods[target].file

(* What a record write leaves in the slot at the cursor, which is blank.   *)
LEMMA RecordWritten ==
  ASSUME TypeInv, CursorInv, pc \in Recording, Room, NEW whole \in BOOLEAN
  PROVE  /\ nextRec \in 1..Slots
         /\ slots[nextRec].state = "blank"
         /\ Programmed(slots[nextRec], Pending, whole)
              = [state |-> IF whole THEN "full" ELSE "torn", rec |-> Pending]
<1>1. nextRec \in 1..Slots
  BY XipAssumption DEF Room, TypeInv, TypeOK
<1>2. slots[nextRec].state = "blank"
  BY <1>1 DEF CursorInv, Mounted, Recording
<1> QED
  BY <1>1, <1>2 DEF Programmed

LEMMA WriteRecordEffect ==
  ASSUME TypeInv, CursorInv, pc \in Recording, WriteRecord
  PROVE  /\ nextRec \in 1..Slots
         /\ nextRec' = nextRec + 1
         /\ super' = super /\ data' = data
         /\ slots'[nextRec] = [state |-> "full", rec |-> Pending]
         /\ \A i \in 1..Slots : i # nextRec => slots'[i] = slots[i]
<1>1. /\ nextRec \in 1..Slots
      /\ Programmed(slots[nextRec], Pending, TRUE) = [state |-> "full", rec |-> Pending]
  BY RecordWritten DEF WriteRecord
<1> QED
  BY <1>1 DEF WriteRecord, TypeInv, TypeOK

LEMMA TornEffect ==
  ASSUME TypeInv, CursorInv, pc \in Recording, Room,
         slots' = [slots EXCEPT ![nextRec] = Programmed(@, Pending, FALSE)]
  PROVE  /\ nextRec \in 1..Slots
         /\ slots'[nextRec].state = "torn"
         /\ \A i \in 1..Slots : i # nextRec => slots'[i] = slots[i]
<1>1. /\ nextRec \in 1..Slots
      /\ Programmed(slots[nextRec], Pending, FALSE) = [state |-> "torn", rec |-> Pending]
  BY RecordWritten
<1> DEFINE torn == [state |-> "torn", rec |-> Pending]
<1>2. slots' = [slots EXCEPT ![nextRec] = torn]
  BY <1>1, Zenon
<1>3. torn.state = "torn"
  OBVIOUS
<1> HIDE DEF torn
<1> QED
  BY <1>1, <1>2, <1>3 DEF TypeInv, TypeOK

LEMMA CursorInit == Init => CursorInv
<1> SUFFICES ASSUME Init PROVE CursorInv
  OBVIOUS
<1> QED
  BY XipAssumption DEF Init, CursorInv, Scanning, Mounted, BlankSlot, GarbledSlot

(* A record write moves the cursor past the record and nothing else.       *)
LEMMA CursorWrite ==
  ASSUME TypeInv, CursorInv, pc \in Recording, WriteRecord,
         pc' \in {"ready", "startup", "map"}
  PROVE  CursorInv'
<1> USE DEF CursorInv, Scanning, Mounted
<1>1. /\ nextRec \in 1..Slots
      /\ nextRec' = nextRec + 1
      /\ super' = super
      /\ slots'[nextRec].state = "full"
      /\ \A i \in 1..Slots : i # nextRec => slots'[i] = slots[i]
  BY WriteRecordEffect
<1>2. super /\ pc \notin {"off", "format", "superblock", "scan"}
  BY DEF Recording
<1>3. \A i \in 1..Slots : i < nextRec' => slots'[i].state # "blank"
  BY <1>1
<1>4. \A i \in 1..Slots : i >= nextRec' => slots'[i].state = "blank"
  BY <1>1, <1>2
<1>5. \A i, j \in 1..Slots : i < j /\ slots'[i].state = "blank" => slots'[j].state = "blank"
  BY <1>1, <1>3, <1>4
<1> QED
  BY <1>1, <1>2, <1>3, <1>4, <1>5

LEMMA CursorNext ==
  ASSUME SoundRecords, TypeInv, CursorInv, [Next]_vars
  PROVE  CursorInv'
<1> USE DEF CursorInv, Scanning, Mounted, flash, catalog, work
<1>1. ASSUME NEW e \in Env, Boot(e) PROVE CursorInv'
  BY <1>1 DEF Boot
<1>2. CASE EraseAll
  BY <1>2, XipAssumption DEF EraseAll, BlankSlot
<1>3. CASE WriteSuperblock
  BY <1>3 DEF WriteSuperblock
<1>4. CASE ScanRecord
  BY <1>4 DEF ScanRecord, ReadsBlank, TypeInv, TypeOK
<1>5. CASE ScanEnd
  <2>1. \A i \in 1..Slots : i >= nextRec => slots[i].state = "blank"
    BY <1>5, XipAssumption DEF ScanEnd, ReadsBlank, Room, TypeInv, TypeOK
  <2> QED
    BY <1>5, <2>1 DEF ScanEnd
<1>6. ASSUME NEW f \in File, StartInstall(f) PROVE CursorInv'
  BY <1>6 DEF StartInstall, Finish
<1>7. CASE EraseExtent
  BY <1>7 DEF EraseExtent
<1>8. CASE CopyChunk
  BY <1>8 DEF CopyChunk
<1>9. CASE VerifyModule
  BY <1>9 DEF VerifyModule, Finish
<1>10. CASE CommitInstall
  BY <1>10, CursorWrite DEF CommitInstall, Recording, Finish
<1>11. CASE CreateAutoexec
  BY <1>11, CursorWrite DEF CreateAutoexec, Recording, Finish
<1>12. ASSUME NEW k \in 1..Capacity, Activate(k) PROVE CursorInv'
  BY <1>12 DEF Activate
<1>13. CASE EraseSector
  BY <1>13 DEF EraseSector
<1>14. CASE FlushSector
  BY <1>14 DEF FlushSector
<1>15. CASE AppendRelocated
  BY <1>15, CursorWrite DEF AppendRelocated, Recording
<1>16. CASE MapModule
  BY <1>16 DEF MapModule, Finish
<1>17. CASE Deactivate
  BY <1>17 DEF Deactivate
<1>18. CASE RecordRefused
  BY <1>18 DEF RecordRefused, Recording, Finish
<1>19. CASE RecordFails
  BY <1>19 DEF RecordFails, SoundRecords
<1>20. CASE StepFails
  BY <1>20 DEF StepFails, Finish
<1>21. CASE Crash
  <2>1. /\ pc' = "off" /\ super' = super /\ mods' = <<>> /\ nextRec' = 1
    BY <1>21 DEF Crash
  <2>2. CASE UNCHANGED slots
    BY <2>1, <2>2 DEF TypeInv, TypeOK
  <2>3. CASE /\ pc \in Recording
             /\ Room
             /\ slots' = [slots EXCEPT ![nextRec] = Programmed(@, Pending, FALSE)]
    <3>1. /\ nextRec \in 1..Slots
          /\ slots'[nextRec].state = "torn"
          /\ \A i \in 1..Slots : i # nextRec => slots'[i] = slots[i]
      BY <2>3, TornEffect
    <3>2. super /\ \A i \in 1..Slots : i >= nextRec => slots[i].state = "blank"
      BY <2>3 DEF Recording
    <3> QED
      BY <2>1, <3>1, <3>2 DEF TypeInv, TypeOK
  <2> QED
    BY <1>21, <2>2, <2>3 DEF Crash, SoundRecords
<1>22. CASE UNCHANGED vars
  BY <1>22 DEF vars
<1> QED
  BY <1>1, <1>2, <1>3, <1>4, <1>5, <1>6, <1>7, <1>8, <1>9, <1>10, <1>11, <1>12, <1>13,
     <1>14, <1>15, <1>16, <1>17, <1>18, <1>19, <1>20, <1>21, <1>22
     DEF Next, Mounting, Installing, Activating, Failing

(* The cursor invariant makes the catalog append-only: a record is only    *)
(* ever written to the blank slot at the cursor.                           *)
AppendStep == \A i \in 1..Slots : super /\ slots[i].state = "full" => slots'[i] = slots[i]

LEMMA AppendNext ==
  ASSUME SoundRecords, TypeInv, CursorInv, [Next]_vars
  PROVE  AppendStep
<1> USE DEF AppendStep
<1>1. CASE UNCHANGED slots
  BY <1>1
<1>2. CASE EraseAll
  BY <1>2 DEF EraseAll, CursorInv
<1>3. CASE pc \in Recording /\ WriteRecord
  BY <1>3, WriteRecordEffect, RecordWritten DEF WriteRecord
<1>4. CASE Crash
  <2>1. CASE /\ pc \in Recording
             /\ Room
             /\ slots' = [slots EXCEPT ![nextRec] = Programmed(@, Pending, FALSE)]
    BY <2>1, RecordWritten DEF TypeInv, TypeOK
  <2> QED
    BY <1>1, <1>4, <2>1 DEF Crash, SoundRecords
<1>5. CASE RecordFails
  BY <1>5 DEF RecordFails, SoundRecords
<1>6. UNCHANGED slots \/ EraseAll \/ (pc \in Recording /\ WriteRecord) \/ Crash \/ RecordFails
  BY DEF Next, Mounting, Installing, Activating, Failing, vars, flash, Boot, WriteSuperblock,
     ScanRecord, ScanEnd, StartInstall, EraseExtent, CopyChunk, VerifyModule, CommitInstall,
     CreateAutoexec, Recording, Activate, EraseSector, FlushSector, AppendRelocated,
     MapModule, Deactivate, RecordRefused, StepFails
<1> QED
  BY <1>1, <1>2, <1>3, <1>4, <1>5, <1>6

(* When no record write returns an error, and none is cut short with its    *)
(* first byte still erased, a complete record of a formatted volume is      *)
(* never changed again, whatever power failures tear: scan_catalog skips    *)
(* torn records and append_catalog_record writes behind them.               *)
THEOREM CatalogIsAppendOnly ==
  ASSUME SoundRecords
  PROVE  Spec => AppendOnly
<1>1. TypeInv /\ CursorInv /\ [Next]_vars => (TypeInv /\ CursorInv)'
  BY TypeNext, CursorNext
<1>2. TypeInv /\ CursorInv /\ [Next]_vars => [AppendStep]_vars
  BY AppendNext
<1>3. Init => TypeInv /\ CursorInv
  BY TypeInit, CursorInit
<1>4. Spec => [][AppendStep]_vars
  BY <1>1, <1>2, <1>3, PTL DEF Spec
<1> QED
  BY <1>4 DEF AppendOnly, AppendStep

-----------------------------------------------------------------------------
(* The extents.                                                            *)

LEMMA AddModuleMembers ==
  ASSUME NEW ms \in Seq(Entry), NEW e \in Entry, NEW k \in DOMAIN AddModule(ms, e)
  PROVE  \/ AddModule(ms, e)[k] = e
         \/ \E l \in DOMAIN ms : AddModule(ms, e)[k] = ms[l]
<1>1. CASE \E l \in DOMAIN ms : CommandIn(ms[l]) = CommandIn(e)
  <2>1. AddModule(ms, e) =
          [l \in DOMAIN ms |-> IF CommandIn(ms[l]) = CommandIn(e) THEN e ELSE ms[l]]
    BY <1>1 DEF AddModule
  <2> QED
    BY <2>1
<1>2. CASE /\ ~\E l \in DOMAIN ms : CommandIn(ms[l]) = CommandIn(e)
           /\ Len(ms) < Capacity
  <2>1. AddModule(ms, e) = Append(ms, e)
    BY <1>2 DEF AddModule
  <2> QED
    BY <2>1
<1>3. CASE /\ ~\E l \in DOMAIN ms : CommandIn(ms[l]) = CommandIn(e)
           /\ ~(Len(ms) < Capacity)
  BY <1>3 DEF AddModule
<1> QED
  BY <1>1, <1>2, <1>3

(* Once mounted, every recorded module lies below the next free extent.    *)
LEMMA RecordedBelow ==
  ASSUME TypeInv, CursorInv, ExtentInv, Mounted, NEW i \in 1..Slots, Holds(i, "module")
  PROVE  /\ slots[i].rec \in Entry
         /\ slots[i].rec.at < nextMod
<1>1. slots[i].rec \in Entry
  BY RecordKinds DEF Holds, TypeInv, TypeOK, Slot
<1>2. i < nextRec
  BY DEF Holds, CursorInv, TypeInv, TypeOK
<1> QED
  BY <1>1, <1>2 DEF ExtentInv

LEMMA ExtentInit == Init => ExtentInv
<1> SUFFICES ASSUME Init PROVE ExtentInv
  OBVIOUS
<1> QED
  BY DEF Init, ExtentInv

(* A step that leaves the flash, the table and the cursors alone.          *)
LEMMA ExtentQuiet ==
  ASSUME ExtentInv, pc # "flush", pc' \notin {"commit", "flush"},
         UNCHANGED <<flash, mods, nextMod, nextRec>>
  PROVE  ExtentInv'
  BY DEF ExtentInv, flash, Complete, BeingPatched, Holds

(* A step of an installation that only changes the free extent.            *)
LEMMA ExtentFree ==
  ASSUME TypeInv, CursorInv, ExtentInv, Mounted, pc # "flush", pc' \notin {"commit", "flush"},
         UNCHANGED <<super, slots, mods, nextMod, nextRec>>,
         \A x \in 1..Extents : x < nextMod => data'[x] = data[x]
  PROVE  ExtentInv'
<1>1. ASSUME NEW e \in Entry, Complete(e), e.at < nextMod
      PROVE  Complete(e)'
  BY <1>1, EntryFields DEF Complete, BeingPatched
<1>2. \A i \in 1..Slots : Holds(i, "module")' <=> Holds(i, "module")
  BY DEF Holds
<1>3. ASSUME super', NEW i \in 1..Slots, Holds(i, "module")'
      PROVE  Complete(slots[i].rec)'
  BY <1>1, <1>2, <1>3, RecordedBelow DEF ExtentInv
<1>4. ASSUME NEW k \in DOMAIN mods'
      PROVE  (Complete(mods[k]) /\ mods[k].at < nextMod)'
  BY <1>1, <1>4 DEF ExtentInv, TypeInv, TypeOK
<1>5. \A i \in 1..Slots : i < nextRec' /\ Holds(i, "module")' => slots'[i].rec.at < nextMod'
  BY <1>2 DEF ExtentInv
<1> QED
  BY <1>3, <1>4, <1>5 DEF ExtentInv

(* A record write that names a complete extent below the next free one.    *)
LEMMA ExtentWrite ==
  ASSUME TypeInv, CursorInv, ExtentInv, pc \in Recording, WriteRecord,
         pc' \in {"ready", "startup", "map"}, nextMod' \in Nat, nextMod <= nextMod',
         NEW p, p = Pending,
         p.kind = "module" => p \in Entry /\ Complete(p) /\ p.at < nextMod',
         \A k \in DOMAIN mods' : \/ mods'[k] = p /\ p.kind = "module"
                                 \/ \E l \in DOMAIN mods : mods'[k] = mods[l]
  PROVE  ExtentInv'
<1>1. /\ nextRec \in 1..Slots
      /\ nextRec' = nextRec + 1
      /\ super' = super /\ data' = data
      /\ slots'[nextRec] = [state |-> "full", rec |-> p]
      /\ \A i \in 1..Slots : i # nextRec => slots'[i] = slots[i]
  BY WriteRecordEffect
<1>2. pc # "flush" /\ Mounted
  BY DEF Recording, Mounted
<1>3. ASSUME NEW e, Complete(e)
      PROVE  Complete(e)'
  BY <1>1, <1>2, <1>3 DEF Complete, BeingPatched
<1>4. ASSUME NEW i \in 1..Slots, Holds(i, "module")'
      PROVE  Complete(slots[i].rec)' /\ slots'[i].rec.at < nextMod'
  <2>1. CASE i = nextRec
    BY <1>1, <1>3, <1>4, <2>1 DEF Holds
  <2>2. CASE i # nextRec
    <3>1. Holds(i, "module") /\ slots'[i] = slots[i]
      BY <1>1, <1>4, <2>2 DEF Holds
    <3>2. slots[i].rec \in Entry /\ slots[i].rec.at < nextMod
      BY <1>2, <3>1, RecordedBelow
    <3>3. Complete(slots[i].rec)
      BY <1>2, <3>1 DEF ExtentInv, CursorInv, Scanning
    <3>4. slots'[i].rec.at < nextMod'
      BY <3>1, <3>2, EntryFields DEF TypeInv, TypeOK
    <3> QED
      BY <1>3, <3>1, <3>3, <3>4
  <2> QED
    BY <2>1, <2>2
<1>5. ASSUME NEW k \in DOMAIN mods'
      PROVE  (Complete(mods[k]) /\ mods[k].at < nextMod)'
  <2>1. CASE mods'[k] = p /\ p.kind = "module"
    BY <1>3, <2>1
  <2>2. CASE \E l \in DOMAIN mods : mods'[k] = mods[l]
    <3>1. PICK l \in DOMAIN mods : mods'[k] = mods[l]
      BY <2>2
    <3>2. Complete(mods[l]) /\ mods[l].at < nextMod /\ mods[l] \in Entry
      BY DEF ExtentInv, TypeInv, TypeOK
    <3> QED
      BY <1>3, <3>1, <3>2, EntryFields DEF TypeInv, TypeOK
  <2> QED
    BY <1>5, <2>1, <2>2
<1> QED
  BY <1>4, <1>5 DEF ExtentInv

(* Erasing a sector of a complete extent leaves it to be patched.          *)
LEMMA ExtentErase ==
  ASSUME TypeInv, CursorInv, ExtentInv, EraseSector
  PROVE  ExtentInv'
<1> DEFINE m == mods[target]
<1>1. /\ m \in Entry /\ m.at \in 1..Extents /\ m.file \in File
      /\ Complete(m) /\ step \in 1..Sectors /\ pc = "relocate"
  BY EntryFields DEF EraseSector, ExtentInv, TypeInv, TypeOK, LocalsOK
<1>2. /\ pc' = "flush" /\ UNCHANGED <<super, slots, catalog, target, step>>
      /\ data' = [data EXCEPT ![m.at].body[step] = ErasedSector]
      /\ buffer' = data[m.at].body[step].code
  BY DEF EraseSector
<1>3. buffer' = mods'[target'].file
  BY <1>1, <1>2 DEF Complete, BeingPatched, catalog
<1>4. ASSUME NEW e \in Entry, Complete(e)
      PROVE  Complete(e)'
  <2>1. data[e.at].head = e.file /\ e.at \in 1..Extents /\ data[e.at] \in Extent
    BY <1>4, EntryFields DEF Complete, TypeInv, TypeOK
  <2>2. \A s \in 1..Sectors : data[e.at].body[s].code = e.file
    BY <1>1, <1>4 DEF Complete, BeingPatched
  <2>3. CASE e.at # m.at
    BY <1>1, <1>2, <2>1, <2>2, <2>3 DEF Complete, TypeInv, TypeOK
  <2>4. CASE e.at = m.at
    <3>1. data'[e.at] = [data[e.at] EXCEPT !.body[step] = ErasedSector]
      BY <1>1, <1>2, <2>4 DEF TypeInv, TypeOK
    <3>2. data'[e.at].head = e.file
      BY <2>1, <3>1 DEF Extent
    <3>3. \A s \in 1..Sectors : s # step => data'[e.at].body[s].code = e.file
      BY <1>1, <2>1, <2>2, <3>1 DEF Extent
    <3>4. BeingPatched(e.at, step)'
      BY <1>2, <2>4 DEF BeingPatched, catalog
    <3>5. ASSUME NEW s \in 1..Sectors
          PROVE  (data[e.at].body[s].code = e.file \/ BeingPatched(e.at, s))'
      BY <3>3, <3>4, <1>2
    <3> QED
      BY <3>2, <3>5 DEF Complete
  <2> QED
    BY <2>3, <2>4
<1>5. ASSUME NEW i \in 1..Slots, Holds(i, "module")'
      PROVE  Complete(slots[i].rec)' /\ slots'[i].rec.at < nextMod'
  <2>1. Holds(i, "module") /\ slots' = slots /\ nextMod' = nextMod
    BY <1>2, <1>5 DEF Holds, catalog
  <2>2. Complete(slots[i].rec) /\ slots[i].rec \in Entry /\ slots[i].rec.at < nextMod
    BY <1>1, <2>1, RecordedBelow DEF Mounted, ExtentInv, CursorInv, Scanning
  <2> QED
    BY <1>4, <2>1, <2>2
<1>6. ASSUME NEW k \in DOMAIN mods'
      PROVE  (Complete(mods[k]) /\ mods[k].at < nextMod)'
  <2>1. mods' = mods /\ nextMod' = nextMod
    BY <1>2 DEF catalog
  <2>2. Complete(mods[k]) /\ mods[k].at < nextMod /\ mods[k] \in Entry
    BY <1>6, <2>1 DEF ExtentInv, TypeInv, TypeOK
  <2> QED
    BY <1>4, <2>1, <2>2
<1> QED
  BY <1>2, <1>3, <1>5, <1>6 DEF ExtentInv

(* Writing the erased sector back completes every extent again.            *)
LEMMA ExtentFlush ==
  ASSUME TypeInv, CursorInv, ExtentInv, FlushSector
  PROVE  ExtentInv'
<1> DEFINE m == mods[target]
           sec == [code |-> buffer, words |-> env]
<1>1. /\ target \in DOMAIN mods /\ m \in Entry /\ m.at \in 1..Extents /\ m.file \in File
      /\ Complete(m) /\ m.at < nextMod /\ step \in 1..Sectors /\ pc = "flush"
      /\ buffer = m.file
  BY EntryFields DEF FlushSector, ExtentInv, TypeInv, TypeOK, LocalsOK
<1>2. /\ pc' \in {"append", "relocate"} /\ UNCHANGED <<super, slots, nextMod, nextRec>>
      /\ data' = [data EXCEPT ![m.at].body[step] = sec]
      /\ mods' \in {mods, [mods EXCEPT ![target] = [m EXCEPT !.env = env]]}
  BY DEF FlushSector
<1>3. ASSUME NEW e \in Entry, Complete(e)
      PROVE  Complete(e)'
  <2>1. data[e.at].head = e.file /\ e.at \in 1..Extents /\ data[e.at] \in Extent
    BY <1>3, EntryFields DEF Complete, TypeInv, TypeOK
  <2>2. CASE e.at # m.at
    <3>1. \A s \in 1..Sectors : data[e.at].body[s].code = e.file
      BY <1>1, <1>3, <2>2 DEF Complete, BeingPatched
    <3> QED
      BY <1>1, <1>2, <2>1, <2>2, <3>1 DEF Complete, TypeInv, TypeOK
  <2>3. CASE e.at = m.at
    <3>1. data'[e.at] = [data[e.at] EXCEPT !.body[step] = sec]
      BY <1>1, <1>2, <2>3 DEF TypeInv, TypeOK
    <3>2. m.file = e.file
      BY <1>1, <2>1, <2>3 DEF Complete
    <3>3. data'[e.at].head = e.file
      BY <2>1, <3>1 DEF Extent
    <3>4. ASSUME NEW s \in 1..Sectors
          PROVE  data'[e.at].body[s].code = e.file
      <4>1. CASE s = step
        <5>1. data'[e.at].body = [data[e.at].body EXCEPT ![step] = sec]
          BY <2>1, <3>1 DEF Extent
        <5>2. data[e.at].body \in [1..Sectors -> Sector]
          BY <2>1 DEF Extent
        <5>3. data'[e.at].body[s] = sec
          BY <4>1, <5>1, <5>2
        <5> QED
          BY <1>1, <3>2, <5>3
      <4>2. CASE s # step
        <5>1. data[e.at].body[s].code = e.file
          BY <1>3, <4>2 DEF Complete, BeingPatched
        <5> QED
          BY <1>1, <2>1, <3>1, <4>2, <5>1 DEF Extent
      <4> QED
        BY <4>1, <4>2
    <3> QED
      BY <3>3, <3>4 DEF Complete
  <2> QED
    BY <2>2, <2>3
<1>4. ASSUME NEW i \in 1..Slots, Holds(i, "module")'
      PROVE  Complete(slots[i].rec)' /\ slots'[i].rec.at < nextMod'
  <2>1. Holds(i, "module") /\ slots' = slots /\ nextMod' = nextMod
    BY <1>2, <1>4 DEF Holds
  <2>2. Complete(slots[i].rec) /\ slots[i].rec \in Entry /\ slots[i].rec.at < nextMod
    BY <1>1, <2>1, RecordedBelow DEF Mounted, ExtentInv, CursorInv, Scanning
  <2> QED
    BY <1>3, <2>1, <2>2
<1>5. ASSUME NEW k \in DOMAIN mods'
      PROVE  (Complete(mods[k]) /\ mods[k].at < nextMod)'
  <2>1. k \in DOMAIN mods /\ mods[k] \in Entry
    BY <1>2, <1>5 DEF TypeInv, TypeOK
  <2>2. PICK e \in Entry : e = mods[k]
    BY <2>1
  <2>3. Complete(e)' /\ e.at < nextMod'
    <3>1. Complete(e) /\ e.at < nextMod
      BY <2>1, <2>2 DEF ExtentInv
    <3> QED
      BY <1>2, <1>3, <3>1
  <2>4. mods'[k].at = e.at /\ mods'[k].file = e.file
    <3>1. mods'[k] = e \/ mods'[k] = [e EXCEPT !.env = env]
      BY <1>1, <1>2, <2>1, <2>2
    <3> QED
      BY <3>1 DEF Entry
  <2> QED
    BY <2>3, <2>4 DEF Complete, BeingPatched
<1> QED
  BY <1>2, <1>4, <1>5 DEF ExtentInv

NoLostWrites ==
  {"record_error", "smudge", "flush_crash", "patch_error", "scan_error"} \cap Faults = {}

LEMMA RecordsAreSound ==
  ASSUME SoundRecords
  PROVE  ~RecordFails /\ "smudge" \notin Faults
BY DEF SoundRecords, RecordFails

LEMMA ExtentNext ==
  ASSUME NoLostWrites, TypeInv, CursorInv, ExtentInv, [Next]_vars
  PROVE  ExtentInv'
<1> USE DEF TypeInv, TypeOK, LocalsOK, flash, catalog, work
<1>1. ASSUME NEW e \in Env, Boot(e) PROVE ExtentInv'
  BY <1>1, ExtentQuiet DEF Boot
<1>2. CASE EraseAll
  BY <1>2 DEF EraseAll, ExtentInv, CursorInv
<1>3. CASE WriteSuperblock
  BY <1>3 DEF WriteSuperblock, ExtentInv, CursorInv, Holds
<1>4. CASE ScanRecord
  <2> DEFINE rec == slots[nextRec].rec
  <2>1. /\ nextRec \in 1..Slots /\ rec \in Record \cup {NoRecord}
        /\ pc = "scan" /\ pc' = "scan" /\ super
        /\ UNCHANGED <<flash, target, step>> /\ nextRec' = nextRec + 1
    BY <1>4 DEF ScanRecord, Room, Slot, CursorInv, Scanning
  <2>2. ASSUME NEW e, Complete(e)
        PROVE  Complete(e)'
    BY <2>1, <2>2 DEF Complete, BeingPatched
  <2>3. \A i \in 1..Slots : Holds(i, "module")' <=> Holds(i, "module")
    BY <2>1 DEF Holds
  <2>4. ASSUME NEW i \in 1..Slots, Holds(i, "module")'
        PROVE  Complete(slots[i].rec)'
    BY <2>1, <2>2, <2>3, <2>4 DEF ExtentInv
  <2>5. CASE /\ Live(nextRec)
             /\ mods' = AddModule(mods, rec)
             /\ nextMod' = NextExtent(nextMod, rec.at)
    <3>1. rec \in Entry /\ rec.at \in 1..Extents /\ Complete(rec)
      BY <2>1, <2>5, RecordKinds, EntryFields DEF Live, Holds, ExtentInv
    <3>2. nextMod' \in Nat /\ nextMod <= nextMod' /\ rec.at < nextMod'
      BY <2>5, <3>1 DEF NextExtent
    <3>3. ASSUME NEW i \in 1..Slots, i < nextRec', Holds(i, "module")'
          PROVE  slots'[i].rec.at < nextMod'
      <4>1. CASE i = nextRec
        BY <2>1, <3>2, <4>1
      <4>2. CASE i # nextRec
        <5>1. i < nextRec /\ Holds(i, "module") /\ slots'[i] = slots[i]
          BY <2>1, <2>3, <3>3, <4>2
        <5>2. slots[i].rec \in Entry
          BY <5>1, RecordKinds DEF Holds, Slot
        <5> QED
          BY <3>2, <5>1, <5>2, EntryFields DEF ExtentInv
      <4> QED
        BY <4>1, <4>2
    <3>4. ASSUME NEW k \in DOMAIN mods'
          PROVE  (Complete(mods[k]) /\ mods[k].at < nextMod)'
      <4>1. mods'[k] = rec \/ \E l \in DOMAIN mods : mods'[k] = mods[l]
        BY <2>5, <3>1, <3>4, AddModuleMembers
      <4>2. CASE mods'[k] = rec
        BY <2>2, <3>1, <3>2, <4>2
      <4>3. CASE \E l \in DOMAIN mods : mods'[k] = mods[l]
        <5>1. PICK l \in DOMAIN mods : mods'[k] = mods[l]
          BY <4>3
        <5>2. Complete(mods[l]) /\ mods[l].at < nextMod /\ mods[l].at \in 1..Extents
          BY EntryFields DEF ExtentInv
        <5> QED
          BY <2>2, <3>2, <5>1, <5>2
      <4> QED
        BY <4>1, <4>2, <4>3
    <3> QED
      BY <2>1, <2>4, <3>3, <3>4 DEF ExtentInv
  <2>6. CASE ~Holds(nextRec, "module") /\ UNCHANGED <<mods, nextMod>>
    <3>1. \A i \in 1..Slots : i < nextRec' /\ Holds(i, "module")' => slots'[i].rec.at < nextMod'
      BY <2>1, <2>3, <2>6 DEF ExtentInv
    <3>2. ASSUME NEW k \in DOMAIN mods'
          PROVE  (Complete(mods[k]) /\ mods[k].at < nextMod)'
      BY <2>2, <2>6, <3>2 DEF ExtentInv
    <3> QED
      BY <2>1, <2>4, <3>1, <3>2 DEF ExtentInv
  <2>7. Holds(nextRec, "module") => Live(nextRec)
    BY <2>1 DEF ExtentInv, Complete, Live
  <2>8. Holds(nextRec, "autoexec") => ~Holds(nextRec, "module")
    BY DEF Holds
  <2> QED
    BY <1>4, <2>5, <2>6, <2>7, <2>8 DEF ScanRecord, NoLostWrites
<1>5. CASE ScanEnd
  BY <1>5, ExtentQuiet DEF ScanEnd
<1>6. ASSUME NEW f \in File, StartInstall(f) PROVE ExtentInv'
  BY <1>6, ExtentQuiet DEF StartInstall, Finish
<1>7. CASE EraseExtent
  BY <1>7, ExtentFree DEF EraseExtent, Mounted
<1>8. CASE CopyChunk
  BY <1>8, ExtentFree DEF CopyChunk, Mounted
<1>9. CASE VerifyModule
  <2>1. CASE file \in ValidFile /\ data[nextMod] = CopyOf(file)
    BY <1>9, <2>1 DEF VerifyModule, ExtentInv, Complete, BeingPatched, Holds
  <2>2. CASE ~(file \in ValidFile /\ data[nextMod] = CopyOf(file))
    BY <1>9, <2>2, ExtentQuiet DEF VerifyModule, Finish
  <2> QED
    BY <2>1, <2>2
<1>10. CASE CommitInstall
  <2> DEFINE p == Module(file, nextMod, Raw)
  <2>1. /\ p = Pending /\ p \in Entry /\ p.kind = "module" /\ p.at = nextMod /\ p.file = file
        /\ nextMod' = nextMod + 1 /\ mods' = AddModule(mods, p)
        /\ pc = "commit" /\ pc' \in {"ready", "startup"} /\ WriteRecord
    BY <1>10 DEF CommitInstall, Pending, Module, Entry, Finish
  <2>2. Complete(p)
    <3>1. data[nextMod] = CopyOf(file)
      BY <2>1 DEF ExtentInv
    <3> QED
      BY <2>1, <3>1 DEF Complete, CopyOf
  <2>3. \A k \in DOMAIN mods' : \/ mods'[k] = p /\ p.kind = "module"
                                \/ \E l \in DOMAIN mods : mods'[k] = mods[l]
    BY <2>1, AddModuleMembers
  <2> HIDE DEF p
  <2>4. pc \in Recording /\ nextMod' \in Nat /\ nextMod <= nextMod' /\ p.at < nextMod'
    BY <2>1 DEF Recording
  <2> QED
    BY <2>1, <2>2, <2>3, <2>4, ExtentWrite
<1>11. CASE CreateAutoexec
  <2>1. PICK p : p = Pending
    OBVIOUS
  <2>2. p.kind = "autoexec"
    <3>1. CASE pc = "startup"
      BY <2>1, <3>1 DEF Pending, Startup
    <3>2. CASE pc = "migrate"
      BY <2>1, <3>2 DEF Pending, Startup
    <3> QED
      BY <1>11, <3>1, <3>2 DEF CreateAutoexec
  <2>3. /\ pc \in Recording /\ WriteRecord /\ pc' = "ready"
        /\ UNCHANGED <<mods, nextMod>>
    BY <1>11 DEF CreateAutoexec, Recording, Finish
  <2> QED
    BY <2>1, <2>2, <2>3, ExtentWrite
<1>12. ASSUME NEW k \in 1..Capacity, Activate(k) PROVE ExtentInv'
  BY <1>12, ExtentQuiet DEF Activate
<1>13. CASE EraseSector
  BY <1>13, ExtentErase
<1>14. CASE FlushSector
  BY <1>14, ExtentFlush
<1>15. CASE AppendRelocated
  <2>1. PICK p : p = Pending
    OBVIOUS
  <2>2. /\ pc = "append" /\ WriteRecord /\ pc' = "map" /\ UNCHANGED <<mods, nextMod>>
        /\ target \in DOMAIN mods
    BY <1>15 DEF AppendRelocated
  <2>3. p = mods[target]
    BY <2>1, <2>2 DEF Pending
  <2>4. p \in Entry /\ Complete(p) /\ p.at < nextMod'
    BY <2>2, <2>3 DEF ExtentInv
  <2> QED
    BY <2>1, <2>2, <2>4, ExtentWrite DEF Recording
<1>16. CASE MapModule
  BY <1>16, ExtentQuiet DEF MapModule, Finish
<1>17. CASE Deactivate
  BY <1>17, ExtentQuiet DEF Deactivate
<1>18. CASE RecordRefused
  BY <1>18, ExtentQuiet DEF RecordRefused, Recording, Finish
<1>19. CASE RecordFails
  BY <1>19 DEF RecordFails, NoLostWrites
<1>20. CASE StepFails
  BY <1>20, ExtentQuiet DEF StepFails, Finish, NoLostWrites
<1>21. CASE Crash
  <2>1. /\ pc' = "off" /\ UNCHANGED <<super, data>> /\ mods' = <<>> /\ nextRec' = 1
        /\ pc # "flush"
    BY <1>21 DEF Crash, FaultOf, NoLostWrites
  <2>2. \A i \in 1..Slots : Holds(i, "module")' => slots'[i] = slots[i]
    <3>1. CASE UNCHANGED slots
      BY <3>1
    <3>2. CASE /\ pc \in Recording
               /\ Room
               /\ slots' = [slots EXCEPT ![nextRec] = Programmed(@, Pending, FALSE)]
      BY <3>2, TornEffect DEF Holds
    <3> QED
      BY <1>21, <3>1, <3>2 DEF Crash, NoLostWrites
  <2>3. ASSUME NEW e, Complete(e)
        PROVE  Complete(e)'
    BY <2>1, <2>3 DEF Complete, BeingPatched
  <2>4. ASSUME super', NEW i \in 1..Slots, Holds(i, "module")'
        PROVE  Complete(slots[i].rec)'
    BY <2>1, <2>2, <2>3, <2>4 DEF ExtentInv, Holds
  <2> QED
    BY <2>1, <2>4 DEF ExtentInv
<1>22. CASE UNCHANGED vars
  BY <1>22 DEF vars, ExtentInv, Complete, BeingPatched, Holds
<1> QED
  BY <1>1, <1>2, <1>3, <1>4, <1>5, <1>6, <1>7, <1>8, <1>9, <1>10, <1>11, <1>12, <1>13,
     <1>14, <1>15, <1>16, <1>17, <1>18, <1>19, <1>20, <1>21, <1>22
     DEF Next, Mounting, Installing, Activating, Failing

(* Under power failures, failed copies and failed mappings, a complete      *)
(* record always stands for a complete module: cyd_flash_install_file       *)
(* writes the record after the copy has been read back, and no later copy   *)
(* or relocation loses a sector.  What it excludes is a flash write whose   *)
(* own effect is lost or reported wrongly, and a record torn behind a first *)
(* byte that still reads as free.                                           *)
THEOREM CommittedStaysComplete ==
  ASSUME NoLostWrites
  PROVE  Spec => []CommittedIsComplete
<1>1. SoundRecords
  BY DEF NoLostWrites, SoundRecords
<1> DEFINE Inv == TypeInv /\ CursorInv /\ ExtentInv
<1>2. Init => Inv
  BY TypeInit, CursorInit, ExtentInit
<1>3. Inv /\ [Next]_vars => Inv'
  BY <1>1, TypeNext, CursorNext, ExtentNext
<1>4. Inv => CommittedIsComplete
  BY DEF ExtentInv, Complete, CommittedIsComplete
<1> QED
  BY <1>2, <1>3, <1>4, PTL DEF Spec

-----------------------------------------------------------------------------
(* The extents of the listed modules, whatever fails.                      *)

\* The table in RAM names manifests that are in flash, below the free extent.
Listed(e) == data[e.at].head = e.file /\ e.at < nextMod
ListedInv ==
  /\ \A k \in DOMAIN mods : Listed(mods[k])
  /\ pc = "commit" => data[nextMod].head = file
  /\ pc \in {"off", "format", "superblock"} => mods = <<>>

(* A relocation erases and writes sectors, never a manifest; the first     *)
(* steps of an installation touch the free extent alone.                   *)
LEMMA SectorKeepsHead ==
  ASSUME NEW d \in [1..Extents -> Extent], NEW x \in 1..Extents, NEW s \in 1..Sectors,
         NEW sec
  PROVE  \A y \in 1..Extents : [d EXCEPT ![x].body[s] = sec][y].head = d[y].head
<1> TAKE y \in 1..Extents
<1>1. CASE y = x
  <2>1. [d EXCEPT ![x].body[s] = sec][y] = [d[y] EXCEPT !.body[s] = sec]
    BY <1>1
  <2> QED
    BY <2>1 DEF Extent
<1>2. CASE y # x
  BY <1>2
<1> QED
  BY <1>1, <1>2

LEMMA RelocationKeepsHeads ==
  ASSUME TypeInv, EraseSector \/ FlushSector
  PROVE  \A x \in 1..Extents : data'[x].head = data[x].head
<1>1. /\ data \in [1..Extents -> Extent] /\ step \in 1..Sectors
      /\ mods[target].at \in 1..Extents
  BY EntryFields DEF EraseSector, FlushSector, TypeInv, TypeOK, LocalsOK
<1> DEFINE x == mods[target].at
<1>2. PICK sec : data' = [data EXCEPT ![x].body[step] = sec]
  BY DEF EraseSector, FlushSector
<1> HIDE DEF x
<1>3. \A y \in 1..Extents : [data EXCEPT ![x].body[step] = sec][y].head = data[y].head
  BY <1>1, SectorKeepsHead DEF x
<1> QED
  BY <1>2, <1>3

LEMMA InstallationStaysFree ==
  ASSUME TypeInv, EraseExtent \/ CopyChunk
  PROVE  \A x \in 1..Extents : x # nextMod => data'[x] = data[x]
  BY DEF EraseExtent, CopyChunk, TypeInv, TypeOK

LEMMA ListedInit == Init => ListedInv
  BY DEF Init, ListedInv

(* A step that leaves the table, its cursor and the manifests alone.       *)
LEMMA ListedQuiet ==
  ASSUME TypeInv, ListedInv, UNCHANGED <<mods, nextMod>>,
         \A x \in 1..Extents : data'[x].head = data[x].head,
         pc' \notin {"commit", "format"}, pc' \in {"off", "superblock"} => mods = <<>>
  PROVE  ListedInv'
<1>1. ASSUME NEW k \in DOMAIN mods PROVE mods[k].at \in 1..Extents
  BY EntryFields DEF TypeInv, TypeOK
<1> QED
  BY <1>1 DEF ListedInv, Listed

LEMMA ListedNext == ASSUME TypeInv, ListedInv, [Next]_vars PROVE ListedInv'
<1> USE DEF flash, catalog, work
<1>t. /\ mods \in Seq(Entry) /\ nextMod \in 1..(Extents + 1)
      /\ \A k \in DOMAIN mods : mods[k] \in Entry /\ mods[k].at \in 1..Extents
  BY EntryFields DEF TypeInv, TypeOK
<1>1. ASSUME NEW e \in Env, Boot(e) PROVE ListedInv'
  BY <1>1 DEF Boot, ListedInv, Listed
<1>2. CASE EraseAll
  BY <1>2 DEF EraseAll, ListedInv
<1>3. CASE WriteSuperblock
  BY <1>3 DEF WriteSuperblock, ListedInv
<1>4. CASE ScanRecord
  <2> DEFINE rec == slots[nextRec].rec
  <2>1. /\ nextRec \in 1..Slots /\ rec \in Record \cup {NoRecord} /\ pc = "scan"
        /\ pc' = "scan" /\ UNCHANGED <<flash, file>>
    BY <1>4 DEF ScanRecord, Room, Slot, TypeInv, TypeOK
  <2>2. CASE /\ Live(nextRec)
             /\ mods' = AddModule(mods, rec)
             /\ nextMod' = NextExtent(nextMod, rec.at)
    <3>1. rec \in Entry /\ data[rec.at].head = rec.file
      BY <2>1, <2>2, RecordKinds DEF Live, Holds
    <3>2. rec.at < nextMod' /\ nextMod <= nextMod' /\ nextMod' \in Nat
      BY <1>t, <2>2, <3>1, EntryFields DEF NextExtent
    <3>3. ASSUME NEW k \in DOMAIN mods' PROVE Listed(mods[k])'
      <4>1. mods'[k] = rec \/ \E l \in DOMAIN mods : mods'[k] = mods[l]
        BY <1>t, <2>2, <3>1, <3>3, AddModuleMembers
      <4>2. CASE mods'[k] = rec
        BY <2>1, <3>1, <3>2, <4>2 DEF Listed
      <4>3. CASE \E l \in DOMAIN mods : mods'[k] = mods[l]
        <5>1. PICK l \in DOMAIN mods : mods'[k] = mods[l]
          BY <4>3
        <5>2. Listed(mods[l]) /\ mods[l].at \in 1..Extents
          BY <1>t DEF ListedInv
        <5> QED
          BY <1>t, <2>1, <3>2, <5>1, <5>2 DEF Listed
      <4> QED
        BY <4>1, <4>2, <4>3
    <3> QED
      BY <2>1, <3>3 DEF ListedInv
  <2>3. CASE UNCHANGED <<mods, nextMod>>
    BY <2>1, <2>3, ListedQuiet
  <2> QED
    BY <1>4, <2>2, <2>3 DEF ScanRecord
<1>5. CASE ScanEnd
  BY <1>5, ListedQuiet DEF ScanEnd
<1>6. ASSUME NEW f \in File, StartInstall(f) PROVE ListedInv'
  BY <1>6, ListedQuiet DEF StartInstall, Finish
<1>7. CASE EraseExtent \/ CopyChunk
  <2>1. /\ \A x \in 1..Extents : x # nextMod => data'[x] = data[x]
        /\ UNCHANGED <<mods, nextMod>> /\ pc' \in {"copy", "verify"}
    BY <1>7, InstallationStaysFree DEF EraseExtent, CopyChunk
  <2>2. ASSUME NEW k \in DOMAIN mods' PROVE Listed(mods[k])'
    <3>1. mods'[k] = mods[k] /\ mods[k].at # nextMod /\ Listed(mods[k])
      BY <1>t, <2>1, <2>2 DEF ListedInv, Listed
    <3> QED
      BY <1>t, <2>1, <2>2, <3>1 DEF Listed
  <2> QED
    BY <2>1, <2>2 DEF ListedInv
<1>9. CASE VerifyModule
  <2>1. CASE data[nextMod] = CopyOf(file) /\ UNCHANGED work
    BY <1>9, <2>1 DEF VerifyModule, ListedInv, Listed, CopyOf, Finish
  <2>2. CASE pc' = "ready"
    BY <1>9, <2>2, ListedQuiet DEF VerifyModule
  <2> QED
    BY <1>9, <2>1, <2>2 DEF VerifyModule, Finish
<1>10. CASE CommitInstall
  <2> DEFINE p == Module(file, nextMod, Raw)
  <2>1. /\ p = Pending /\ p \in Entry /\ p.at = nextMod /\ p.file = file
        /\ nextMod' = nextMod + 1 /\ mods' = AddModule(mods, p) /\ data' = data
        /\ pc = "commit" /\ pc' \in {"ready", "startup"}
    BY <1>10 DEF CommitInstall, WriteRecord, Pending, Module, Entry, Finish,
                 TypeInv, TypeOK, LocalsOK
  <2>2. data[p.at].head = p.file
    BY <2>1 DEF ListedInv
  <2> HIDE DEF p
  <2>3. ASSUME NEW k \in DOMAIN mods' PROVE Listed(mods[k])'
    <3>1. mods'[k] = p \/ \E l \in DOMAIN mods : mods'[k] = mods[l]
      BY <1>t, <2>1, <2>3, AddModuleMembers
    <3>2. CASE mods'[k] = p
      BY <1>t, <2>1, <2>2, <3>2 DEF Listed
    <3>3. CASE \E l \in DOMAIN mods : mods'[k] = mods[l]
      <4>1. PICK l \in DOMAIN mods : mods'[k] = mods[l]
        BY <3>3
      <4>2. Listed(mods[l]) /\ mods[l].at \in 1..Extents
        BY <1>t DEF ListedInv
      <4> QED
        BY <1>t, <2>1, <4>1, <4>2 DEF Listed
    <3> QED
      BY <3>1, <3>2, <3>3
  <2> QED
    BY <2>1, <2>3 DEF ListedInv
<1>11. CASE CreateAutoexec
  BY <1>11, ListedQuiet DEF CreateAutoexec, WriteRecord, Finish
<1>12. ASSUME NEW k \in 1..Capacity, Activate(k) PROVE ListedInv'
  BY <1>12, ListedQuiet DEF Activate
<1>13. CASE EraseSector
  BY <1>13, RelocationKeepsHeads, ListedQuiet DEF EraseSector
<1>14. CASE FlushSector
  <2>1. /\ \A x \in 1..Extents : data'[x].head = data[x].head
        /\ nextMod' = nextMod /\ pc' \in {"append", "relocate"}
        /\ mods' = mods \/ mods' = [mods EXCEPT ![target].env = env]
    BY <1>14, RelocationKeepsHeads DEF FlushSector
  <2>2. ASSUME NEW k \in DOMAIN mods' PROVE Listed(mods[k])'
    <3>1. k \in DOMAIN mods /\ mods'[k].at = mods[k].at /\ mods'[k].file = mods[k].file
      <4>1. k \in DOMAIN mods /\ (mods'[k] = mods[k] \/ mods'[k] = [mods[k] EXCEPT !.env = env])
        BY <1>t, <2>1, <2>2
      <4>2. mods[k] \in Entry
        BY <1>t, <4>1
      <4> QED
        BY <4>1, <4>2 DEF Entry
    <3> QED
      BY <1>t, <2>1, <3>1 DEF ListedInv, Listed
  <2> QED
    BY <2>1, <2>2 DEF ListedInv
<1>15. CASE AppendRelocated
  BY <1>15, ListedQuiet DEF AppendRelocated, WriteRecord
<1>16. CASE MapModule
  BY <1>16, ListedQuiet DEF MapModule, Finish
<1>17. CASE Deactivate
  BY <1>17, ListedQuiet DEF Deactivate
<1>18. CASE RecordRefused \/ RecordFails \/ StepFails
  BY <1>18, ListedQuiet DEF RecordRefused, RecordFails, StepFails, Finish
<1>21. CASE Crash
  BY <1>21 DEF Crash, ListedInv
<1>22. CASE UNCHANGED vars
  BY <1>22 DEF vars, ListedInv, Listed
<1> QED
  BY <1>1, <1>2, <1>3, <1>4, <1>5, <1>6, <1>7, <1>9, <1>10, <1>11, <1>12, <1>13,
     <1>14, <1>15, <1>16, <1>17, <1>18, <1>21, <1>22
     DEF Next, Mounting, Installing, Activating, Failing

(* Whatever fails and whenever, error returns of record writes and of the  *)
(* mount included, no installation erases the manifest of a listed module: *)
(* next_module_offset lies behind every entry of the table.                *)
ListedStep == Mounted => \A k \in DOMAIN mods : data'[mods[k].at].head = mods[k].file

THEOREM ListedModulesStay == Spec => ListedKeepsItsExtent
<1>1. TypeInv /\ ListedInv /\ [Next]_vars => (TypeInv /\ ListedInv)'
  BY TypeNext, ListedNext
<1>2. TypeInv /\ ListedInv /\ [Next]_vars => [ListedStep]_vars
  <2> SUFFICES ASSUME TypeInv, ListedInv, Next, Mounted, NEW k \in DOMAIN mods
               PROVE  data'[mods[k].at].head = mods[k].file
    BY DEF ListedStep
  <2>1. Listed(mods[k]) /\ mods[k].at \in 1..Extents /\ nextMod \in Nat
    BY EntryFields DEF ListedInv, TypeInv, TypeOK
  <2>2. CASE UNCHANGED data
    BY <2>1, <2>2 DEF Listed
  <2>3. CASE EraseExtent \/ CopyChunk
    BY <2>1, <2>3, InstallationStaysFree DEF Listed
  <2>4. CASE EraseSector \/ FlushSector
    BY <2>1, <2>4, RelocationKeepsHeads DEF Listed
  <2>5. CASE EraseAll
    BY <2>5 DEF EraseAll, Mounted
  <2>6. \/ UNCHANGED data \/ EraseExtent \/ CopyChunk
        \/ EraseSector \/ FlushSector \/ EraseAll
    BY DEF Next, Mounting, Installing, Activating, Failing, Boot, WriteSuperblock,
       ScanRecord, ScanEnd, StartInstall, VerifyModule, CommitInstall, CreateAutoexec,
       WriteRecord, Activate, AppendRelocated, MapModule, Deactivate, RecordRefused,
       RecordFails, StepFails, Crash, flash
  <2> QED
    BY <2>2, <2>3, <2>4, <2>5, <2>6
<1>3. Init => TypeInv /\ ListedInv
  BY TypeInit, ListedInit
<1>4. Spec => [][ListedStep]_vars
  BY <1>1, <1>2, <1>3, PTL DEF Spec
<1> QED
  BY <1>4 DEF ListedKeepsItsExtent, ListedStep

-----------------------------------------------------------------------------
(* The manifests of the recorded modules, when the driver reports what     *)
(* happens to a record, a torn one does not read as free, and the mount     *)
(* can map what it finds.                                                   *)

HonestDriver == {"record_error", "smudge", "scan_error"} \cap Faults = {}

LEMMA HonestRecords ==
  ASSUME HonestDriver
  PROVE  SoundRecords /\ ~RecordFails
<1>1. SoundRecords
  BY DEF HonestDriver, SoundRecords
<1> QED
  BY <1>1, RecordsAreSound

\* A complete record names a manifest that is in flash, below the free extent.
RecordedInv ==
  /\ super => \A i \in 1..Slots : Holds(i, "module") => Live(i)
  /\ \A i \in 1..Slots : i < nextRec /\ Holds(i, "module") => slots[i].rec.at < nextMod

\* The complete records are those there were.
SlotsKept ==
  \A i \in 1..Slots : /\ slots'[i].state = "full" <=> slots[i].state = "full"
                      /\ slots[i].state = "full" => slots'[i] = slots[i]

(* Records change where the volume is formatted and where one is written.  *)
LEMMA RecordMoves ==
  ASSUME SoundRecords, TypeInv, CursorInv, [Next]_vars, ~EraseAll
  PROVE  SlotsKept \/ (pc \in Recording /\ WriteRecord)
<1>1. CASE UNCHANGED slots
  BY <1>1 DEF SlotsKept
<1>2. CASE Crash
  <2>1. CASE /\ pc \in Recording
             /\ Room
             /\ slots' = [slots EXCEPT ![nextRec] = Programmed(@, Pending, FALSE)]
    BY <2>1, RecordWritten, TornEffect DEF SlotsKept
  <2> QED
    BY <1>1, <1>2, <2>1 DEF Crash, SoundRecords
<1>3. CASE RecordFails
  BY <1>3 DEF RecordFails, SoundRecords
<1>4. UNCHANGED slots \/ (pc \in Recording /\ WriteRecord) \/ Crash \/ RecordFails
  BY DEF Next, Mounting, Installing, Activating, Failing, vars, flash, Boot, WriteSuperblock,
     ScanRecord, ScanEnd, StartInstall, EraseExtent, CopyChunk, VerifyModule, CommitInstall,
     CreateAutoexec, Recording, Activate, EraseSector, FlushSector, AppendRelocated,
     MapModule, Deactivate, RecordRefused, StepFails
<1> QED
  BY <1>1, <1>2, <1>3, <1>4

LEMMA SlotTypes ==
  ASSUME TypeInv, NEW i \in 1..Slots
  PROVE  /\ Holds(i, "module") => slots[i].rec \in Entry
         /\ Holds(i, "autoexec") => slots[i].rec \in Script /\ slots[i].rec.command \in Command
         /\ ~(Holds(i, "module") /\ Holds(i, "autoexec"))
<1>1. slots[i].rec \in Record \cup {NoRecord}
  BY DEF TypeInv, TypeOK, Slot
<1> QED
  BY <1>1, RecordKinds DEF Holds, Script

LEMMA KeptRecords ==
  ASSUME SlotsKept, NEW i \in 1..Slots, NEW kind
  PROVE  /\ Holds(i, kind)' <=> Holds(i, kind)
         /\ Holds(i, kind) => slots'[i] = slots[i]
  BY DEF SlotsKept, Holds

LEMMA RecordedInit == Init => RecordedInv
  BY DEF Init, RecordedInv

(* A step that keeps the records, the manifests and the cursors.           *)
LEMMA RecordedQuiet ==
  ASSUME TypeInv, RecordedInv, SlotsKept, super' = super, UNCHANGED <<nextMod, nextRec>>,
         \A x \in 1..Extents : data'[x].head = data[x].head
  PROVE  RecordedInv'
<1>1. ASSUME NEW i \in 1..Slots, Holds(i, "module")'
      PROVE  Holds(i, "module") /\ slots'[i] = slots[i] /\ slots[i].rec.at \in 1..Extents
  BY <1>1, KeptRecords, SlotTypes, EntryFields
<1> QED
  BY <1>1 DEF RecordedInv, Live

(* A record written at the cursor for a manifest below the free extent.    *)
LEMMA RecordedWrite ==
  ASSUME TypeInv, CursorInv, RecordedInv, pc \in Recording, WriteRecord,
         nextMod' \in Nat, nextMod <= nextMod',
         NEW p, p = Pending,
         p.kind = "module" => data[p.at].head = p.file /\ p.at < nextMod'
  PROVE  RecordedInv'
<1>1. /\ nextRec \in 1..Slots /\ nextRec' = nextRec + 1
      /\ super' = super /\ data' = data
      /\ slots'[nextRec] = [state |-> "full", rec |-> p]
      /\ \A i \in 1..Slots : i # nextRec => slots'[i] = slots[i]
  BY WriteRecordEffect
<1>2. super
  BY DEF Recording, CursorInv, Scanning, Mounted
<1>3. ASSUME NEW i \in 1..Slots, Holds(i, "module")'
      PROVE  Live(i)' /\ (i < nextRec' => slots'[i].rec.at < nextMod')
  <2>1. CASE i = nextRec
    BY <1>1, <1>3, <2>1 DEF Holds, Live
  <2>2. CASE i # nextRec
    <3>1. Holds(i, "module") /\ slots'[i] = slots[i]
      BY <1>1, <1>3, <2>2 DEF Holds
    <3>2. Live(i)'
      BY <1>1, <1>2, <3>1 DEF RecordedInv, Live, Holds
    <3>3. slots[i].rec.at \in Nat
      BY <3>1, SlotTypes, EntryFields
    <3>4. i < nextRec' => slots'[i].rec.at < nextMod'
      BY <1>1, <2>2, <3>1, <3>3 DEF RecordedInv, TypeInv, TypeOK
    <3> QED
      BY <3>2, <3>4
  <2> QED
    BY <2>1, <2>2
<1> QED
  BY <1>3 DEF RecordedInv

\* What an append to the catalog is about to record.
LEMMA PendingListed ==
  ASSUME TypeInv, ListedInv, pc \in Recording
  PROVE  /\ Pending.kind \in {"module", "autoexec"}
         /\ Pending.kind = "autoexec" <=> pc \in {"startup", "migrate"}
         /\ Pending.kind = "module" =>
              /\ Pending \in Entry /\ data[Pending.at].head = Pending.file
              /\ Pending.at < nextMod \/ (pc = "commit" /\ Pending.at = nextMod)
<1>1. CASE pc = "commit"
  BY <1>1 DEF Pending, Module, Entry, ListedInv, TypeInv, TypeOK, LocalsOK
<1>2. CASE pc \in {"startup", "migrate"}
  BY <1>2 DEF Pending, Startup
<1>3. CASE pc = "append"
  <2>1. Pending = mods[target] /\ Pending \in Entry /\ Listed(mods[target])
    BY <1>3 DEF Pending, ListedInv, TypeInv, TypeOK, LocalsOK
  <2> QED
    BY <1>3, <2>1 DEF Listed, Entry
<1> QED
  BY <1>1, <1>2, <1>3 DEF Recording

LEMMA RecordedNext ==
  ASSUME HonestDriver, TypeInv, CursorInv, ListedInv, RecordedInv, [Next]_vars
  PROVE  RecordedInv'
<1>s. ~RecordFails
  BY HonestRecords
<1> USE DEF flash, catalog, work
<1>h. SoundRecords /\ "scan_error" \notin Faults
  BY DEF HonestDriver, SoundRecords
<1>t. nextMod \in 1..(Extents + 1) /\ nextRec \in 1..(Slots + 1)
  BY DEF TypeInv, TypeOK
<1>1. CASE EraseAll
  BY <1>1 DEF EraseAll, RecordedInv, CursorInv
<1>2. CASE WriteSuperblock
  BY <1>2 DEF WriteSuperblock, RecordedInv, CursorInv, Holds
<1>3. CASE ScanRecord
  <2>1. /\ nextRec \in 1..Slots /\ pc = "scan" /\ super /\ UNCHANGED flash
        /\ nextRec' = nextRec + 1
    BY <1>3 DEF ScanRecord, Room, CursorInv, Scanning, TypeInv, TypeOK
  <2>2. \A i \in 1..Slots : Holds(i, "module")' <=> Holds(i, "module")
    BY <2>1 DEF Holds
  <2>3. \A i \in 1..Slots : Live(i)' <=> Live(i)
    BY <2>1 DEF Holds, Live
  <2>4. nextMod' \in Nat /\ nextMod <= nextMod'
        /\ (Holds(nextRec, "module") => slots[nextRec].rec.at < nextMod')
    <3>1. Holds(nextRec, "module") => Live(nextRec) /\ slots[nextRec].rec.at \in Nat
      BY <2>1, SlotTypes, EntryFields DEF RecordedInv
    <3>2. CASE Live(nextRec) /\ nextMod' = NextExtent(nextMod, slots[nextRec].rec.at)
      BY <1>t, <3>1, <3>2 DEF NextExtent, Live
    <3>3. CASE ~Holds(nextRec, "module") /\ UNCHANGED nextMod
      BY <1>t, <3>3
    <3>4. Holds(nextRec, "autoexec") => ~Holds(nextRec, "module")
      BY DEF Holds
    <3> QED
      BY <1>3, <1>h, <3>1, <3>2, <3>3, <3>4 DEF ScanRecord
  <2>5. ASSUME NEW i \in 1..Slots, i < nextRec', Holds(i, "module")'
        PROVE  slots'[i].rec.at < nextMod'
    <3>1. CASE i = nextRec
      BY <2>1, <2>2, <2>4, <2>5, <3>1
    <3>2. CASE i # nextRec
      <4>1. i < nextRec /\ Holds(i, "module") /\ slots[i].rec.at \in Nat /\ slots'[i] = slots[i]
        BY <1>t, <2>1, <2>2, <2>5, <3>2, SlotTypes, EntryFields
      <4> QED
        BY <1>t, <2>4, <4>1 DEF RecordedInv
    <3> QED
      BY <3>1, <3>2
  <2> QED
    BY <2>1, <2>2, <2>3, <2>5 DEF RecordedInv
<1>4. CASE EraseExtent \/ CopyChunk
  <2>1. /\ \A x \in 1..Extents : x # nextMod => data'[x] = data[x]
        /\ UNCHANGED <<super, slots, nextMod, nextRec>> /\ Mounted
    BY <1>4, InstallationStaysFree DEF EraseExtent, CopyChunk, Mounted
  <2>2. ASSUME NEW i \in 1..Slots, Holds(i, "module")
        PROVE  i < nextRec /\ slots[i].rec.at \in 1..Extents /\ slots[i].rec.at < nextMod
    <3>1. i < nextRec
      BY <1>t, <2>1, <2>2 DEF CursorInv, Holds
    <3> QED
      BY <2>2, <3>1, SlotTypes, EntryFields DEF RecordedInv
  <2>3. \A i \in 1..Slots : Holds(i, "module")' <=> Holds(i, "module")
    BY <2>1 DEF Holds
  <2>4. ASSUME NEW i \in 1..Slots, Holds(i, "module"), Live(i) PROVE Live(i)'
    BY <1>t, <2>1, <2>2, <2>3, <2>4 DEF Live
  <2> QED
    BY <2>1, <2>3, <2>4 DEF RecordedInv
<1>5. CASE pc \in Recording /\ WriteRecord
  <2>1. CASE CommitInstall
    <3>1. Pending.at <= nextMod /\ pc = "commit" /\ nextMod' = nextMod + 1 /\ Pending.at = nextMod
      BY <1>t, <2>1 DEF CommitInstall, Pending, Module
    <3> QED
      BY <1>5, <1>t, <3>1, PendingListed, RecordedWrite
  <2>2. CASE CreateAutoexec \/ AppendRelocated
    <3>1. nextMod' = nextMod /\ pc # "commit"
      BY <2>2 DEF CreateAutoexec, AppendRelocated
    <3> QED
      BY <1>5, <1>t, <3>1, PendingListed, RecordedWrite
  <2>3. CommitInstall \/ CreateAutoexec \/ AppendRelocated
    <3>1. nextRec' # nextRec
      BY <1>5, <1>t DEF WriteRecord
    <3>2. \/ nextRec' = nextRec \/ ScanRecord \/ Crash
          \/ CommitInstall \/ CreateAutoexec \/ AppendRelocated
      BY <1>s DEF Next, Mounting, Installing, Activating, Failing, vars, Boot, EraseAll,
         WriteSuperblock, ScanEnd, StartInstall, EraseExtent, CopyChunk, VerifyModule,
         Activate, EraseSector, FlushSector, MapModule, Deactivate, RecordRefused,
         RecordFails, StepFails
    <3>3. ~ScanRecord
      BY <1>5 DEF ScanRecord, Recording
    <3>4. ~Crash
      <4>1. nextRec' = nextRec + 1 /\ nextRec \in Nat \ {0}
        BY <1>5, WriteRecordEffect
      <4>2. Crash => nextRec' = 1
        BY DEF Crash
      <4> QED
        BY <4>1, <4>2
    <3> QED
      BY <3>1, <3>2, <3>3, <3>4
  <2> QED
    BY <2>1, <2>2, <2>3
<1>6. CASE Crash
  <2>1. super' = super /\ data' = data /\ nextRec' = 1 /\ SlotsKept
    <3>1. CASE /\ pc \in Recording
               /\ Room
               /\ slots' = [slots EXCEPT ![nextRec] = Programmed(@, Pending, FALSE)]
      BY <1>6, <3>1, RecordWritten, TornEffect DEF Crash, SlotsKept
    <3> QED
      BY <1>h, <1>6, <3>1 DEF Crash, SoundRecords, SlotsKept
  <2>2. ASSUME NEW i \in 1..Slots, Holds(i, "module")'
        PROVE  Holds(i, "module") /\ slots'[i] = slots[i]
    BY <2>1, <2>2, KeptRecords
  <2> QED
    BY <2>1, <2>2 DEF RecordedInv, Live
<1>7. CASE EraseSector \/ FlushSector
  <2>1. /\ \A x \in 1..Extents : data'[x].head = data[x].head
        /\ UNCHANGED <<super, slots, nextMod, nextRec>>
    BY <1>7, RelocationKeepsHeads DEF EraseSector, FlushSector
  <2> QED
    BY <2>1, RecordedQuiet DEF SlotsKept
<1>8. CASE UNCHANGED <<flash, nextMod, nextRec>>
  BY <1>8, RecordedQuiet DEF SlotsKept
<1>9. \/ EraseAll \/ WriteSuperblock \/ ScanRecord \/ EraseExtent \/ CopyChunk \/ Crash
      \/ EraseSector \/ FlushSector \/ (pc \in Recording /\ WriteRecord)
      \/ UNCHANGED <<flash, nextMod, nextRec>>
  BY <1>s, <1>h DEF Next, Mounting, Installing, Activating, Failing, vars, Boot,
     ScanEnd, StartInstall, VerifyModule, CommitInstall,
     CreateAutoexec, Recording, Activate, AppendRelocated,
     MapModule, Deactivate, RecordRefused, StepFails
<1> QED
  BY <1>1, <1>2, <1>3, <1>4, <1>5, <1>6, <1>7, <1>8, <1>9

-----------------------------------------------------------------------------
(* The table in RAM and the catalog.                                       *)

Distinct == \A k, l \in DOMAIN mods : CommandIn(mods[k]) = CommandIn(mods[l]) => k = l

\* Of the records read so far, i is the last for the command of the entry m.
NewestFor(i, m) ==
  /\ i < nextRec /\ Holds(i, "module")
  /\ slots[i].rec.file = m.file /\ slots[i].rec.at = m.at
  /\ slots[i].rec.env # Raw => m.env # Raw
  /\ \A j \in 1..Slots : i < j /\ j < nextRec /\ Holds(j, "module")
                           => CommandIn(slots[j].rec) # CommandIn(m)

Named(c) == Len(mods) = Capacity \/ \E k \in DOMAIN mods : CommandIn(mods[k]) = c

TableInv ==
  /\ Distinct
  /\ \A k \in DOMAIN mods : \E i \in 1..Slots : NewestFor(i, mods[k])
  /\ \A i \in 1..Slots : i < nextRec /\ Holds(i, "module") => Named(CommandIn(slots[i].rec))

(* add_module: the entry replaces the one of its command or comes last,    *)
(* unless the table is full; every other entry stays where it is.          *)
LEMMA AddModuleEffect ==
  ASSUME NEW ms \in Seq(Entry), Len(ms) <= Capacity, NEW e \in Entry
  PROVE  /\ \A k \in DOMAIN ms : /\ k \in DOMAIN AddModule(ms, e)
                                 /\ CommandIn(AddModule(ms, e)[k]) = CommandIn(ms[k])
         /\ \A k \in DOMAIN AddModule(ms, e) :
              \/ AddModule(ms, e)[k] = e
              \/ k \in DOMAIN ms /\ AddModule(ms, e)[k] = ms[k] /\ CommandIn(ms[k]) # CommandIn(e)
         /\ \A k \in DOMAIN AddModule(ms, e) \ DOMAIN ms :
              k = Len(ms) + 1 /\ \A l \in DOMAIN ms : CommandIn(ms[l]) # CommandIn(e)
         /\ Len(AddModule(ms, e)) = Capacity \/ \E k \in DOMAIN AddModule(ms, e) : AddModule(ms, e)[k] = e
         /\ Len(ms) = Capacity => Len(AddModule(ms, e)) = Capacity
<1>t. Capacity \in Nat \ {0} /\ Len(ms) \in Nat /\ DOMAIN ms = 1..Len(ms)
  BY XipAssumption
<1>1. CASE \E k \in DOMAIN ms : CommandIn(ms[k]) = CommandIn(e)
  <2> DEFINE upd == [k \in DOMAIN ms |-> IF CommandIn(ms[k]) = CommandIn(e) THEN e ELSE ms[k]]
  <2>1. AddModule(ms, e) = upd
    BY <1>1 DEF AddModule
  <2>2. \A k \in 1..Len(ms) : upd[k] \in Entry
    OBVIOUS
  <2>3. upd \in [1..Len(ms) -> Entry]
    BY <2>2
  <2>4. Len(upd) = Len(ms)
    BY <1>t, <2>3, LenProperties, SeqDef
  <2> QED
    BY <1>1, <2>1, <2>4
<1>2. CASE ~(\E k \in DOMAIN ms : CommandIn(ms[k]) = CommandIn(e)) /\ Len(ms) < Capacity
  <2>1. AddModule(ms, e) = Append(ms, e)
    BY <1>2 DEF AddModule
  <2>2. /\ DOMAIN Append(ms, e) = 1..Len(ms) + 1
        /\ Append(ms, e)[Len(ms) + 1] = e
        /\ \A k \in 1..Len(ms) : Append(ms, e)[k] = ms[k]
    OBVIOUS
  <2> DEFINE ext == Append(ms, e)
  <2> HIDE DEF ext
  <2>3. AddModule(ms, e) = ext /\ DOMAIN ext = 1..Len(ms) + 1 /\ ext[Len(ms) + 1] = e
        /\ \A k \in 1..Len(ms) : ext[k] = ms[k]
    BY <2>1, <2>2 DEF ext
  <2>4. Len(ms) + 1 \in 1..Len(ms) + 1 /\ 1..Len(ms) \subseteq 1..Len(ms) + 1
        /\ \A k \in 1..Len(ms) + 1 : k \in 1..Len(ms) \/ k = Len(ms) + 1
    BY <1>t
  <2>5. Len(ms) # Capacity
    <3>1. Len(ms) \in Nat /\ Capacity \in Nat /\ Len(ms) < Capacity
      BY <1>t, <1>2
    <3> QED
      BY <3>1
  <2> QED
    BY <1>t, <1>2, <2>3, <2>4, <2>5, Zenon
<1>3. CASE ~(\E k \in DOMAIN ms : CommandIn(ms[k]) = CommandIn(e)) /\ ~(Len(ms) < Capacity)
  <2>1. AddModule(ms, e) = ms /\ Len(ms) = Capacity
    BY <1>t, <1>3 DEF AddModule
  <2> QED
    BY <1>3, <2>1
<1> QED
  BY <1>1, <1>2, <1>3

(* Adding an entry of a command the table has in that very form changes    *)
(* nothing.                                                                *)
LEMMA AddModuleAgain ==
  ASSUME TypeInv, Distinct, NEW k \in DOMAIN mods
  PROVE  AddModule(mods, mods[k]) = mods
<1>1. AddModule(mods, mods[k]) =
        [l \in DOMAIN mods |-> IF CommandIn(mods[l]) = CommandIn(mods[k]) THEN mods[k] ELSE mods[l]]
  BY DEF AddModule
<1>2. \A l \in DOMAIN mods :
        (IF CommandIn(mods[l]) = CommandIn(mods[k]) THEN mods[k] ELSE mods[l]) = mods[l]
  BY DEF Distinct
<1>3. mods = [l \in DOMAIN mods |-> mods[l]]
  BY DEF TypeInv, TypeOK
<1> QED
  BY <1>1, <1>2, <1>3

LEMMA TableInit == Init => TableInv
  BY DEF Init, TableInv, Distinct

LEMMA TableQuiet ==
  ASSUME TableInv, SlotsKept, UNCHANGED <<mods, nextRec>>
  PROVE  TableInv'
<1>1. \A i \in 1..Slots : /\ Holds(i, "module")' <=> Holds(i, "module")
                          /\ Holds(i, "module") => slots'[i] = slots[i]
  BY KeptRecords
<1>2. ASSUME NEW k \in DOMAIN mods, NEW i \in 1..Slots, NewestFor(i, mods[k])
      PROVE  NewestFor(i, mods[k])'
  BY <1>1, <1>2 DEF NewestFor
<1>3. Distinct'
  BY DEF TableInv, Distinct
<1>4. ASSUME NEW i \in 1..Slots, i < nextRec', Holds(i, "module")'
      PROVE  Named(CommandIn(slots[i].rec))'
  BY <1>1, <1>4 DEF TableInv, Named
<1> QED
  BY <1>2, <1>3, <1>4 DEF TableInv

(* The cursor passes a record of a module, which is added to the table: as *)
(* scan_catalog reads it or as an installation writes it.                  *)
LEMMA TableAdd ==
  ASSUME TypeInv, TableInv, NEW e \in Entry, NEW n \in 1..Slots,
         nextRec = n, nextRec' = n + 1,
         slots'[n].state = "full", slots'[n].rec = e,
         \A i \in 1..Slots : i # n => slots'[i] = slots[i],
         mods' = AddModule(mods, e)
  PROVE  TableInv'
<1>t. mods \in Seq(Entry) /\ Len(mods) <= Capacity
  BY DEF TypeInv, TypeOK
<1>1. \A k \in DOMAIN mods : k \in DOMAIN mods' /\ CommandIn(mods'[k]) = CommandIn(mods[k])
  BY <1>t, AddModuleEffect
<1>2. \A k \in DOMAIN mods' :
        \/ mods'[k] = e
        \/ k \in DOMAIN mods /\ mods'[k] = mods[k] /\ CommandIn(mods[k]) # CommandIn(e)
  BY <1>t, AddModuleEffect
<1>3. \A k \in DOMAIN mods' \ DOMAIN mods :
        k = Len(mods) + 1 /\ \A l \in DOMAIN mods : CommandIn(mods[l]) # CommandIn(e)
  BY <1>t, AddModuleEffect
<1>4. /\ Len(mods') = Capacity \/ \E k \in DOMAIN mods' : mods'[k] = e
      /\ Len(mods) = Capacity => Len(mods') = Capacity
  BY <1>t, AddModuleEffect
<1>5. Holds(n, "module")' /\ \A i \in 1..Slots : i # n => (Holds(i, "module")' <=> Holds(i, "module"))
  BY DEF Entry, Holds
<1>6. Distinct'
  <2> SUFFICES ASSUME NEW k \in DOMAIN mods', NEW l \in DOMAIN mods',
                      CommandIn(mods'[k]) = CommandIn(mods'[l])
               PROVE  k = l
    BY DEF Distinct, CommandIn
  <2>1. CASE k \in DOMAIN mods /\ l \in DOMAIN mods
    BY <1>1, <2>1 DEF TableInv, Distinct
  <2>2. CASE k \notin DOMAIN mods /\ l \notin DOMAIN mods
    BY <1>3, <2>2
  <2>3. CASE k \in DOMAIN mods /\ l \notin DOMAIN mods
    BY <1>1, <1>2, <1>3, <2>3
  <2>4. CASE k \notin DOMAIN mods /\ l \in DOMAIN mods
    BY <1>1, <1>2, <1>3, <2>4
  <2> QED
    BY <2>1, <2>2, <2>3, <2>4
<1>7. ASSUME NEW k \in DOMAIN mods'
      PROVE  \E i \in 1..Slots : NewestFor(i, mods[k])'
  <2>1. CASE mods'[k] = e
    <3>1. NewestFor(n, mods[k])'
      BY <1>5, <2>1 DEF NewestFor
    <3> QED
      BY <3>1
  <2>2. CASE k \in DOMAIN mods /\ mods'[k] = mods[k] /\ CommandIn(mods[k]) # CommandIn(e)
    <3>1. PICK i \in 1..Slots : NewestFor(i, mods[k])
      BY <2>2 DEF TableInv
    <3>2. i # n /\ i < n /\ slots'[i] = slots[i] /\ Holds(i, "module")'
      BY <1>5, <3>1 DEF NewestFor
    <3>3. ASSUME NEW j \in 1..Slots, i < j, j < nextRec', Holds(j, "module")'
          PROVE  CommandIn(slots'[j].rec) # CommandIn(mods'[k])
      <4>1. CASE j = n
        BY <2>2, <4>1
      <4>2. CASE j # n
        BY <1>5, <2>2, <3>1, <3>3, <4>2 DEF NewestFor
      <4> QED
        BY <4>1, <4>2
    <3>4. NewestFor(i, mods[k])'
      BY <2>2, <3>1, <3>2, <3>3 DEF NewestFor, CommandIn
    <3> QED
      BY <3>4
  <2> QED
    BY <1>2, <2>1, <2>2
<1>8. ASSUME NEW i \in 1..Slots, i < nextRec', Holds(i, "module")'
      PROVE  Named(CommandIn(slots[i].rec))'
  <2>1. CASE i = n
    BY <1>4, <2>1 DEF Named, CommandIn
  <2>2. CASE i # n
    <3>1. Named(CommandIn(slots[i].rec)) /\ slots'[i] = slots[i]
      BY <1>5, <1>8, <2>2 DEF TableInv
    <3> QED
      BY <1>1, <1>4, <3>1 DEF Named, CommandIn
  <2> QED
    BY <2>1, <2>2
<1> QED
  BY <1>6, <1>7, <1>8 DEF TableInv

(* The cursor passes something that is not a complete record of a module.  *)
LEMMA TableSkip ==
  ASSUME TypeInv, TableInv, NEW n \in 1..Slots, nextRec = n, nextRec' = n + 1,
         ~Holds(n, "module")',
         \A i \in 1..Slots : i # n => slots'[i] = slots[i],
         mods' = mods
  PROVE  TableInv'
<1>1. \A i \in 1..Slots : i # n => (Holds(i, "module")' <=> Holds(i, "module"))
  BY DEF Holds
<1>2. ASSUME NEW k \in DOMAIN mods, NEW i \in 1..Slots, NewestFor(i, mods[k])
      PROVE  NewestFor(i, mods[k])'
  BY <1>1, <1>2 DEF NewestFor, CommandIn
<1>3. Distinct'
  BY DEF TableInv, Distinct
<1>4. ASSUME NEW i \in 1..Slots, i < nextRec', Holds(i, "module")'
      PROVE  Named(CommandIn(slots[i].rec))'
  <2>1. i # n /\ i < n
    BY <1>4
  <2>2. Named(CommandIn(slots[i].rec)) /\ slots'[i] = slots[i]
    BY <1>1, <1>4, <2>1 DEF TableInv
  <2> QED
    BY <2>2 DEF Named, CommandIn
<1> QED
  BY <1>2, <1>3, <1>4 DEF TableInv

LEMMA TableNext ==
  ASSUME HonestDriver, TypeInv, CursorInv, ListedInv, RecordedInv, TableInv, [Next]_vars
  PROVE  TableInv'
<1>s. ~RecordFails
  BY HonestRecords
<1> USE DEF flash, catalog, work
<1>h. SoundRecords /\ "scan_error" \notin Faults
  BY DEF HonestDriver, SoundRecords
<1>t. /\ nextRec \in 1..(Slots + 1) /\ mods \in Seq(Entry)
      /\ \A k \in DOMAIN mods : mods[k] \in Entry
  BY DEF TypeInv, TypeOK
<1>1. CASE EraseAll \/ WriteSuperblock
  <2>1. mods' = <<>> /\ nextRec' = 1
    BY <1>1 DEF EraseAll, WriteSuperblock, CursorInv
  <2> QED
    BY <2>1 DEF TableInv, Distinct
<1>2. CASE Crash
  <2>1. mods' = <<>> /\ nextRec' = 1
    BY <1>2 DEF Crash
  <2> QED
    BY <2>1 DEF TableInv, Distinct
<1>3. CASE ScanRecord
  <2>1. PICK n \in 1..Slots : nextRec = n
    BY <1>3, <1>t DEF ScanRecord, Room
  <2>2. super /\ UNCHANGED slots /\ nextRec' = n + 1
    BY <1>3, <2>1 DEF ScanRecord, CursorInv, Scanning
  <2>3. CASE Live(n) /\ mods' = AddModule(mods, slots[n].rec)
    <3>1. slots[n].rec \in Entry /\ slots[n].state = "full"
      BY <2>3, SlotTypes DEF Live, Holds
    <3> QED
      BY <2>1, <2>2, <2>3, <3>1, TableAdd
  <2>4. CASE ~Holds(n, "module") /\ mods' = mods
    <3>1. ~Holds(n, "module")'
      BY <2>2, <2>4 DEF Holds
    <3> QED
      BY <2>1, <2>2, <2>4, <3>1, TableSkip
  <2>5. Holds(n, "module") => Live(n)
    BY <2>2 DEF RecordedInv
  <2>6. Holds(n, "autoexec") => ~Holds(n, "module")
    BY DEF Holds
  <2> QED
    BY <1>3, <1>h, <2>1, <2>3, <2>4, <2>5, <2>6 DEF ScanRecord
<1>4. CASE pc \in Recording /\ WriteRecord /\ (CommitInstall \/ CreateAutoexec \/ AppendRelocated)
  <2>1. PICK n \in 1..Slots : nextRec = n
    BY <1>4, WriteRecordEffect
  <2>2. PICK p : p = Pending
    OBVIOUS
  <2>3. /\ nextRec' = n + 1 /\ slots'[n] = [state |-> "full", rec |-> p]
        /\ \A i \in 1..Slots : i # n => slots'[i] = slots[i]
    BY <1>4, <2>1, <2>2, WriteRecordEffect
  <2>4. CASE CommitInstall
    <3>1. mods' = AddModule(mods, p) /\ pc = "commit"
      BY <2>2, <2>4 DEF CommitInstall
    <3>2. p \in Entry
      <4>1. pc \notin {"startup", "migrate"}
        BY <3>1
      <4> QED
        BY <1>4, <2>2, <4>1, PendingListed
    <3> QED
      BY <2>1, <2>3, <3>1, <3>2, TableAdd
  <2>5. CASE CreateAutoexec
    <3>1. p.kind = "autoexec" /\ mods' = mods
      BY <1>4, <2>2, <2>5, PendingListed DEF CreateAutoexec
    <3>2. ~Holds(n, "module")'
      BY <2>3, <3>1 DEF Holds
    <3> QED
      BY <2>1, <2>3, <3>1, <3>2, TableSkip
  <2>6. CASE AppendRelocated
    <3>1. p = mods[target] /\ mods' = mods /\ target \in DOMAIN mods
      BY <2>2, <2>6 DEF AppendRelocated, Pending, TypeInv, LocalsOK
    <3>2. mods' = AddModule(mods, p) /\ p \in Entry
      BY <1>t, <3>1, AddModuleAgain DEF TableInv
    <3> QED
      BY <2>1, <2>3, <3>2, TableAdd
  <2> QED
    BY <1>4, <2>4, <2>5, <2>6
<1>5. CASE FlushSector
  <2>1. /\ UNCHANGED <<slots, nextRec>> /\ env \in Env /\ env # Raw /\ target \in DOMAIN mods
        /\ mods' = mods \/ mods' = [mods EXCEPT ![target].env = env]
    BY <1>5, XipAssumption DEF FlushSector, TypeInv, TypeOK, LocalsOK
  <2>2. DOMAIN mods' = DOMAIN mods /\ Len(mods') = Len(mods)
    <3>1. CASE mods' = mods
      BY <3>1
    <3>2. CASE mods' = [mods EXCEPT ![target].env = env]
      <4>1. [mods[target] EXCEPT !.env = env] \in Entry
        BY <1>t, <2>1, RepatchedType
      <4>2. mods' = [mods EXCEPT ![target] = [mods[target] EXCEPT !.env = env]]
        BY <3>2
      <4> QED
        BY <1>t, <2>1, <4>1, <4>2, ExceptSeq
    <3> QED
      BY <2>1, <3>1, <3>2
  <2>3. ASSUME NEW k \in DOMAIN mods
        PROVE  /\ mods'[k].file = mods[k].file /\ mods'[k].at = mods[k].at
               /\ mods[k].env # Raw => mods'[k].env # Raw
    <3>1. mods'[k] = mods[k] \/ mods'[k] = [mods[k] EXCEPT !.env = env]
      BY <1>t, <2>1, <2>3
    <3>2. mods[k] \in Entry
      BY <1>t
    <3> QED
      BY <2>1, <3>1, <3>2 DEF Entry
  <2>4. Distinct'
    BY <2>2, <2>3 DEF TableInv, Distinct, CommandIn
  <2>5. ASSUME NEW k \in DOMAIN mods, NEW i \in 1..Slots, NewestFor(i, mods[k])
        PROVE  NewestFor(i, mods[k])'
    BY <2>1, <2>3, <2>5 DEF NewestFor, Holds, CommandIn
  <2>6. ASSUME NEW i \in 1..Slots, i < nextRec', Holds(i, "module")'
        PROVE  Named(CommandIn(slots[i].rec))'
    <3>1. Named(CommandIn(slots[i].rec)) /\ slots'[i] = slots[i]
      BY <2>1, <2>6 DEF TableInv, Holds
    <3> QED
      BY <2>2, <2>3, <3>1 DEF Named, CommandIn
  <2> QED
    BY <2>2, <2>4, <2>5, <2>6 DEF TableInv
<1>6. CASE UNCHANGED <<slots, mods, nextRec>>
  BY <1>6, TableQuiet DEF SlotsKept
<1>7. \/ EraseAll \/ WriteSuperblock \/ Crash \/ ScanRecord \/ FlushSector
      \/ pc \in Recording /\ WriteRecord /\ (CommitInstall \/ CreateAutoexec \/ AppendRelocated)
      \/ UNCHANGED <<slots, mods, nextRec>>
  BY <1>s, <1>h DEF Next, Mounting, Installing, Activating, Failing, vars, Boot,
     ScanEnd, StartInstall, EraseExtent, CopyChunk, VerifyModule, CommitInstall,
     CreateAutoexec, Recording, Activate, EraseSector, AppendRelocated,
     MapModule, Deactivate, RecordRefused, StepFails
<1> QED
  BY <1>1, <1>2, <1>3, <1>4, <1>5, <1>6, <1>7

-----------------------------------------------------------------------------
(* AUTOEXEC.BAT and what the shell reports.                                *)

HasModule(c) == \E i \in 1..Slots : Holds(i, "module") /\ CommandIn(slots[i].rec) = c
FileListed(f) == Len(mods) = Capacity \/ \E k \in DOMAIN mods : mods[k].file = f

\* The command in RAM is that of the records read so far, all startup records
\* agree, and each names a command the catalog has a module for.
StartupInv ==
  /\ autoexec # NoCommand => \E i \in 1..Slots : i < nextRec /\ Holds(i, "autoexec")
  /\ \A i \in 1..Slots : i < nextRec /\ Holds(i, "autoexec") => slots[i].rec.command = autoexec
  /\ super => \A i, j \in 1..Slots : Holds(i, "autoexec") /\ Holds(j, "autoexec")
                                      => slots[i].rec.command = slots[j].rec.command
  /\ super => \A i \in 1..Slots : Holds(i, "autoexec") => HasModule(slots[i].rec.command)
  /\ pc \in {"off", "format", "superblock", "startup", "migrate"} => autoexec = NoCommand
  /\ pc = "startup" => HasModule(CommandOf[file]) /\ FileListed(file)

ReportInv == reported # NoFile => pc = "ready" /\ FileListed(reported)

LEMMA StartupInit == Init => StartupInv /\ ReportInv
  BY DEF Init, StartupInv, ReportInv

(* Records that are kept, and those behind them, keep every module.        *)
LEMMA ModulesKept ==
  ASSUME \A i \in 1..Slots : Holds(i, "module") => slots'[i] = slots[i], NEW c, HasModule(c)
  PROVE  HasModule(c)'
  BY DEF HasModule, Holds, CommandIn

LEMMA StartupQuiet ==
  ASSUME StartupInv, UNCHANGED <<super, slots, nextRec, autoexec>>,
         pc' \notin {"off", "format", "superblock", "startup", "migrate"}
  PROVE  StartupInv'
  BY DEF StartupInv, Holds, HasModule, CommandIn

(* A record is written that is no startup record.                          *)
LEMMA StartupWrite ==
  ASSUME TypeInv, CursorInv, StartupInv, pc \in Recording, NEW n \in 1..Slots,
         nextRec = n, nextRec' = n + 1, super' = super, autoexec' = autoexec,
         slots[n].state = "blank", ~Holds(n, "autoexec")',
         \A i \in 1..Slots : i # n => slots'[i] = slots[i],
         pc' \in {"ready", "startup", "map"},
         pc' = "startup" => autoexec = NoCommand /\ HasModule(CommandOf[file])' /\ file' = file
                            /\ FileListed(file)'
  PROVE  StartupInv'
<1>1. \A i \in 1..Slots : Holds(i, "autoexec")' => i # n /\ Holds(i, "autoexec") /\ slots'[i] = slots[i]
  BY DEF Holds
<1>2. \A i \in 1..Slots : Holds(i, "autoexec") => i # n /\ Holds(i, "autoexec")' /\ slots'[i] = slots[i]
  BY DEF Holds
<1>3. \A i \in 1..Slots : Holds(i, "module") => slots'[i] = slots[i]
  BY DEF Holds
<1>4. ASSUME super', NEW i \in 1..Slots, Holds(i, "autoexec")'
      PROVE  HasModule(slots[i].rec.command)'
  <2>1. HasModule(slots[i].rec.command) /\ slots'[i] = slots[i]
    BY <1>1, <1>4 DEF StartupInv
  <2>2. PICK c : c = slots[i].rec.command
    OBVIOUS
  <2>3. HasModule(c)'
    BY <1>3, <2>1, <2>2, ModulesKept
  <2> QED
    BY <2>1, <2>2, <2>3 DEF HasModule, Holds, CommandIn
<1>5. autoexec' # NoCommand => \E i \in 1..Slots : i < nextRec' /\ Holds(i, "autoexec")'
  BY <1>2 DEF StartupInv
<1>6. \A i \in 1..Slots : i < nextRec' /\ Holds(i, "autoexec")' => slots'[i].rec.command = autoexec'
  BY <1>1 DEF StartupInv
<1>7. super' => \A i, j \in 1..Slots : Holds(i, "autoexec")' /\ Holds(j, "autoexec")'
                                      => slots'[i].rec.command = slots'[j].rec.command
  BY <1>1 DEF StartupInv
<1>8. pc' = "startup" => HasModule(CommandOf[file])' /\ FileListed(file)' /\ autoexec' = NoCommand
  OBVIOUS
<1> QED
  BY <1>4, <1>5, <1>6, <1>7, <1>8 DEF StartupInv

(* AUTOEXEC.BAT is written where there is none, for a command there is.    *)
LEMMA StartupCreate ==
  ASSUME TypeInv, CursorInv, StartupInv, TableInv, CreateAutoexec
  PROVE  StartupInv'
<1>1. /\ pc \in {"startup", "migrate"} /\ WriteRecord /\ pc \in Recording /\ autoexec = NoCommand
      /\ pc' = "ready" /\ super
  BY DEF CreateAutoexec, StartupInv, Finish, Recording, CursorInv, Scanning, Mounted
<1>2. PICK n \in 1..Slots : nextRec = n
  BY <1>1, WriteRecordEffect
<1>3. PICK c : c = Pending.command
  OBVIOUS
<1>4. /\ nextRec' = n + 1 /\ super' = super /\ autoexec' = c
      /\ slots'[n] = [state |-> "full", rec |-> Pending] /\ slots[n].state = "blank"
      /\ \A i \in 1..Slots : i # n => slots'[i] = slots[i]
  BY <1>1, <1>2, <1>3, WriteRecordEffect, RecordWritten DEF CreateAutoexec, WriteRecord
<1>5. Pending.kind = "autoexec" /\ HasModule(c)
  <2>1. CASE pc = "startup"
    BY <1>3, <2>1 DEF Pending, Startup, StartupInv
  <2>2. CASE pc = "migrate"
    <3>1. 1 \in DOMAIN mods
      BY <2>2 DEF TypeInv, TypeOK, LocalsOK
    <3>2. PICK i \in 1..Slots : NewestFor(i, mods[1])
      BY <3>1 DEF TableInv
    <3>3. Pending.kind = "autoexec" /\ c = CommandIn(mods[1])
      BY <1>3, <2>2 DEF Pending, Startup
    <3> QED
      BY <3>2, <3>3 DEF NewestFor, HasModule, CommandIn
  <2> QED
    BY <1>1, <2>1, <2>2
<1>6. Holds(n, "autoexec")' /\ slots'[n].rec.command = c
  <2>1. slots'[n].rec = Pending /\ slots'[n].state = "full"
    BY <1>4
  <2> QED
    BY <1>3, <1>5, <2>1 DEF Holds
<1>7. ASSUME NEW i \in 1..Slots, Holds(i, "autoexec")' PROVE i = n
  <2> SUFFICES ASSUME i # n PROVE FALSE
    OBVIOUS
  <2>1. Holds(i, "autoexec")
    BY <1>4, <1>7 DEF Holds
  <2>2. i < nextRec
    BY <1>1, <2>1 DEF CursorInv, Mounted, Holds, TypeInv, TypeOK
  <2>3. slots[i].rec.command = NoCommand
    BY <1>1, <2>1, <2>2 DEF StartupInv
  <2> QED
    BY <2>1, <2>3, SlotTypes, XipAssumption
<1>8. HasModule(c)'
  <2>1. \A i \in 1..Slots : Holds(i, "module") => slots'[i] = slots[i]
    BY <1>4 DEF Holds
  <2> QED
    BY <1>5, <2>1, ModulesKept
<1>9. ASSUME NEW i \in 1..Slots, Holds(i, "autoexec")'
      PROVE  slots'[i].rec.command = c /\ HasModule(slots[i].rec.command)'
  <2>1. i = n
    BY <1>7, <1>9
  <2> QED
    BY <1>6, <1>8, <2>1 DEF HasModule, Holds, CommandIn
<1> QED
  BY <1>1, <1>2, <1>4, <1>6, <1>9 DEF StartupInv

LEMMA StartupNext ==
  ASSUME HonestDriver, TypeInv, CursorInv, TableInv, StartupInv, [Next]_vars
  PROVE  StartupInv'
<1>s. ~RecordFails
  BY HonestRecords
<1> USE DEF flash, catalog, work
<1>h. SoundRecords
  BY DEF HonestDriver, SoundRecords
<1>1. CASE EraseAll \/ WriteSuperblock
  <2>1. /\ autoexec' = NoCommand /\ nextRec' = 1 /\ pc' \in {"superblock", "scan"}
        /\ super' => \A i \in 1..Slots : slots'[i].state = "blank"
    BY <1>1 DEF EraseAll, WriteSuperblock, CursorInv, StartupInv
  <2>2. super' => \A i \in 1..Slots : ~Holds(i, "autoexec")'
    BY <2>1 DEF Holds
  <2> QED
    BY <2>1, <2>2 DEF StartupInv
<1>2. CASE Crash
  <2>1. /\ autoexec' = NoCommand /\ nextRec' = 1 /\ pc' = "off" /\ super' = super /\ SlotsKept
    <3>1. CASE /\ pc \in Recording
               /\ Room
               /\ slots' = [slots EXCEPT ![nextRec] = Programmed(@, Pending, FALSE)]
      BY <1>2, <3>1, RecordWritten, TornEffect DEF Crash, SlotsKept
    <3> QED
      BY <1>h, <1>2, <3>1 DEF Crash, SoundRecords, SlotsKept
  <2>2. \A i \in 1..Slots : Holds(i, "autoexec")' => Holds(i, "autoexec") /\ slots'[i] = slots[i]
    BY <2>1, KeptRecords
  <2>3. \A i \in 1..Slots : Holds(i, "module") => slots'[i] = slots[i]
    BY <2>1, KeptRecords
  <2>4. ASSUME super', NEW i \in 1..Slots, Holds(i, "autoexec")'
        PROVE  HasModule(slots[i].rec.command)'
    <3>1. PICK c : c = slots[i].rec.command
      OBVIOUS
    <3>2. HasModule(c) /\ slots'[i] = slots[i]
      BY <2>1, <2>2, <2>4, <3>1 DEF StartupInv
    <3>3. HasModule(c)'
      BY <2>3, <3>2, ModulesKept
    <3> QED
      BY <3>1, <3>2, <3>3 DEF HasModule, Holds, CommandIn
  <2>5. super' => \A i, j \in 1..Slots : Holds(i, "autoexec")' /\ Holds(j, "autoexec")'
                                      => slots'[i].rec.command = slots'[j].rec.command
    BY <2>1, <2>2 DEF StartupInv
  <2> QED
    BY <2>1, <2>4, <2>5 DEF StartupInv
<1>3. CASE ScanRecord
  <2>1. PICK n \in 1..Slots : nextRec = n
    BY <1>3 DEF ScanRecord, Room, TypeInv, TypeOK
  <2>2. super /\ UNCHANGED <<super, slots>> /\ nextRec' = n + 1 /\ pc' = "scan"
    BY <1>3, <2>1 DEF ScanRecord, CursorInv, Scanning
  <2>3. \/ Holds(n, "autoexec") /\ autoexec' = slots[n].rec.command
        \/ ~Holds(n, "autoexec") /\ autoexec' = autoexec
    <3>1. Live(n) => ~Holds(n, "autoexec")
      BY DEF Live, Holds
    <3> QED
      BY <1>3, <2>1, <3>1 DEF ScanRecord
  <2>4. autoexec' # NoCommand => \E i \in 1..Slots : i < n + 1 /\ Holds(i, "autoexec")
    BY <2>1, <2>3 DEF StartupInv
  <2>5. \A i \in 1..Slots : i < n + 1 /\ Holds(i, "autoexec") => slots[i].rec.command = autoexec'
    BY <2>1, <2>2, <2>3 DEF StartupInv
  <2> QED
    BY <2>2, <2>4, <2>5 DEF StartupInv, Holds, HasModule, CommandIn
<1>4. CASE CommitInstall
  <2>1. PICK n \in 1..Slots : nextRec = n
    BY <1>4, WriteRecordEffect DEF CommitInstall, Recording
  <2>2. PICK p : p = Pending
    OBVIOUS
  <2>3. /\ nextRec' = n + 1 /\ slots'[n] = [state |-> "full", rec |-> p] /\ super' = super
        /\ slots[n].state = "blank" /\ pc \in Recording
        /\ \A i \in 1..Slots : i # n => slots'[i] = slots[i]
    BY <1>4, <2>1, <2>2, WriteRecordEffect, RecordWritten DEF CommitInstall, Recording, WriteRecord
  <2>4. /\ p.kind = "module" /\ p.file = file /\ p \in Entry /\ mods' = AddModule(mods, p)
        /\ autoexec' = autoexec
        /\ \/ pc' = "startup" /\ autoexec = NoCommand /\ UNCHANGED <<file, reported>>
           \/ pc' = "ready" /\ reported' = file
    BY <1>4, <2>2 DEF CommitInstall, Pending, Module, Entry, Finish, TypeInv, TypeOK, LocalsOK
  <2>5. Holds(n, "module")' /\ ~Holds(n, "autoexec")' /\ CommandIn(slots'[n].rec) = CommandOf[file]
    BY <2>3, <2>4 DEF Holds, CommandIn
  <2>6. Len(mods') = Capacity \/ \E k \in DOMAIN mods' : mods'[k] = p
    BY <2>4, AddModuleEffect DEF TypeInv, TypeOK
  <2>7. pc' = "startup" => HasModule(CommandOf[file])' /\ FileListed(file)'
    BY <2>4, <2>5, <2>6 DEF HasModule, FileListed, CommandIn
  <2> QED
    BY <2>1, <2>3, <2>4, <2>5, <2>7, StartupWrite
<1>5. CASE CreateAutoexec
  BY <1>5, StartupCreate
<1>6. CASE AppendRelocated
  <2>1. PICK n \in 1..Slots : nextRec = n
    BY <1>6, WriteRecordEffect DEF AppendRelocated, Recording
  <2>2. PICK p : p = Pending
    OBVIOUS
  <2>3. /\ nextRec' = n + 1 /\ slots'[n] = [state |-> "full", rec |-> p] /\ super' = super
        /\ slots[n].state = "blank" /\ pc \in Recording /\ pc' = "map" /\ autoexec' = autoexec
        /\ \A i \in 1..Slots : i # n => slots'[i] = slots[i]
    BY <1>6, <2>1, <2>2, WriteRecordEffect, RecordWritten
       DEF AppendRelocated, Recording, WriteRecord
  <2>4. p \in Entry
    BY <1>6, <2>2 DEF AppendRelocated, Pending, TypeInv, TypeOK, LocalsOK
  <2>5. ~Holds(n, "autoexec")'
    BY <2>3, <2>4 DEF Holds, Entry
  <2> QED
    BY <2>1, <2>3, <2>5, StartupWrite
<1>7. CASE ScanEnd
  <2>1. /\ UNCHANGED <<super, slots, nextRec, autoexec>> /\ pc' \in {"migrate", "ready"}
        /\ pc' = "migrate" => autoexec = NoCommand
    BY <1>7 DEF ScanEnd
  <2> QED
    BY <2>1 DEF StartupInv, Holds, HasModule, CommandIn
<1>8. CASE UNCHANGED vars \/ \E e \in Env : Boot(e)
  <2>1. /\ UNCHANGED <<super, slots, nextRec, autoexec, file, mods>>
        /\ pc' = pc \/ (pc = "off" /\ pc' \in {"scan", "format"})
    BY <1>8 DEF vars, Boot
  <2> QED
    BY <2>1 DEF StartupInv, Holds, HasModule, CommandIn, FileListed
<1>9. CASE /\ UNCHANGED <<super, slots, nextRec, autoexec>>
           /\ pc' \notin {"off", "format", "superblock", "startup", "migrate"}
  BY <1>9, StartupQuiet
<1>10. \/ UNCHANGED vars \/ (\E e \in Env : Boot(e)) \/ EraseAll \/ WriteSuperblock \/ Crash
       \/ ScanRecord \/ CommitInstall \/ CreateAutoexec \/ AppendRelocated \/ ScanEnd
       \/ /\ UNCHANGED <<super, slots, nextRec, autoexec>>
          /\ pc' \notin {"off", "format", "superblock", "startup", "migrate"}
  <2>1. VerifyModule => pc' \in {"commit", "ready"}
    BY DEF VerifyModule, Finish
  <2> QED
    BY <1>s, <1>h, <2>1 DEF Next, Mounting, Installing, Activating, Failing,
       StartInstall, EraseExtent, CopyChunk, VerifyModule, Activate, EraseSector,
       FlushSector, MapModule, Deactivate, RecordRefused, StepFails, Finish
<1> QED
  BY <1>1, <1>2, <1>3, <1>4, <1>5, <1>6, <1>7, <1>8, <1>9, <1>10

LEMMA ReportNext ==
  ASSUME TypeInv, StartupInv, ReportInv, [Next]_vars
  PROVE  ReportInv'
<1> USE DEF flash, catalog, work
<1>1. CASE CommitInstall
  <2>1. PICK p : p = Pending
    OBVIOUS
  <2>2. /\ p.file = file /\ p \in Entry /\ mods' = AddModule(mods, p)
        /\ \/ pc' = "startup" /\ reported' = reported /\ pc # "ready"
           \/ pc' = "ready" /\ reported' = file
    BY <1>1, <2>1 DEF CommitInstall, Pending, Module, Entry, Finish, TypeInv, TypeOK, LocalsOK
  <2>3. Len(mods') = Capacity \/ \E k \in DOMAIN mods' : mods'[k] = p
    BY <2>2, AddModuleEffect DEF TypeInv, TypeOK
  <2> QED
    BY <2>2, <2>3 DEF ReportInv, FileListed
<1>2. CASE CreateAutoexec
  <2>1. /\ mods' = mods /\ pc' = "ready"
        /\ \/ reported' = NoFile
           \/ reported' = file /\ FileListed(file)
    BY <1>2 DEF CreateAutoexec, Finish, StartupInv
  <2> QED
    BY <2>1 DEF ReportInv, FileListed
<1>3. CASE reported' = NoFile
  BY <1>3 DEF ReportInv
<1>4. CASE UNCHANGED reported /\ pc # "ready"
  BY <1>4 DEF ReportInv
<1>5. CASE UNCHANGED vars
  BY <1>5 DEF vars, ReportInv, FileListed
<1> QED
  BY <1>1, <1>2, <1>3, <1>4, <1>5
     DEF Next, Mounting, Installing, Activating, Failing, Boot, EraseAll, WriteSuperblock,
     ScanRecord, ScanEnd, StartInstall, EraseExtent, CopyChunk, VerifyModule, Activate,
     EraseSector, FlushSector, AppendRelocated, MapModule, Deactivate, RecordRefused,
     RecordFails, StepFails, Crash, Finish, Recording

-----------------------------------------------------------------------------
(* The catalog as a whole.                                                 *)

CatalogInv ==
  TypeInv /\ CursorInv /\ ListedInv /\ RecordedInv /\ TableInv /\ StartupInv /\ ReportInv

LEMMA CatalogInductive ==
  ASSUME HonestDriver
  PROVE  Spec => []CatalogInv
<1>1. SoundRecords
  BY DEF HonestDriver, SoundRecords
<1>2. Init => CatalogInv
  BY TypeInit, CursorInit, ListedInit, RecordedInit, TableInit, StartupInit DEF CatalogInv
<1>3. CatalogInv /\ [Next]_vars => CatalogInv'
  BY <1>1, TypeNext, CursorNext, ListedNext, RecordedNext, TableNext, StartupNext, ReportNext
     DEF CatalogInv
<1> QED
  BY <1>2, <1>3, PTL DEF Spec

(* What the shell lists is what a reboot would list, whatever failed on the *)
(* way: for every volume, table and set of commands, under power failures  *)
(* anywhere and errors of everything but the write of a record and the     *)
(* mapping of a module during the mount, if no record is torn behind a     *)
(* first byte that still reads as free.                                    *)
THEOREM RebootListsTheSame ==
  ASSUME HonestDriver
  PROVE  Spec => []RebootKeepsCatalog
<1>1. CatalogInv => RebootKeepsCatalog
  <2> SUFFICES ASSUME CatalogInv PROVE RebootKeepsCatalog
    OBVIOUS
  <2> USE DEF CatalogInv
  <2>1. InstalledIsListed
    BY DEF ReportInv, InstalledIsListed, FileListed
  <2> SUFFICES ASSUME Mounted
               PROVE  ListedIsNewest /\ CommittedIsListed /\ StartupIsRecorded /\ StartupNamesModule
    BY <2>1 DEF RebootKeepsCatalog
  <2>2. super /\ \A i \in 1..Slots : i < nextRec \/ slots[i].state = "blank"
    BY DEF CursorInv, Scanning, TypeInv, TypeOK
  <2>3. \A i \in 1..Slots : /\ Live(i) <=> Holds(i, "module")
                            /\ Holds(i, "module") => i < nextRec
                            /\ Holds(i, "autoexec") => i < nextRec
    BY <2>2 DEF RecordedInv, Live, Holds
  <2>4. ListedIsNewest
    BY <2>3 DEF ListedIsNewest, TableInv, NewestFor
  <2>5. CommittedIsListed
    BY <2>3 DEF CommittedIsListed, TableInv, Named
  <2>6. StartupIsRecorded
    BY <2>3 DEF StartupIsRecorded, StartupInv
  <2>7. StartupNamesModule
    <3> SUFFICES ASSUME autoexec # NoCommand
                 PROVE  \E i \in 1..Slots : Live(i) /\ CommandIn(slots[i].rec) = autoexec
      BY DEF StartupNamesModule
    <3>1. PICK j \in 1..Slots : Holds(j, "autoexec")
      BY DEF StartupInv
    <3>2. slots[j].rec.command = autoexec /\ HasModule(slots[j].rec.command)
      BY <2>2, <2>3, <3>1 DEF StartupInv
    <3> QED
      BY <2>3, <3>2 DEF HasModule
  <2> QED
    BY <2>4, <2>5, <2>6, <2>7
<1> QED
  BY <1>1, CatalogInductive, PTL

(* Under the same faults the extents are append-only: the module a complete *)
(* record names keeps its manifest through every later installation.        *)
ExtentStep == \A i \in 1..Slots : super /\ Live(i) => data'[slots[i].rec.at].head = slots[i].rec.file

THEOREM ExtentsAreAppendOnly ==
  ASSUME HonestDriver
  PROVE  Spec => ExtentsAppendOnly
<1>s. ~RecordFails
  BY HonestRecords
<1>1. CatalogInv /\ CatalogInv' /\ [Next]_vars => [ExtentStep]_vars
  <2> SUFFICES ASSUME CatalogInv, CatalogInv', Next, NEW i \in 1..Slots, super, Live(i)
               PROVE  data'[slots[i].rec.at].head = slots[i].rec.file
    BY DEF ExtentStep, vars, flash, Live
  <2>1. AppendStep
    BY HonestRecords, AppendNext DEF CatalogInv
  <2>2. super'
    BY <1>s DEF Next, Mounting, Installing, Activating, Failing, Boot, EraseAll, WriteSuperblock,
       ScanRecord, ScanEnd, StartInstall, EraseExtent, CopyChunk, VerifyModule, CommitInstall,
       CreateAutoexec, WriteRecord, Activate, EraseSector, FlushSector, AppendRelocated,
       MapModule, Deactivate, RecordRefused, StepFails, Crash, flash
  <2>3. slots'[i] = slots[i] /\ Holds(i, "module")'
    BY <2>1 DEF AppendStep, Live, Holds
  <2>4. Live(i)'
    BY <2>2, <2>3 DEF CatalogInv, RecordedInv
  <2> QED
    BY <2>3, <2>4 DEF Live
<1>2. Spec => [][ExtentStep]_vars
  BY <1>1, CatalogInductive, PTL DEF Spec
<1> QED
  BY <1>2 DEF ExtentsAppendOnly, ExtentStep

-----------------------------------------------------------------------------
(* The catalog in flash implements XipCatalog.                             *)

\* The first module of the catalog leads the table.
FirstModule ==
  mods # <<>> =>
    \E i \in 1..Slots : /\ i < nextRec /\ Holds(i, "module")
                        /\ CommandIn(slots[i].rec) = CommandIn(mods[1])
                        /\ \A j \in 1..Slots : j < i => ~Holds(j, "module")

\* A volume with modules gets its AUTOEXEC.BAT before anything else is installed,
\* while it knows one command only, unless the catalog is full.
ScriptComesFirst ==
  /\ pc = "startup" => \A i \in 1..Slots : Holds(i, "module")
                                             => CommandIn(slots[i].rec) = CommandOf[file]
  /\ Mounted /\ pc \notin {"startup", "migrate"} /\ autoexec = NoCommand /\ mods # <<>> => ~Room
  /\ pc = "commit" => file \in ValidFile

LEMMA FirstQuiet ==
  ASSUME FirstModule, SlotsKept, nextRec' = nextRec, mods' # <<>> => mods # <<>>,
         mods # <<>> => CommandIn(mods'[1]) = CommandIn(mods[1])
  PROVE  FirstModule'
<1> SUFFICES ASSUME mods' # <<>> PROVE FirstModule'
  BY DEF FirstModule
<1>1. PICK i \in 1..Slots : /\ i < nextRec /\ Holds(i, "module")
                            /\ CommandIn(slots[i].rec) = CommandIn(mods[1])
                            /\ \A j \in 1..Slots : j < i => ~Holds(j, "module")
  BY DEF FirstModule
<1>2. /\ Holds(i, "module")' /\ CommandIn(slots[i].rec)' = CommandIn(slots[i].rec)
      /\ \A j \in 1..Slots : j < i => ~Holds(j, "module")'
  BY <1>1, KeptRecords DEF CommandIn
<1> QED
  BY <1>1, <1>2 DEF FirstModule, CommandIn

LEMMA FirstAdd ==
  ASSUME TypeInv, TableInv, FirstModule, NEW e \in Entry, NEW n \in 1..Slots,
         nextRec = n, nextRec' = n + 1,
         slots'[n].state = "full", slots'[n].rec = e,
         \A i \in 1..Slots : i # n => slots'[i] = slots[i],
         mods' = AddModule(mods, e)
  PROVE  FirstModule'
<1>t. mods \in Seq(Entry) /\ Len(mods) <= Capacity /\ Capacity \in Nat \ {0}
  BY XipAssumption DEF TypeInv, TypeOK
<1>1. /\ \A k \in DOMAIN mods : k \in DOMAIN mods' /\ CommandIn(mods'[k]) = CommandIn(mods[k])
      /\ \A k \in DOMAIN mods' : mods'[k] = e \/ k \in DOMAIN mods
  BY <1>t, AddModuleEffect
<1>2. CASE mods = <<>>
  <2>1. mods' \in Seq(Entry) /\ (mods' # <<>> => mods'[1] = e)
    <3>1. mods' \in Seq(Entry)
      BY <1>t, AddModuleType
    <3>2. mods' # <<>> => 1 \in DOMAIN mods'
      BY <3>1
    <3> QED
      BY <1>1, <1>2, <3>1, <3>2
  <2>2. ASSUME NEW j \in 1..Slots, j < n PROVE ~Holds(j, "module")'
    <3>1. slots'[j] = slots[j] /\ j < nextRec
      BY <2>2
    <3>2. ~Named(CommandIn(slots[j].rec))
      BY <1>t, <1>2 DEF Named
    <3> QED
      BY <3>1, <3>2 DEF TableInv, Holds
  <2>3. Holds(n, "module")' /\ n < nextRec'
    BY DEF Holds, Entry
  <2> QED
    BY <2>1, <2>2, <2>3 DEF FirstModule, CommandIn
<1>3. CASE mods # <<>>
  <2>1. PICK i \in 1..Slots : /\ i < nextRec /\ Holds(i, "module")
                              /\ CommandIn(slots[i].rec) = CommandIn(mods[1])
                              /\ \A j \in 1..Slots : j < i => ~Holds(j, "module")
    BY <1>3 DEF FirstModule
  <2>2. 1 \in DOMAIN mods
    BY <1>t, <1>3
  <2>3. CommandIn(mods'[1]) = CommandIn(mods[1])
    BY <1>1, <2>2
  <2>4. \A j \in 1..Slots : j <= i => slots'[j] = slots[j]
    BY <2>1
  <2>5. Holds(i, "module")' /\ i < nextRec' /\ slots'[i] = slots[i]
    BY <2>1, <2>4 DEF Holds
  <2>6. \A j \in 1..Slots : j < i => ~Holds(j, "module")'
    BY <2>1, <2>4 DEF Holds
  <2> QED
    BY <2>1, <2>3, <2>5, <2>6 DEF FirstModule, CommandIn
<1> QED
  BY <1>2, <1>3

LEMMA FirstSkip ==
  ASSUME FirstModule, NEW n \in 1..Slots, nextRec = n, nextRec' = n + 1,
         \A i \in 1..Slots : i # n => slots'[i] = slots[i],
         mods' = mods
  PROVE  FirstModule'
<1> SUFFICES ASSUME mods # <<>> PROVE FirstModule'
  BY DEF FirstModule
<1>1. PICK i \in 1..Slots : /\ i < nextRec /\ Holds(i, "module")
                            /\ CommandIn(slots[i].rec) = CommandIn(mods[1])
                            /\ \A j \in 1..Slots : j < i => ~Holds(j, "module")
  BY DEF FirstModule
<1>2. \A j \in 1..Slots : j <= i => slots'[j] = slots[j]
  BY <1>1
<1>3. Holds(i, "module")' /\ i < nextRec' /\ slots'[i] = slots[i]
  BY <1>1, <1>2 DEF Holds
<1>4. \A j \in 1..Slots : j < i => ~Holds(j, "module")'
  BY <1>1, <1>2 DEF Holds
<1> QED
  BY <1>1, <1>3, <1>4 DEF FirstModule, CommandIn

LEMMA FirstNext ==
  ASSUME HonestDriver, TypeInv, CursorInv, ListedInv, RecordedInv, TableInv, FirstModule, [Next]_vars
  PROVE  FirstModule'
<1>s. ~RecordFails
  BY HonestRecords
<1> USE DEF flash, catalog, work
<1>h. SoundRecords /\ "scan_error" \notin Faults
  BY DEF HonestDriver, SoundRecords
<1>t. /\ nextRec \in 1..(Slots + 1) /\ mods \in Seq(Entry)
      /\ \A k \in DOMAIN mods : mods[k] \in Entry
  BY DEF TypeInv, TypeOK
<1>1. CASE EraseAll \/ WriteSuperblock \/ Crash
  <2>1. mods' = <<>>
    BY <1>1 DEF EraseAll, WriteSuperblock, CursorInv, Crash
  <2> QED
    BY <2>1 DEF FirstModule
<1>3. CASE ScanRecord
  <2>1. PICK n \in 1..Slots : nextRec = n
    BY <1>3, <1>t DEF ScanRecord, Room
  <2>2. super /\ UNCHANGED slots /\ nextRec' = n + 1
    BY <1>3, <2>1 DEF ScanRecord, CursorInv, Scanning
  <2>3. CASE Live(n) /\ mods' = AddModule(mods, slots[n].rec)
    <3>1. slots[n].rec \in Entry /\ slots[n].state = "full"
      BY <2>3, SlotTypes DEF Live, Holds
    <3> QED
      BY <2>1, <2>2, <2>3, <3>1, FirstAdd
  <2>4. CASE mods' = mods
    BY <2>1, <2>2, <2>4, FirstSkip
  <2> QED
    BY <1>3, <2>1, <2>3, <2>4 DEF ScanRecord
<1>4. CASE pc \in Recording /\ WriteRecord /\ (CommitInstall \/ CreateAutoexec \/ AppendRelocated)
  <2>1. PICK n \in 1..Slots : nextRec = n
    BY <1>4, WriteRecordEffect
  <2>2. PICK p : p = Pending
    OBVIOUS
  <2>3. /\ nextRec' = n + 1 /\ slots'[n] = [state |-> "full", rec |-> p]
        /\ \A i \in 1..Slots : i # n => slots'[i] = slots[i]
    BY <1>4, <2>1, <2>2, WriteRecordEffect
  <2>4. CASE CommitInstall
    <3>1. mods' = AddModule(mods, p) /\ pc = "commit"
      BY <2>2, <2>4 DEF CommitInstall
    <3>2. p \in Entry
      <4>1. pc \notin {"startup", "migrate"}
        BY <3>1
      <4> QED
        BY <1>4, <2>2, <4>1, PendingListed
    <3> QED
      BY <2>1, <2>3, <3>1, <3>2, FirstAdd
  <2>5. CASE CreateAutoexec \/ AppendRelocated
    <3>1. mods' = mods
      BY <2>5 DEF CreateAutoexec, AppendRelocated
    <3> QED
      BY <2>1, <2>3, <3>1, FirstSkip
  <2> QED
    BY <1>4, <2>4, <2>5
<1>5. CASE FlushSector
  <2>1. /\ UNCHANGED <<slots, nextRec>> /\ target \in DOMAIN mods
        /\ mods' = mods \/ mods' = [mods EXCEPT ![target].env = env]
    BY <1>5 DEF FlushSector, TypeInv, LocalsOK
  <2>2. mods # <<>> /\ 1 \in DOMAIN mods
    BY <1>t, <2>1
  <2>3. mods'[1] = mods[1] \/ mods'[1] = [mods[1] EXCEPT !.env = env]
    BY <2>1, <2>2
  <2>4. CommandIn(mods'[1]) = CommandIn(mods[1])
    BY <1>t, <2>2, <2>3 DEF Entry, CommandIn
  <2> QED
    BY <2>1, <2>2, <2>4, FirstQuiet DEF SlotsKept
<1>6. CASE UNCHANGED <<slots, mods, nextRec>>
  BY <1>6, FirstQuiet DEF SlotsKept
<1>7. \/ EraseAll \/ WriteSuperblock \/ Crash \/ ScanRecord \/ FlushSector
      \/ pc \in Recording /\ WriteRecord /\ (CommitInstall \/ CreateAutoexec \/ AppendRelocated)
      \/ UNCHANGED <<slots, mods, nextRec>>
  BY <1>s, <1>h DEF Next, Mounting, Installing, Activating, Failing, vars, Boot,
     ScanEnd, StartInstall, EraseExtent, CopyChunk, VerifyModule, CommitInstall,
     CreateAutoexec, Recording, Activate, EraseSector, AppendRelocated,
     MapModule, Deactivate, RecordRefused, StepFails
<1> QED
  BY <1>1, <1>3, <1>4, <1>5, <1>6, <1>7

LEMMA ScriptNext ==
  ASSUME HonestDriver, TypeInv, CursorInv, ListedInv, RecordedInv, TableInv, StartupInv,
         ScriptComesFirst, [Next]_vars
  PROVE  ScriptComesFirst'
<1>s. ~RecordFails
  BY HonestRecords
<1> USE DEF flash, catalog, work
<1>h. SoundRecords /\ "scan_error" \notin Faults
  BY DEF HonestDriver, SoundRecords
<1>t. /\ nextRec \in 1..(Slots + 1) /\ mods \in Seq(Entry) /\ Slots \in Nat
      /\ Capacity \in Nat \ {0} /\ Len(mods) <= Capacity
  BY XipAssumption DEF TypeInv, TypeOK
<1>1. CASE EraseAll \/ WriteSuperblock \/ Crash \/ ScanRecord \/ ScanEnd \/ (\E e \in Env : Boot(e))
  BY <1>1 DEF EraseAll, WriteSuperblock, Crash, ScanRecord, ScanEnd, Boot, ScriptComesFirst, Mounted
<1>2. CASE CommitInstall
  <2>1. pc = "commit" /\ WriteRecord /\ Room /\ pc \in Recording /\ Mounted /\ super
    BY <1>2 DEF CommitInstall, WriteRecord, Recording, Mounted, CursorInv, Scanning
  <2>2. CASE autoexec # NoCommand
    <3>1. pc' = "ready" /\ autoexec' # NoCommand
      BY <1>2, <2>2 DEF CommitInstall, Finish
    <3> QED
      BY <3>1 DEF ScriptComesFirst
  <2>3. CASE autoexec = NoCommand
    <3>1. mods = <<>> /\ pc' = "startup" /\ file' = file
      BY <1>2, <2>1, <2>3 DEF CommitInstall, ScriptComesFirst
    <3>2. ASSUME NEW i \in 1..Slots, i < nextRec PROVE ~Holds(i, "module")
      <4>1. ~Named(CommandIn(slots[i].rec))
        BY <1>t, <3>1 DEF Named
      <4> QED
        BY <3>2, <4>1 DEF TableInv
    <3>3. PICK n \in 1..Slots : nextRec = n
      BY <2>1, WriteRecordEffect
    <3>4. PICK p : p = Pending
      OBVIOUS
    <3>5. /\ slots'[n] = [state |-> "full", rec |-> p]
          /\ \A i \in 1..Slots : i # n => slots'[i] = slots[i]
      BY <2>1, <3>3, <3>4, WriteRecordEffect
    <3>6. p.file = file
      BY <2>1, <3>4 DEF Pending, Module
    <3>7. ASSUME NEW i \in 1..Slots, Holds(i, "module")' PROVE i = n
      <4> SUFFICES ASSUME i # n PROVE FALSE
        OBVIOUS
      <4>1. Holds(i, "module")
        BY <3>5, <3>7 DEF Holds
      <4>2. i < nextRec
        BY <1>t, <2>1, <4>1 DEF CursorInv, Holds
      <4> QED
        BY <3>2, <4>1, <4>2
    <3> QED
      BY <3>1, <3>5, <3>6, <3>7 DEF ScriptComesFirst, CommandIn
  <2> QED
    BY <2>2, <2>3
<1>3. CASE CreateAutoexec
  <2>1. pc \in {"startup", "migrate"} /\ pc \in Recording /\ pc' = "ready" /\ autoexec' = Pending.command
    BY <1>3 DEF CreateAutoexec, Finish, Recording
  <2>2. Pending.command \in Command
    <3>1. Pending.kind = "autoexec" /\ Pending \in Record
      BY <2>1, PendingType, PendingListed
    <3> QED
      BY <3>1, RecordKinds DEF Script
  <2> QED
    BY <2>1, <2>2, XipAssumption DEF ScriptComesFirst
<1>4. CASE AppendRelocated
  <2>1. /\ pc = "append" /\ pc' = "map" /\ UNCHANGED <<mods, autoexec>> /\ Mounted /\ Room
        /\ target \in DOMAIN mods
    BY <1>4 DEF AppendRelocated, Mounted, WriteRecord, TypeInv, LocalsOK
  <2> QED
    BY <2>1 DEF ScriptComesFirst
<1>5. CASE FlushSector
  <2>1. pc = "flush" /\ UNCHANGED <<autoexec, nextRec>> /\ target \in DOMAIN mods
        /\ pc' \in {"append", "relocate"}
    BY <1>5 DEF FlushSector, TypeInv, LocalsOK
  <2>2. mods # <<>>
    BY <1>t, <2>1
  <2> QED
    BY <2>1, <2>2 DEF ScriptComesFirst, Mounted, Room
<1>6. CASE \/ (\E f \in File : StartInstall(f)) \/ EraseExtent \/ CopyChunk \/ VerifyModule
           \/ (\E k \in 1..Capacity : Activate(k)) \/ EraseSector \/ MapModule \/ Deactivate
           \/ StepFails \/ RecordRefused
  <2>1. UNCHANGED <<mods, autoexec, nextRec>> /\ Mounted /\ (pc \in {"startup", "migrate"} => ~Room)
        /\ pc' # "startup" /\ (pc' = "commit" => file' \in ValidFile)
    BY <1>6 DEF StartInstall, EraseExtent, CopyChunk, VerifyModule, Activate, EraseSector,
       MapModule, Deactivate, StepFails, RecordRefused, Finish, Mounted, Recording
  <2> QED
    BY <2>1 DEF ScriptComesFirst, Mounted, Room
<1>7. CASE UNCHANGED vars
  BY <1>7 DEF vars, ScriptComesFirst, Mounted, Room, Holds, CommandIn
<1> QED
  BY <1>s, <1>h, <1>1, <1>2, <1>3, <1>4, <1>5, <1>6, <1>7
     DEF Next, Mounting, Installing, Activating, Failing

(* A bounded set of numbers that is not empty has a greatest one.          *)
LEMMA GreatestOf ==
  ASSUME NEW n \in Nat, NEW T, T \subseteq 1..n, T # {}
  PROVE  \E i \in T : \A j \in T : j <= i
<1> DEFINE D == {d \in Nat : \E i \in T : d = n - i}
<1>1. \A i \in T : n - i \in D
  OBVIOUS
<1>2. D \subseteq Nat /\ D # {}
  BY <1>1
<1>3. PICK d \in D : \A e \in D : d <= e
  <2> HIDE DEF D
  <2> QED
    BY <1>2, LeastOf
<1>4. PICK i \in T : d = n - i
  OBVIOUS
<1>5. ASSUME NEW j \in T PROVE j <= i
  <2>1. n - i <= n - j
    BY <1>1, <1>3, <1>4
  <2> QED
    BY <2>1
<1> QED
  BY <1>5

\* Record i is one of the command c, and its first and last.
Names(i, c) == Live(i) /\ CommandIn(slots[i].rec) = c
IsFirst(i, c) == i \in 1..Slots /\ Names(i, c) /\ \A j \in 1..Slots : Names(j, c) => i <= j
IsLast(i, c) == i \in 1..Slots /\ Names(i, c) /\ \A j \in 1..Slots : Names(j, c) => j <= i

EndsFound ==
  /\ \A c : c \in Recorded <=> \E i \in 1..Slots : Names(i, c)
  /\ \A c \in Recorded : IsFirst(FirstOf(c), c) /\ IsLast(LastOf(c), c)
  /\ \A i, c : /\ IsFirst(i, c) => FirstOf(c) = i
               /\ IsLast(i, c) => LastOf(c) = i
  /\ IsFiniteSet(Recorded)

LEMMA EndsExist == EndsFound
<1>s. Slots \in Nat
  BY XipAssumption
<1>1. \A c : c \in Recorded <=> \E i \in 1..Slots : Names(i, c)
  BY DEF Recorded, Names
<1>2. ASSUME NEW c \in Recorded PROVE IsFirst(FirstOf(c), c)
  <2> DEFINE T == {i \in 1..Slots : Names(i, c)}
  <2>1. T # {} /\ T \subseteq Nat
    BY <1>1
  <2>2. PICK i \in T : \A j \in T : i <= j
    <3> HIDE DEF T
    <3> QED
      BY <2>1, LeastOf
  <2> DEFINE P(k) == Names(k, c) /\ \A j \in 1..(k - 1) : Live(j) => CommandIn(slots[j].rec) # c
  <2>3. i \in 1..Slots /\ P(i)
    BY <1>s, <2>2 DEF Names
  <2>4. FirstOf(c) = CHOOSE k \in 1..Slots : P(k)
    BY DEF FirstOf, Names
  <2>5. FirstOf(c) \in 1..Slots /\ P(FirstOf(c))
    <3> HIDE DEF P
    <3> QED
      BY <2>3, <2>4
  <2>6. ASSUME NEW j \in 1..Slots, Names(j, c) PROVE FirstOf(c) <= j
    BY <1>s, <2>5, <2>6 DEF Names
  <2> QED
    BY <2>5, <2>6 DEF IsFirst
<1>3. ASSUME NEW c \in Recorded PROVE IsLast(LastOf(c), c)
  <2> DEFINE T == {i \in 1..Slots : Names(i, c)}
  <2>1. T # {} /\ T \subseteq 1..Slots
    BY <1>1
  <2>2. PICK i \in T : \A j \in T : j <= i
    <3> HIDE DEF T
    <3> QED
      BY <1>s, <2>1, GreatestOf
  <2> DEFINE P(k) == Names(k, c) /\ \A j \in (k + 1)..Slots : Live(j) => CommandIn(slots[j].rec) # c
  <2>3. i \in 1..Slots /\ P(i)
    BY <1>s, <2>2 DEF Names
  <2>4. LastOf(c) = CHOOSE k \in 1..Slots : P(k)
    BY DEF LastOf, Names
  <2>5. LastOf(c) \in 1..Slots /\ P(LastOf(c))
    <3> HIDE DEF P
    <3> QED
      BY <2>3, <2>4
  <2>6. ASSUME NEW j \in 1..Slots, Names(j, c) PROVE j <= LastOf(c)
    BY <1>s, <2>5, <2>6 DEF Names
  <2> QED
    BY <2>5, <2>6 DEF IsLast
<1>4. IsFiniteSet(Recorded)
  <2> DEFINE L == {j \in 1..Slots : Live(j)}
             f == [i \in L |-> CommandIn(slots[i].rec)]
  <2>1. IsFiniteSet(1..Slots)
    BY <1>s, FS_Interval
  <2>2. IsFiniteSet(L)
    BY <2>1, FS_Subset
  <2>3. f \in Surjection(L, Recorded)
    BY DEF Recorded, Surjection
  <2> HIDE DEF L, f
  <2> QED
    BY <2>2, <2>3, FS_Surjection
<1>5. ASSUME NEW i, NEW c, IsFirst(i, c) PROVE FirstOf(c) = i
  <2>1. c \in Recorded /\ i \in Nat /\ FirstOf(c) \in Nat
    BY <1>1, <1>2, <1>5 DEF IsFirst
  <2>2. i <= FirstOf(c) /\ FirstOf(c) <= i
    BY <1>2, <1>5, <2>1 DEF IsFirst
  <2> QED
    BY <2>1, <2>2
<1>6. ASSUME NEW i, NEW c, IsLast(i, c) PROVE LastOf(c) = i
  <2>1. c \in Recorded /\ i \in Nat /\ LastOf(c) \in Nat
    BY <1>1, <1>3, <1>6 DEF IsLast
  <2>2. i <= LastOf(c) /\ LastOf(c) <= i
    BY <1>3, <1>6, <2>1 DEF IsLast
  <2> QED
    BY <2>1, <2>2
<1> QED
  BY <1>1, <1>2, <1>3, <1>4, <1>5, <1>6 DEF EndsFound

LEMMA EndsExistNext == EndsFound'
  BY EndsExist, PTL

(* The first record of a command decides whether the table keeps it.       *)
LEMMA CommandsKept ==
  ASSUME Recorded' = Recorded, \A c \in Recorded : FirstOf(c)' = FirstOf(c)
  PROVE  DurableCommands' = DurableCommands
<1>1. ASSUME NEW c \in Recorded
      PROVE  {d \in Recorded : FirstOf(d) < FirstOf(c)}' = {d \in Recorded : FirstOf(d) < FirstOf(c)}
  BY <1>1
<1> QED
  BY <1>1 DEF DurableCommands

(* The records of modules are those there were.                            *)
LEMMA LivesKept ==
  ASSUME \A i \in 1..Slots : /\ Live(i)' <=> Live(i)
                             /\ Live(i) => slots'[i] = slots[i]
  PROVE  /\ Recorded' = Recorded
         /\ \A c \in Recorded : FirstOf(c)' = FirstOf(c) /\ LastOf(c)' = LastOf(c)
         /\ DurableCommands' = DurableCommands
<1>1. \A i \in 1..Slots : \A c : Names(i, c)' <=> Names(i, c)
  BY DEF Names, CommandIn
<1>2. Recorded' = Recorded
  BY <1>1, EndsExist, EndsExistNext DEF EndsFound
<1>3. ASSUME NEW c \in Recorded
      PROVE  FirstOf(c)' = FirstOf(c) /\ LastOf(c)' = LastOf(c)
  <2>1. PICK a, b : a = FirstOf(c) /\ b = LastOf(c)
    OBVIOUS
  <2>2. IsFirst(a, c) /\ IsLast(b, c)
    BY <2>1, EndsExist DEF EndsFound
  <2>3. IsFirst(a, c)' /\ IsLast(b, c)'
    BY <1>1, <2>2 DEF IsFirst, IsLast
  <2> QED
    BY <2>1, <2>3, EndsExistNext DEF EndsFound
<1> QED
  BY <1>2, <1>3, CommandsKept

(* A record of a module comes behind all others.                           *)
LEMMA ModuleAdded ==
  ASSUME NEW n \in 1..Slots, NEW c,
         Names(n, c)', ~Live(n), \A i \in 1..Slots : Live(i) => i < n,
         \A i \in 1..Slots : i # n => /\ Live(i)' <=> Live(i)
                                      /\ Live(i) => slots'[i] = slots[i]
  PROVE  /\ Recorded' = Recorded \cup {c}
         /\ \A d \in Recorded : FirstOf(d)' = FirstOf(d)
         /\ c \notin Recorded => FirstOf(c)' = n
         /\ LastOf(c)' = n
         /\ \A d \in Recorded : d # c => LastOf(d)' = LastOf(d)
<1>1. \A i \in 1..Slots : \A d : i # n => (Names(i, d)' <=> Names(i, d))
  BY DEF Names, CommandIn
<1>2. /\ \A d : Names(n, d)' <=> d = c
      /\ \A d : ~Names(n, d)
      /\ \A i \in 1..Slots : \A d : Names(i, d) => i < n
  BY DEF Names
<1>3. Recorded' = Recorded \cup {c}
  BY <1>1, <1>2, EndsExist, EndsExistNext DEF EndsFound
<1>4. ASSUME NEW d \in Recorded PROVE FirstOf(d)' = FirstOf(d)
  <2>1. PICK a : a = FirstOf(d)
    OBVIOUS
  <2>2. IsFirst(a, d) /\ a < n /\ a # n
    BY <1>2, <2>1, EndsExist DEF EndsFound, IsFirst
  <2>3. IsFirst(a, d)'
    BY <1>1, <1>2, <2>2 DEF IsFirst
  <2> QED
    BY <2>1, <2>3, EndsExistNext DEF EndsFound
<1>5. ASSUME c \notin Recorded PROVE FirstOf(c)' = n
  <2>1. \A i \in 1..Slots : i # n => ~Names(i, c)'
    BY <1>1, <1>5, EndsExist DEF EndsFound
  <2>2. IsFirst(n, c)'
    BY <2>1 DEF IsFirst
  <2> QED
    BY <2>2, EndsExistNext DEF EndsFound
<1>6. LastOf(c)' = n
  <2>1. IsLast(n, c)'
    BY <1>1, <1>2 DEF IsLast
  <2> QED
    BY <2>1, EndsExistNext DEF EndsFound
<1>7. ASSUME NEW d \in Recorded, d # c PROVE LastOf(d)' = LastOf(d)
  <2>1. PICK a : a = LastOf(d)
    OBVIOUS
  <2>2. IsLast(a, d) /\ a < n /\ a # n
    BY <1>2, <2>1, EndsExist DEF EndsFound, IsLast
  <2>3. IsLast(a, d)'
    BY <1>1, <1>2, <1>7, <2>2 DEF IsLast
  <2> QED
    BY <2>1, <2>3, EndsExistNext DEF EndsFound
<1> QED
  BY <1>3, <1>4, <1>5, <1>6, <1>7

(* A command that is new is kept as long as fewer than Capacity came before *)
(* it.                                                                     *)
LEMMA CommandAdded ==
  ASSUME NEW n \in 1..Slots, NEW c, c \notin Recorded,
         Recorded' = Recorded \cup {c},
         \A d \in Recorded : FirstOf(d)' = FirstOf(d) /\ FirstOf(d) < n,
         FirstOf(c)' = n
  PROVE  /\ Cardinality(Recorded) < Capacity =>
               DurableCommands = Recorded /\ DurableCommands' = Recorded \cup {c}
         /\ ~(Cardinality(Recorded) < Capacity) => DurableCommands' = DurableCommands
<1> DEFINE Before(d) == {e \in Recorded : FirstOf(e) < FirstOf(d)}
<1>t. /\ IsFiniteSet(Recorded) /\ Cardinality(Recorded) \in Nat /\ Capacity \in Nat
      /\ \A d \in Recorded : FirstOf(d) \in 1..Slots
  BY XipAssumption, EndsExist, FS_CardinalityType DEF EndsFound, IsFirst
<1>1. ASSUME NEW d \in Recorded
      PROVE  {e \in Recorded : FirstOf(e) < FirstOf(d)}' = Before(d)
  <2>1. ~(n < FirstOf(d))
    BY <1>t, <1>1
  <2> QED
    BY <1>1, <2>1
<1>2. {e \in Recorded : FirstOf(e) < FirstOf(c)}' = Recorded
  <2>1. ~(n < n)
    OBVIOUS
  <2> QED
    BY <2>1
<1>3. DurableCommands = {d \in Recorded : Cardinality(Before(d)) < Capacity}
  BY DEF DurableCommands
<1>4. DurableCommands' = {d \in Recorded \cup {c} : (Cardinality({e \in Recorded : FirstOf(e) < FirstOf(d)}) < Capacity)'}
  BY DEF DurableCommands
<1>5. \A d \in Recorded : d \in DurableCommands' <=> d \in DurableCommands
  BY <1>1, <1>3, <1>4
<1>6. c \in DurableCommands' <=> Cardinality(Recorded) < Capacity
  BY <1>2, <1>4
<1>7. ASSUME Cardinality(Recorded) < Capacity, NEW d \in Recorded PROVE d \in DurableCommands
  <2>1. Cardinality(Before(d)) <= Cardinality(Recorded) /\ Cardinality(Before(d)) \in Nat
    <3>1. Before(d) \in SUBSET Recorded
      OBVIOUS
    <3> HIDE DEF Before
    <3> QED
      BY <1>t, <3>1, FS_Subset, FS_CardinalityType
  <2>2. Cardinality(Before(d)) < Capacity
    <3> HIDE DEF Before
    <3> QED
      BY <1>t, <1>7, <2>1
  <2> QED
    BY <1>3, <2>2
<1>8. DurableCommands \subseteq Recorded /\ DurableCommands' \subseteq Recorded \cup {c}
  BY <1>3, <1>4
<1> QED
  BY <1>5, <1>6, <1>7, <1>8

\* The map and the startup command that flash stands for.
Installed == IF super THEN [c \in DurableCommands |-> slots[LastOf(c)].rec.file] ELSE << >>
StartupSeen == IF super THEN DurableStartup ELSE NoCommand

ScriptFound ==
  /\ \A i \in 1..Slots :
       /\ Holds(i, "autoexec")
       /\ \A j \in 1..Slots : Holds(j, "autoexec") => slots[j].rec.command = slots[i].rec.command
       => DurableStartup = slots[i].rec.command
  /\ (\A i \in 1..Slots : ~Holds(i, "autoexec")) => DurableStartup = NoCommand

LEMMA ScriptExists == ScriptFound
<1>s. Slots \in Nat
  BY XipAssumption
<1>1. ASSUME NEW i \in 1..Slots, Holds(i, "autoexec"),
             \A j \in 1..Slots : Holds(j, "autoexec") => slots[j].rec.command = slots[i].rec.command
      PROVE  DurableStartup = slots[i].rec.command
  <2> DEFINE T == {j \in 1..Slots : Holds(j, "autoexec")}
             P(k) == Holds(k, "autoexec") /\ \A j \in (k + 1)..Slots : ~Holds(j, "autoexec")
  <2>1. T # {} /\ T \subseteq 1..Slots
    BY <1>1
  <2>2. PICK m \in T : \A j \in T : j <= m
    <3> HIDE DEF T
    <3> QED
      BY <1>s, <2>1, GreatestOf
  <2>3. m \in 1..Slots /\ P(m)
    BY <1>s, <2>2
  <2>4. DurableStartup = slots[CHOOSE k \in 1..Slots : P(k)].rec.command
    BY <1>1 DEF DurableStartup
  <2>5. (CHOOSE k \in 1..Slots : P(k)) \in 1..Slots /\ P(CHOOSE k \in 1..Slots : P(k))
    <3> HIDE DEF P
    <3> QED
      BY <2>3
  <2> QED
    BY <1>1, <2>4, <2>5
<1>2. (\A i \in 1..Slots : ~Holds(i, "autoexec")) => DurableStartup = NoCommand
  BY DEF DurableStartup
<1> QED
  BY <1>1, <1>2 DEF ScriptFound

LEMMA ScriptExistsNext == ScriptFound'
  BY ScriptExists, PTL

\* The complete startup records are those there were.
LEMMA ScriptKept ==
  ASSUME StartupInv, super,
         \A i \in 1..Slots : /\ Holds(i, "autoexec")' <=> Holds(i, "autoexec")
                             /\ Holds(i, "autoexec") => slots'[i] = slots[i]
  PROVE  DurableStartup' = DurableStartup
<1>1. CASE \A i \in 1..Slots : ~Holds(i, "autoexec")
  BY <1>1, ScriptExists, ScriptExistsNext DEF ScriptFound
<1>2. ASSUME NEW i \in 1..Slots, Holds(i, "autoexec")
      PROVE  DurableStartup' = DurableStartup
  <2>1. \A j \in 1..Slots : Holds(j, "autoexec") => slots[j].rec.command = slots[i].rec.command
    BY <1>2 DEF StartupInv
  <2>2. DurableStartup = slots[i].rec.command
    BY <1>2, <2>1, ScriptExists DEF ScriptFound
  <2>3. Holds(i, "autoexec")' /\ slots'[i] = slots[i]
        /\ \A j \in 1..Slots : Holds(j, "autoexec")' => slots'[j].rec.command = slots'[i].rec.command
    BY <1>2, <2>1
  <2>4. DurableStartup' = slots'[i].rec.command
    BY <2>3, ScriptExistsNext DEF ScriptFound
  <2> QED
    BY <2>2, <2>3, <2>4
<1> QED
  BY <1>1, <1>2

LEMMA MapKept ==
  ASSUME super, super',
         \A i \in 1..Slots : /\ Live(i)' <=> Live(i)
                             /\ Live(i) => slots'[i] = slots[i]
  PROVE  Installed' = Installed
<1>1. /\ DurableCommands' = DurableCommands
      /\ \A c \in Recorded : LastOf(c)' = LastOf(c)
  BY LivesKept
<1>2. ASSUME NEW c \in DurableCommands
      PROVE  slots[LastOf(c)].rec.file' = slots[LastOf(c)].rec.file
  <2>1. PICK a : a = LastOf(c)
    OBVIOUS
  <2>2. c \in Recorded
    BY DEF DurableCommands
  <2>3. IsLast(a, c) /\ LastOf(c)' = a
    BY <1>1, <2>1, <2>2, EndsExist DEF EndsFound
  <2>4. slots'[a] = slots[a]
    BY <2>3 DEF IsLast, Names
  <2> QED
    BY <2>1, <2>3, <2>4
<1> QED
  BY <1>1, <1>2 DEF Installed

\* A step that keeps the records keeps the map.
LEMMA RecordsKept ==
  ASSUME super, super', StartupInv, RecordedInv, RecordedInv', SlotsKept
  PROVE  Installed' = Installed /\ StartupSeen' = StartupSeen
<1>1. \A i \in 1..Slots : /\ Live(i)' <=> Live(i)
                          /\ Live(i) => slots'[i] = slots[i]
  BY KeptRecords DEF RecordedInv, Live
<1>2. \A i \in 1..Slots : /\ Holds(i, "autoexec")' <=> Holds(i, "autoexec")
                          /\ Holds(i, "autoexec") => slots'[i] = slots[i]
  BY KeptRecords
<1> QED
  BY <1>1, <1>2, MapKept, ScriptKept DEF StartupSeen

Newest(c) == slots[LastOf(c)].rec.file

\* What a record of a module written at the cursor makes of the map.
LEMMA ModuleWritten ==
  ASSUME TypeInv, CursorInv, StartupInv, RecordedInv, RecordedInv', pc \in Recording, WriteRecord,
         NEW p \in Entry, p = Pending
  PROVE  /\ super /\ super'
         /\ StartupSeen' = StartupSeen
         /\ Newest(CommandIn(p))' = p.file
         /\ \A d \in Recorded : d # CommandIn(p) => Newest(d)' = Newest(d)
         /\ CommandIn(p) \in Recorded => DurableCommands' = DurableCommands
         /\ CommandIn(p) \notin Recorded =>
              IF Cardinality(Recorded) < Capacity
                THEN DurableCommands = Recorded /\ DurableCommands' = Recorded \cup {CommandIn(p)}
                ELSE DurableCommands' = DurableCommands
<1>1. PICK n \in 1..Slots : nextRec = n
  BY WriteRecordEffect
<1>2. PICK c : c = CommandIn(p)
  OBVIOUS
<1>3. /\ super' = super /\ slots'[n] = [state |-> "full", rec |-> p] /\ slots[n].state = "blank"
      /\ \A i \in 1..Slots : i # n => slots'[i] = slots[i]
  BY <1>1, WriteRecordEffect, RecordWritten DEF WriteRecord
<1>4. super /\ Mounted
  BY DEF Recording, Mounted, CursorInv, Scanning
<1>5. /\ \A i \in 1..Slots : Live(i) <=> Holds(i, "module")
      /\ \A i \in 1..Slots : Live(i)' <=> Holds(i, "module")'
  BY <1>3, <1>4 DEF RecordedInv, Live
<1>6. p.kind = "module"
  BY DEF Entry
<1>7. Holds(n, "module")' /\ ~Holds(n, "autoexec")' /\ ~Holds(n, "module") /\ ~Holds(n, "autoexec")
  BY <1>3, <1>6 DEF Holds
<1>8. Names(n, c)' /\ ~Live(n)
  <2>1. slots'[n].rec = p
    BY <1>3
  <2> QED
    BY <1>2, <1>5, <1>7, <2>1 DEF Names, CommandIn
<1>9. \A i \in 1..Slots : Live(i) => i < n
  <2>1. \A i \in 1..Slots : i >= n => slots[i].state = "blank"
    BY <1>1, <1>4 DEF CursorInv
  <2> QED
    BY <2>1 DEF Live, Holds
<1>10. \A i \in 1..Slots : i # n => /\ Live(i)' <=> Live(i)
                                    /\ Live(i) => slots'[i] = slots[i]
  BY <1>3, <1>5 DEF Holds
<1>11. /\ Recorded' = Recorded \cup {c}
       /\ \A d \in Recorded : FirstOf(d)' = FirstOf(d)
       /\ c \notin Recorded => FirstOf(c)' = n
       /\ LastOf(c)' = n
       /\ \A d \in Recorded : d # c => LastOf(d)' = LastOf(d)
  BY <1>8, <1>9, <1>10, ModuleAdded
<1>12. Newest(c)' = p.file
  BY <1>3, <1>11 DEF Newest
<1>13. ASSUME NEW d \in Recorded, d # c PROVE Newest(d)' = Newest(d)
  <2>1. PICK a : a = LastOf(d)
    OBVIOUS
  <2>2. IsLast(a, d) /\ LastOf(d)' = a
    BY <1>11, <1>13, <2>1, EndsExist DEF EndsFound
  <2>3. slots'[a] = slots[a]
    BY <1>8, <1>10, <2>2 DEF IsLast, Names
  <2> QED
    BY <2>1, <2>2, <2>3 DEF Newest
<1>14. c \in Recorded => DurableCommands' = DurableCommands
  <2> SUFFICES ASSUME c \in Recorded PROVE DurableCommands' = DurableCommands
    OBVIOUS
  <2>1. Recorded' = Recorded
    BY <1>11
  <2> QED
    BY <1>11, <2>1, CommandsKept
<1>15. \A d \in Recorded : FirstOf(d)' = FirstOf(d) /\ FirstOf(d) < n
  BY <1>9, <1>11, EndsExist DEF EndsFound, IsFirst, Names
<1>16. c \notin Recorded =>
         IF Cardinality(Recorded) < Capacity
           THEN DurableCommands = Recorded /\ DurableCommands' = Recorded \cup {c}
           ELSE DurableCommands' = DurableCommands
  BY <1>11, <1>15, CommandAdded
<1>17. StartupSeen' = StartupSeen
  <2>1. \A i \in 1..Slots : /\ Holds(i, "autoexec")' <=> Holds(i, "autoexec")
                            /\ Holds(i, "autoexec") => slots'[i] = slots[i]
    BY <1>3, <1>7 DEF Holds
  <2> QED
    BY <1>3, <1>4, <2>1, ScriptKept DEF StartupSeen
<1> QED
  BY <1>2, <1>3, <1>4, <1>12, <1>13, <1>14, <1>16, <1>17

\* An installation of f takes effect in the map.
MapTakes(f) ==
  /\ CommandOf[f] \in DOMAIN Installed \/ Cardinality(DOMAIN Installed) < Capacity
  /\ Installed' = [c \in DOMAIN Installed \cup {CommandOf[f]} |->
                     IF c = CommandOf[f] THEN f ELSE Installed[c]]

LEMMA CommitMaps ==
  ASSUME CatalogInv, CatalogInv', CommitInstall
  PROVE  StartupSeen' = StartupSeen /\ (Installed' = Installed \/ MapTakes(file))
<1> USE DEF CatalogInv
<1>1. pc = "commit" /\ pc \in Recording /\ WriteRecord /\ file \in File
  BY DEF CommitInstall, Recording, TypeInv, LocalsOK
<1>2. PICK p \in Entry : p = Pending
  <2>1. pc \notin {"startup", "migrate"}
    BY <1>1
  <2> QED
    BY <1>1, <2>1, PendingListed
<1>3. PICK c : c = CommandOf[file]
  OBVIOUS
<1>4. p.file = file /\ CommandIn(p) = c
  BY <1>1, <1>2, <1>3 DEF Pending, Module, CommandIn
<1>5. /\ super /\ super'
      /\ StartupSeen' = StartupSeen
      /\ Newest(c)' = file
      /\ \A d \in Recorded : d # c => Newest(d)' = Newest(d)
      /\ c \in Recorded => DurableCommands' = DurableCommands
      /\ c \notin Recorded =>
           IF Cardinality(Recorded) < Capacity
             THEN DurableCommands = Recorded /\ DurableCommands' = Recorded \cup {c}
             ELSE DurableCommands' = DurableCommands
  BY <1>1, <1>2, <1>4, ModuleWritten
<1>6. /\ Installed = [d \in DurableCommands |-> Newest(d)]
      /\ Installed' = [d \in DurableCommands' |-> Newest(d)']
      /\ DOMAIN Installed = DurableCommands
      /\ DurableCommands \subseteq Recorded
  BY <1>5 DEF Installed, Newest, DurableCommands
<1>7. CASE c \in DurableCommands
  <2>1. DurableCommands' = DurableCommands /\ c \in DOMAIN Installed
        /\ DurableCommands = DOMAIN Installed \cup {c}
    BY <1>5, <1>6, <1>7
  <2>2. Installed' = [d \in DOMAIN Installed \cup {c} |-> IF d = c THEN file ELSE Installed[d]]
    BY <1>5, <1>6, <2>1
  <2> QED
    BY <1>3, <1>5, <2>1, <2>2 DEF MapTakes
<1>8. CASE c \notin DurableCommands /\ DurableCommands' = DurableCommands
  <2>1. Installed' = Installed
    BY <1>5, <1>6, <1>8
  <2> QED
    BY <1>5, <2>1
<1>9. CASE c \notin Recorded /\ Cardinality(Recorded) < Capacity
  <2>1. DurableCommands = Recorded /\ DurableCommands' = DOMAIN Installed \cup {c}
        /\ Cardinality(DOMAIN Installed) < Capacity
    BY <1>5, <1>6, <1>9
  <2>2. Installed' = [d \in DOMAIN Installed \cup {c} |-> IF d = c THEN file ELSE Installed[d]]
    BY <1>5, <1>6, <2>1
  <2> QED
    BY <1>3, <1>5, <2>1, <2>2 DEF MapTakes
<1> QED
  BY <1>5, <1>7, <1>8, <1>9

(* A relocation appends the file its command has already.                  *)
LEMMA AppendMaps ==
  ASSUME CatalogInv, CatalogInv', AppendRelocated
  PROVE  StartupSeen' = StartupSeen /\ Installed' = Installed
<1> USE DEF CatalogInv
<1>1. /\ pc = "append" /\ pc \in Recording /\ WriteRecord /\ Mounted /\ target \in DOMAIN mods
      /\ Pending = mods[target]
  BY DEF AppendRelocated, Recording, Mounted, TypeInv, LocalsOK, Pending
<1>2. PICK p \in Entry : p = Pending
  BY <1>1 DEF TypeInv, TypeOK
<1>3. PICK c : c = CommandIn(p)
  OBVIOUS
<1>4. /\ super /\ super'
      /\ StartupSeen' = StartupSeen
      /\ Newest(c)' = p.file
      /\ \A d \in Recorded : d # c => Newest(d)' = Newest(d)
      /\ c \in Recorded => DurableCommands' = DurableCommands
  BY <1>1, <1>2, <1>3, ModuleWritten
<1>5. c \in Recorded /\ Newest(c) = p.file
  <2>1. PICK i \in 1..Slots : NewestFor(i, p)
    BY <1>1, <1>2 DEF TableInv
  <2>2. \A j \in 1..Slots : Live(j) => j < nextRec
    <3>1. CursorInv /\ nextRec \in 1..(Slots + 1) /\ Slots \in Nat
      BY XipAssumption DEF TypeInv, TypeOK
    <3> HIDE DEF CatalogInv
    <3> QED
      BY <1>1, <3>1 DEF CursorInv, Live, Holds
  <2>3. Live(i) /\ CommandIn(slots[i].rec) = c /\ slots[i].rec.file = p.file
    BY <1>3, <1>4, <2>1 DEF NewestFor, RecordedInv, CommandIn
  <2>4. ASSUME NEW j \in 1..Slots, Names(j, c) PROVE j <= i
    BY <1>3, <2>1, <2>2, <2>4 DEF NewestFor, Names, Live
  <2>5. IsLast(i, c)
    BY <2>3, <2>4 DEF IsLast, Names
  <2>6. LastOf(c) = i /\ c \in Recorded
    BY <2>5, EndsExist DEF EndsFound, IsLast
  <2> QED
    BY <2>3, <2>6 DEF Newest
<1>6. \A d \in Recorded : Newest(d)' = Newest(d)
  BY <1>4, <1>5
<1>7. Installed' = Installed
  BY <1>4, <1>5, <1>6 DEF Installed, Newest, DurableCommands
<1> QED
  BY <1>4, <1>7

(* AUTOEXEC.BAT is written once, for the first command of the catalog.     *)
LEMMA ScriptMaps ==
  ASSUME CatalogInv, CatalogInv', FirstModule, ScriptComesFirst, CreateAutoexec
  PROVE  /\ Installed' = Installed
         /\ StartupSeen = NoCommand
         /\ StartupSeen' \in Command /\ StartupSeen' \in DOMAIN Installed
<1> USE DEF CatalogInv
<1>s. Slots \in Nat /\ Capacity \in Nat \ {0} /\ nextRec \in 1..(Slots + 1)
  BY XipAssumption DEF TypeInv, TypeOK
<1>1. /\ pc \in {"startup", "migrate"} /\ pc \in Recording /\ WriteRecord /\ Mounted /\ super
      /\ autoexec = NoCommand
  BY DEF CreateAutoexec, Recording, Mounted, CursorInv, Scanning, StartupInv
<1>2. PICK n \in 1..Slots : nextRec = n
  BY <1>1, WriteRecordEffect
<1>3. PICK p : p = Pending
  OBVIOUS
<1>4. PICK c : c = p.command
  OBVIOUS
<1>5. p.kind = "autoexec" /\ c \in Command
  BY <1>1, <1>3, <1>4, PendingType, PendingListed, RecordKinds DEF Script
<1>6. /\ super' = super /\ slots'[n] = [state |-> "full", rec |-> p] /\ slots[n].state = "blank"
      /\ \A i \in 1..Slots : i # n => slots'[i] = slots[i]
  BY <1>1, <1>2, <1>3, WriteRecordEffect, RecordWritten DEF WriteRecord
<1>7. \A i \in 1..Slots : ~Holds(i, "autoexec")
  <2> SUFFICES ASSUME NEW i \in 1..Slots, Holds(i, "autoexec") PROVE FALSE
    OBVIOUS
  <2>1. i < nextRec
    BY <1>1, <1>s DEF CursorInv, Holds
  <2>2. slots[i].rec.command = NoCommand
    BY <1>1, <2>1 DEF StartupInv
  <2> QED
    BY <2>2, SlotTypes, XipAssumption
<1>8. StartupSeen = NoCommand
  BY <1>7, ScriptExists DEF StartupSeen, ScriptFound
<1>9. StartupSeen' = c
  <2>1. Holds(n, "autoexec")' /\ slots'[n].rec.command = c
    <3>1. slots'[n].rec = p /\ slots'[n].state = "full"
      BY <1>6
    <3> QED
      BY <1>4, <1>5, <3>1 DEF Holds
  <2>2. \A i \in 1..Slots : Holds(i, "autoexec")' => i = n
    BY <1>6, <1>7 DEF Holds
  <2>3. DurableStartup' = c
    BY <2>1, <2>2, ScriptExistsNext DEF ScriptFound
  <2> QED
    BY <1>1, <1>6, <2>3 DEF StartupSeen
<1>10. \A i \in 1..Slots : Live(i) <=> Holds(i, "module")
  BY <1>1 DEF RecordedInv, Live
<1>11. Installed' = Installed
  <2>1. \A i \in 1..Slots : Live(i)' <=> Holds(i, "module")'
    BY <1>1, <1>6 DEF RecordedInv, Live
  <2>2. ~Holds(n, "module")' /\ ~Holds(n, "module")
    <3>1. slots'[n].rec = p
      BY <1>6
    <3> QED
      BY <1>5, <1>6, <3>1 DEF Holds
  <2>3. \A i \in 1..Slots : /\ Live(i)' <=> Live(i)
                            /\ Live(i) => slots'[i] = slots[i]
    BY <1>6, <1>10, <2>1, <2>2 DEF Holds
  <2> QED
    BY <1>1, <1>6, <2>3, MapKept
<1>12. c \in Recorded /\ \A d \in Recorded : ~(FirstOf(d) < FirstOf(c))
  <2>1. CASE pc = "startup"
    <3>1. c = CommandOf[file] /\ HasModule(c)
      BY <1>3, <1>4, <2>1 DEF Pending, Startup, StartupInv
    <3>2. c \in Recorded
      BY <1>10, <3>1, EndsExist DEF HasModule, EndsFound, Names
    <3>3. \A d \in Recorded : d = c
      BY <1>10, <2>1, <3>1, EndsExist DEF EndsFound, Names, ScriptComesFirst
    <3>4. ~(FirstOf(c) < FirstOf(c))
      BY <3>2, EndsExist DEF EndsFound, IsFirst
    <3> QED
      BY <3>2, <3>3, <3>4
  <2>2. CASE pc = "migrate"
    <3>1. c = CommandIn(mods[1]) /\ mods # <<>>
      BY <1>3, <1>4, <2>2 DEF Pending, Startup, TypeInv, LocalsOK
    <3>2. PICK i \in 1..Slots : /\ i < nextRec /\ Holds(i, "module")
                                /\ CommandIn(slots[i].rec) = c
                                /\ \A j \in 1..Slots : j < i => ~Holds(j, "module")
      BY <3>1 DEF FirstModule
    <3>3. Names(i, c) /\ \A j \in 1..Slots : Live(j) => i <= j
      BY <1>10, <3>2 DEF Names
    <3>4. IsFirst(i, c)
      BY <3>3 DEF IsFirst, Names
    <3>5. FirstOf(c) = i /\ c \in Recorded
      BY <3>4, EndsExist DEF EndsFound, IsFirst
    <3>6. ASSUME NEW d \in Recorded PROVE ~(FirstOf(d) < i)
      <4>1. PICK a : a = FirstOf(d)
        OBVIOUS
      <4>2. a \in 1..Slots /\ Live(a)
        BY <4>1, EndsExist DEF EndsFound, IsFirst, Names
      <4> QED
        BY <3>3, <4>1, <4>2
    <3> QED
      BY <3>5, <3>6
  <2> QED
    BY <1>1, <2>1, <2>2
<1>13. c \in DurableCommands
  <2>1. {d \in Recorded : FirstOf(d) < FirstOf(c)} = {}
    BY <1>12
  <2>2. Cardinality({}) < Capacity
    BY <1>s, FS_EmptySet
  <2> QED
    BY <1>12, <2>1, <2>2 DEF DurableCommands
<1>14. DOMAIN Installed = DurableCommands
  BY <1>1 DEF Installed
<1> QED
  BY <1>5, <1>8, <1>9, <1>11, <1>13, <1>14

\* What a step of the store is to the catalog.
DurableStep ==
  \/ UNCHANGED <<Installed, StartupSeen>>
  \/ StartupSeen' = StartupSeen /\ \E f \in ValidFile : MapTakes(f)
  \/ /\ StartupSeen = NoCommand /\ Installed' = Installed
     /\ StartupSeen' \in Command /\ StartupSeen' \in DOMAIN Installed

LEMMA EmptyMap ==
  ASSUME NEW F, F = [c \in {} |-> Newest(c)]
  PROVE  F = << >>
<1>1. F \in [1..0 -> {}]
  OBVIOUS
<1>2. F \in Seq({}) /\ Len(F) = 0
  BY <1>1, SeqDef, LenProperties
<1> QED
  BY <1>2, EmptySeq

LEMMA DurableNext ==
  ASSUME HonestDriver, CatalogInv, CatalogInv', FirstModule, ScriptComesFirst, [Next]_vars
  PROVE  DurableStep
<1>s. ~RecordFails
  BY HonestRecords
<1> USE DEF CatalogInv
<1>h. SoundRecords
  BY DEF HonestDriver, SoundRecords
<1>1. CASE EraseAll
  BY <1>1 DEF EraseAll, CursorInv, Installed, StartupSeen, DurableStep
<1>2. CASE WriteSuperblock
  <2>1. ~super /\ super' /\ \A i \in 1..Slots : slots'[i].state = "blank"
    BY <1>2 DEF WriteSuperblock, CursorInv
  <2>2. \A i \in 1..Slots : \A k : ~Holds(i, k)'
    BY <2>1 DEF Holds
  <2>3. Recorded' = {}
    BY <2>2 DEF Recorded, Live
  <2>4. DurableCommands' = {}
    BY <2>3 DEF DurableCommands
  <2>5. DurableStartup' = NoCommand
    BY <2>2 DEF DurableStartup
  <2>6. Installed = << >> /\ StartupSeen = NoCommand /\ StartupSeen' = NoCommand
    BY <2>1, <2>5 DEF Installed, StartupSeen
  <2>7. Installed' = << >>
    <3>1. Installed' = [c \in {} |-> Newest(c)']
      BY <2>1, <2>4 DEF Installed, Newest
    <3>2. Installed' = [c \in {} |-> Newest(c)]
      BY <3>1
    <3> QED
      BY <3>2, EmptyMap
  <2> QED
    BY <2>6, <2>7 DEF DurableStep
<1>3. CASE ~EraseAll /\ ~WriteSuperblock /\ super /\ SlotsKept
  <2>1. super'
    BY <1>s, <1>3, <1>h DEF Next, Mounting, Installing, Activating, Failing, Boot, EraseAll, WriteSuperblock,
       ScanRecord, ScanEnd, StartInstall, EraseExtent, CopyChunk, VerifyModule, CommitInstall,
       CreateAutoexec, WriteRecord, Activate, EraseSector, FlushSector, AppendRelocated,
       MapModule, Deactivate, RecordRefused, StepFails, Crash, flash, vars
  <2> QED
    BY <1>3, <2>1, RecordsKept DEF DurableStep
<1>4. CASE ~EraseAll /\ ~WriteSuperblock /\ ~super
  <2>1. ~super'
    BY <1>s, <1>4, <1>h DEF Next, Mounting, Installing, Activating, Failing, Boot, EraseAll, WriteSuperblock,
       ScanRecord, ScanEnd, StartInstall, EraseExtent, CopyChunk, VerifyModule, CommitInstall,
       CreateAutoexec, WriteRecord, Activate, EraseSector, FlushSector, AppendRelocated,
       MapModule, Deactivate, RecordRefused, StepFails, Crash, flash, vars
  <2> QED
    BY <1>4, <2>1 DEF DurableStep, Installed, StartupSeen
<1>5. CASE CommitInstall
  <2>1. file \in ValidFile
    BY <1>5 DEF CommitInstall, ScriptComesFirst
  <2> QED
    BY <1>5, <2>1, CommitMaps DEF DurableStep
<1>6. CASE AppendRelocated
  BY <1>6, AppendMaps DEF DurableStep
<1>7. CASE CreateAutoexec
  BY <1>7, ScriptMaps DEF DurableStep
<1>8. pc \in Recording /\ WriteRecord => CommitInstall \/ AppendRelocated \/ CreateAutoexec \/ SlotsKept
  <2> SUFFICES ASSUME pc \in Recording, WriteRecord PROVE CommitInstall \/ AppendRelocated \/ CreateAutoexec
    OBVIOUS
  <2>1. slots' # slots
    <3>1. PICK n \in 1..Slots : nextRec = n
      BY WriteRecordEffect
    <3>2. PICK p : p = Pending
      OBVIOUS
    <3>3. slots'[n] = [state |-> "full", rec |-> p] /\ slots[n].state = "blank"
      BY <3>1, <3>2, WriteRecordEffect, RecordWritten DEF WriteRecord
    <3>4. slots'[n].state = "full"
      BY <3>3
    <3> QED
      BY <3>3, <3>4
  <2>2. ~Crash
    <3>1. nextRec \in Nat \ {0} /\ nextRec' = nextRec + 1
      BY XipAssumption DEF WriteRecord, TypeInv, TypeOK
    <3>2. nextRec' # 1
      BY <3>1
    <3> QED
      BY <3>2 DEF Crash
  <2> QED
    BY <1>s, <1>h, <2>1, <2>2 DEF Next, Mounting, Installing, Activating, Failing, Boot, EraseAll, WriteSuperblock,
       ScanRecord, ScanEnd, StartInstall, EraseExtent, CopyChunk, VerifyModule,
       Activate, EraseSector, FlushSector, Recording,
       MapModule, Deactivate, RecordRefused, StepFails, flash, vars
<1> QED
  BY <1>h, <1>1, <1>2, <1>3, <1>4, <1>5, <1>6, <1>7, <1>8, RecordMoves

(* What flash holds behaves as the map of XipCatalog: whatever fails, but  *)
(* the write of a record and the mapping of a module during the mount, and *)
(* whenever power goes, an installation takes effect at once or not at all, *)
(* AUTOEXEC.BAT is written once and only for a command the map keeps, and  *)
(* nothing is ever taken back.                                             *)
THEOREM FlashImplementsCatalog ==
  ASSUME HonestDriver
  PROVE  Spec => ImplementsCatalog
<1> DEFINE RefInv == CatalogInv /\ FirstModule /\ ScriptComesFirst
<1>1. Init => RefInv /\ Durable!Init
  <2> SUFFICES ASSUME Init PROVE RefInv /\ Durable!Init
    OBVIOUS
  <2>1. CatalogInv
    BY TypeInit, CursorInit, ListedInit, RecordedInit, TableInit, StartupInit DEF CatalogInv
  <2>2. FirstModule /\ ScriptComesFirst
    BY DEF Init, FirstModule, ScriptComesFirst, Mounted
  <2>3. Durable!Init
    BY DEF Init, Durable!Init
  <2> QED
    BY <2>1, <2>2, <2>3
<1>2. CatalogInv /\ [Next]_vars => CatalogInv'
  BY HonestRecords, TypeNext, CursorNext, ListedNext, RecordedNext, TableNext, StartupNext, ReportNext
     DEF CatalogInv
<1>3. RefInv /\ [Next]_vars => RefInv'
  BY <1>2, FirstNext, ScriptNext DEF CatalogInv
<1>4. RefInv /\ RefInv' /\ [Next]_vars => [Durable!Next]_(Durable!vars)
  <2> SUFFICES ASSUME RefInv, RefInv', [Next]_vars PROVE [Durable!Next]_(Durable!vars)
    OBVIOUS
  <2>1. DurableStep
    BY DurableNext
  <2>2. CASE UNCHANGED <<Installed, StartupSeen>>
    BY <2>2 DEF Durable!vars, Installed, StartupSeen
  <2>3. ASSUME NEW f \in ValidFile, StartupSeen' = StartupSeen, MapTakes(f)
        PROVE  Durable!Next
    <3>1. Durable!Cardinality(DOMAIN Installed) = Cardinality(DOMAIN Installed)
      BY Zenon DEF Durable!Cardinality, Cardinality
    <3>2. Durable!Install(f)
      BY <2>3, <3>1 DEF Durable!Install, MapTakes, Installed, StartupSeen
    <3> QED
      BY <3>2 DEF Durable!Next
  <2>4. ASSUME StartupSeen = NoCommand, Installed' = Installed,
               StartupSeen' \in Command, StartupSeen' \in DOMAIN Installed
        PROVE  Durable!Next
    <3>1. PICK c \in Command : StartupSeen' = c
      BY <2>4
    <3>2. Durable!CreateStartup(c)
      BY <2>4, <3>1 DEF Durable!CreateStartup, Installed, StartupSeen
    <3> QED
      BY <3>2 DEF Durable!Next
  <2> QED
    BY <2>1, <2>2, <2>3, <2>4 DEF DurableStep
<1> QED
  BY <1>1, <1>3, <1>4, PTL DEF Spec, ImplementsCatalog, Durable!Spec

-----------------------------------------------------------------------------
(* The words of a module that runs.                                        *)

OneMapping == \A a, b \in Env : a = b

\* An entry that claims a mapping has all its sectors patched for it.
Patched(e) ==
  e.env # Raw => \A s \in 1..Sectors : data[e.at].body[s] = [code |-> e.file, words |-> e.env]

\* A record that claims one is not followed by one of its extent that does not.
ClaimsLast ==
  \A i, j \in 1..Slots :
    i < j /\ Holds(i, "module") /\ Holds(j, "module") /\ slots[i].rec.at = slots[j].rec.at
      => slots[i].rec.env = Raw \/ slots[j].rec.env # Raw

PatchedInv ==
  /\ super => \A i \in 1..Slots : Holds(i, "module") => Patched(slots[i].rec)
  /\ \A k \in DOMAIN mods : Patched(mods[k])

\* What relocate_module knows between its sectors, and what is known of the rest.
WorkInv ==
  /\ pc \in {"relocate", "flush"} =>
       /\ mods[target].env = Raw
       /\ \A s \in 1..Sectors : s < step =>
            data[mods[target].at].body[s] = [code |-> mods[target].file, words |-> env]
  /\ pc \in {"append", "map"} => mods[target].env = env
  /\ active # NoEntry =>
       /\ pc = "ready"
       /\ \A s \in 1..Sectors : data[active.at].body[s] = [code |-> active.file, words |-> env]

\* All that is known when no flash write is lost.
StoreInv == CatalogInv /\ ExtentInv /\ ClaimsLast /\ PatchedInv /\ WorkInv

LEMMA WordsInit == Init => ClaimsLast /\ PatchedInv /\ WorkInv
  BY DEF Init, ClaimsLast, PatchedInv, WorkInv, Holds, BlankSlot, GarbledSlot

LEMMA ClaimsNext ==
  ASSUME HonestDriver, CatalogInv, ClaimsLast, WorkInv, [Next]_vars
  PROVE  ClaimsLast'
<1> USE DEF CatalogInv, flash, catalog, work
<1>h. SoundRecords
  BY DEF HonestDriver, SoundRecords
<1>1. CASE EraseAll
  <2>1. \A i \in 1..Slots : ~Holds(i, "module")'
    BY <1>1 DEF EraseAll, BlankSlot, Holds
  <2> QED
    BY <2>1 DEF ClaimsLast
<1>2. CASE SlotsKept
  <2>1. \A i \in 1..Slots : Holds(i, "module")' => Holds(i, "module") /\ slots'[i] = slots[i]
    BY <1>2, KeptRecords
  <2> QED
    BY <2>1 DEF ClaimsLast
<1>3. CASE pc \in Recording /\ WriteRecord
  <2>1. PICK n \in 1..Slots : nextRec = n
    BY <1>3, WriteRecordEffect
  <2>2. PICK p : p = Pending
    OBVIOUS
  <2>3. /\ slots'[n] = [state |-> "full", rec |-> p] /\ super
        /\ \A i \in 1..Slots : i # n => slots'[i] = slots[i]
    BY <1>3, <2>1, <2>2, WriteRecordEffect DEF CursorInv, Scanning, Mounted, Recording
  <2>4. \A i \in 1..Slots : Holds(i, "module") => i < n
    BY <1>3, <2>1 DEF CursorInv, Mounted, Recording, Holds, TypeInv, TypeOK
  <2>5. \A i \in 1..Slots : Holds(i, "module")' /\ i # n =>
                              Holds(i, "module") /\ slots'[i] = slots[i] /\ i < n
    BY <2>3, <2>4 DEF Holds
  <2>6. ASSUME NEW i \in 1..Slots, Holds(i, "module"), p.kind = "module", slots[i].rec.at = p.at
        PROVE  p.env # Raw
    <3>1. slots[i].rec.at < nextMod
      BY <2>1, <2>4, <2>6 DEF RecordedInv
    <3>2. CASE pc = "commit"
      <4>1. p.at = nextMod /\ nextMod \in Nat
        BY <2>2, <3>2 DEF Pending, Module, TypeInv, TypeOK
      <4> QED
        BY <2>6, <3>1, <4>1
    <3>3. CASE pc = "append"
      BY <2>2, <3>3, XipAssumption DEF Pending, WorkInv, TypeInv, TypeOK
    <3>4. CASE pc \in {"startup", "migrate"}
      BY <1>3, <2>2, <2>6, <3>4, PendingListed
    <3> QED
      BY <1>3, <3>2, <3>3, <3>4 DEF Recording
  <2>7. ASSUME NEW i \in 1..Slots, NEW j \in 1..Slots, i < j,
               Holds(i, "module")', Holds(j, "module")', slots'[i].rec.at = slots'[j].rec.at
        PROVE  slots'[i].rec.env = Raw \/ slots'[j].rec.env # Raw
    <3>1. i # n
      BY <2>4, <2>5, <2>7
    <3>2. CASE j = n
      <4>1. slots'[j].rec = p /\ p.kind = "module"
        BY <2>3, <2>7, <3>2 DEF Holds
      <4> QED
        BY <2>5, <2>6, <2>7, <3>1, <4>1
    <3>3. CASE j # n
      BY <2>5, <2>7, <3>1, <3>3 DEF ClaimsLast
    <3> QED
      BY <3>2, <3>3
  <2> QED
    BY <2>7 DEF ClaimsLast
<1> QED
  BY <1>h, <1>1, <1>2, <1>3, RecordMoves

(* While a module is relocated, no record and no other entry claims a      *)
(* mapping for its extent.                                                 *)
LEMMA UnclaimedExtent ==
  ASSUME CatalogInv, ClaimsLast, NEW t \in DOMAIN mods, mods[t].env = Raw, Mounted
  PROVE  /\ \A i \in 1..Slots : Holds(i, "module") /\ slots[i].rec.at = mods[t].at
                                  => slots[i].rec.env = Raw
         /\ \A k \in DOMAIN mods : mods[k].at = mods[t].at => k = t
<1> USE DEF CatalogInv
<1>1. mods[t] \in Entry /\ Listed(mods[t]) /\ super
  BY DEF TypeInv, TypeOK, ListedInv, CursorInv, Scanning
<1>2. PICK n \in 1..Slots : NewestFor(n, mods[t])
  BY DEF TableInv
<1>3. ASSUME NEW i \in 1..Slots, Holds(i, "module"), slots[i].rec.at = mods[t].at
      PROVE  slots[i].rec.env = Raw
  <2>1. slots[i].rec.file = mods[t].file
    BY <1>1, <1>3 DEF RecordedInv, Live, Listed
  <2>2. i < nextRec
    BY <1>3 DEF CursorInv, Holds, TypeInv, TypeOK
  <2>3. ~(n < i)
    BY <1>2, <1>3, <2>1, <2>2 DEF NewestFor, CommandIn
  <2>4. slots[n].rec.env = Raw /\ Holds(n, "module") /\ slots[n].rec.at = mods[t].at
    BY <1>2 DEF NewestFor
  <2>5. CASE i = n
    BY <2>4, <2>5
  <2>6. CASE i < n
    BY <1>3, <2>4, <2>6 DEF ClaimsLast
  <2> QED
    BY <2>3, <2>5, <2>6
<1>4. ASSUME NEW k \in DOMAIN mods, mods[k].at = mods[t].at
      PROVE  k = t
  <2>1. Listed(mods[k])
    BY DEF ListedInv
  <2>2. mods[k].file = mods[t].file
    BY <1>1, <1>4, <2>1 DEF Listed
  <2> QED
    BY <2>2 DEF TableInv, Distinct, CommandIn
<1> QED
  BY <1>3, <1>4

LEMMA PatchedElsewhere ==
  ASSUME NEW e, Patched(e), data'[e.at] = data[e.at] \/ e.env = Raw
  PROVE  Patched(e)'
  BY DEF Patched

LEMMA PatchedQuiet ==
  ASSUME PatchedInv, SlotsKept, super' = super, data' = data, mods' \in {mods, <<>>}
  PROVE  PatchedInv'
<1>1. ASSUME super', NEW i \in 1..Slots, Holds(i, "module")'
      PROVE  Patched(slots[i].rec)'
  <2>1. Holds(i, "module") /\ slots'[i] = slots[i]
    BY <1>1, KeptRecords
  <2>2. Patched(slots[i].rec)
    BY <1>1, <2>1 DEF PatchedInv
  <2> QED
    BY <2>1, <2>2 DEF Patched
<1>2. ASSUME NEW k \in DOMAIN mods'
      PROVE  Patched(mods[k])'
  <2>1. k \in DOMAIN mods /\ mods'[k] = mods[k]
    BY <1>2
  <2>2. Patched(mods[k])
    BY <2>1 DEF PatchedInv
  <2> QED
    BY <2>1, <2>2 DEF Patched
<1> QED
  BY <1>1, <1>2 DEF PatchedInv

(* The table or the catalog takes an entry that is patched as it claims.   *)
LEMMA PatchedAdd ==
  ASSUME PatchedInv, data' = data, super' = super, NEW p,
         p.kind = "module" => Patched(p),
         \A i \in 1..Slots : Holds(i, "module")' =>
            \/ slots'[i].rec = p
            \/ Holds(i, "module") /\ slots'[i] = slots[i],
         \A k \in DOMAIN mods' : \/ mods'[k] = p /\ p.kind = "module"
                                 \/ \E l \in DOMAIN mods : mods'[k] = mods[l]
  PROVE  PatchedInv'
<1>1. p.kind = "module" => Patched(p)'
  BY DEF Patched
<1>2. ASSUME super', NEW i \in 1..Slots, Holds(i, "module")'
      PROVE  Patched(slots[i].rec)'
  <2>1. CASE slots'[i].rec = p
    <3>1. Patched(p)'
      BY <1>1, <1>2, <2>1 DEF Holds
    <3> QED
      BY <2>1, <3>1 DEF Patched
  <2>2. CASE Holds(i, "module") /\ slots'[i] = slots[i]
    <3>1. Patched(slots[i].rec)
      BY <1>2, <2>2 DEF PatchedInv
    <3> QED
      BY <2>2, <3>1 DEF Patched
  <2> QED
    BY <1>2, <2>1, <2>2
<1>3. ASSUME NEW k \in DOMAIN mods'
      PROVE  Patched(mods[k])'
  <2>1. CASE mods'[k] = p /\ p.kind = "module"
    BY <1>1, <2>1 DEF Patched
  <2>2. CASE \E l \in DOMAIN mods : mods'[k] = mods[l]
    <3>1. PICK l \in DOMAIN mods : mods'[k] = mods[l]
      BY <2>2
    <3>2. Patched(mods[l])
      BY DEF PatchedInv
    <3> QED
      BY <3>1, <3>2 DEF Patched
  <2> QED
    BY <1>3, <2>1, <2>2
<1> QED
  BY <1>2, <1>3 DEF PatchedInv

(* A step that changes the extents of no entry that claims a mapping, but  *)
(* for those that it patches.                                              *)
LEMMA PatchedData ==
  ASSUME PatchedInv, super' = super, slots' = slots, DOMAIN mods' = DOMAIN mods,
         \A i \in 1..Slots : super /\ Holds(i, "module") /\ slots[i].rec.env # Raw
                               => data'[slots[i].rec.at] = data[slots[i].rec.at],
         \A k \in DOMAIN mods : \/ mods'[k] = mods[k] /\ mods[k].env = Raw
                                \/ mods'[k] = mods[k] /\ data'[mods[k].at] = data[mods[k].at]
                                \/ Patched(mods[k])'
  PROVE  PatchedInv'
<1>1. ASSUME super', NEW i \in 1..Slots, Holds(i, "module")'
      PROVE  Patched(slots[i].rec)'
  <2>1. Holds(i, "module")
    BY <1>1 DEF Holds
  <2>2. Patched(slots[i].rec)
    BY <1>1, <2>1 DEF PatchedInv
  <2> QED
    BY <1>1, <2>1, <2>2 DEF Patched
<1>2. ASSUME NEW k \in DOMAIN mods'
      PROVE  Patched(mods[k])'
  <2>1. Patched(mods[k])
    BY <1>2 DEF PatchedInv
  <2> QED
    BY <1>2, <2>1 DEF Patched
<1> QED
  BY <1>1, <1>2 DEF PatchedInv

(* Writing back the sector that was read completes what is patched.        *)
LEMMA FlushedSectors ==
  ASSUME TypeInv, ExtentInv, WorkInv, FlushSector
  PROVE  /\ target \in DOMAIN mods /\ mods[target] \in Entry
         /\ \A s \in 1..Sectors : s < step + 1 =>
              data'[mods[target].at].body[s] = [code |-> mods[target].file, words |-> env]
         /\ \A x \in 1..Extents : x # mods[target].at => data'[x] = data[x]
<1> DEFINE x == mods[target].at
           sec == [code |-> buffer, words |-> env]
<1>1. /\ target \in DOMAIN mods /\ mods[target] \in Entry /\ x \in 1..Extents
      /\ pc = "flush" /\ step \in 1..Sectors /\ buffer = mods[target].file
      /\ data \in [1..Extents -> Extent]
      /\ data' = [data EXCEPT ![x].body[step] = sec]
  BY EntryFields DEF FlushSector, ExtentInv, TypeInv, TypeOK, LocalsOK
<1>2. data[x] \in Extent /\ data'[x] = [data[x] EXCEPT !.body[step] = sec]
  BY <1>1
<1>3. data[x].body \in [1..Sectors -> Sector] /\ data'[x].body = [data[x].body EXCEPT ![step] = sec]
  BY <1>2 DEF Extent
<1>4. ASSUME NEW s \in 1..Sectors, s < step + 1
      PROVE  data'[x].body[s] = [code |-> mods[target].file, words |-> env]
  <2>1. CASE s = step
    BY <1>1, <1>3, <2>1
  <2>2. CASE s # step
    <3>1. s < step
      BY <1>1, <1>4, <2>2
    <3> QED
      BY <1>1, <1>3, <2>2, <3>1 DEF WorkInv
  <2> QED
    BY <2>1, <2>2
<1>5. \A y \in 1..Extents : y # x => data'[y] = data[y]
  BY <1>1
<1> QED
  BY <1>1, <1>4, <1>5

LEMMA WordsFlush ==
  ASSUME StoreInv, FlushSector
  PROVE  PatchedInv' /\ WorkInv'
<1> USE DEF StoreInv, CatalogInv
<1>1. /\ target \in DOMAIN mods /\ mods[target] \in Entry
      /\ \A s \in 1..Sectors : s < step + 1 =>
           data'[mods[target].at].body[s] = [code |-> mods[target].file, words |-> env]
      /\ \A x \in 1..Extents : x # mods[target].at => data'[x] = data[x]
  BY FlushedSectors
<1>2. /\ pc = "flush" /\ UNCHANGED <<super, slots, target, env, active>> /\ mods[target].env = Raw
      /\ active = NoEntry /\ Mounted /\ step \in 1..Sectors
      /\ mods \in Seq(Entry) /\ \A k \in DOMAIN mods : mods[k] \in Entry /\ mods[k].at \in 1..Extents
  BY EntryFields DEF FlushSector, WorkInv, TypeInv, TypeOK, LocalsOK, Mounted
<1>3. /\ \A i \in 1..Slots : Holds(i, "module") /\ slots[i].rec.at = mods[target].at
                               => slots[i].rec.env = Raw
      /\ \A k \in DOMAIN mods : mods[k].at = mods[target].at => k = target
  BY <1>1, <1>2, UnclaimedExtent
<1>4. \A i \in 1..Slots : Holds(i, "module") /\ slots[i].rec.env # Raw
                            => data'[slots[i].rec.at] = data[slots[i].rec.at]
  BY <1>1, <1>3, SlotTypes, EntryFields
<1>5. CASE /\ step = Sectors /\ pc' = "append"
           /\ mods' = [mods EXCEPT ![target].env = env]
  <2>1. DOMAIN mods' = DOMAIN mods /\ \A k \in DOMAIN mods : k # target => mods'[k] = mods[k]
    BY <1>2, <1>5
  <2>2. /\ mods'[target].at = mods[target].at /\ mods'[target].file = mods[target].file
        /\ mods'[target].env = env
    <3>1. mods'[target] = [mods[target] EXCEPT !.env = env]
      BY <1>1, <1>5
    <3> QED
      BY <1>1, <3>1 DEF Entry
  <2>3. \A s \in 1..Sectors : s < step + 1
    BY <1>2, <1>5
  <2>4. ASSUME NEW k \in DOMAIN mods
        PROVE  \/ mods'[k] = mods[k] /\ data'[mods[k].at] = data[mods[k].at]
               \/ Patched(mods[k])'
    <3>1. CASE k = target
      BY <1>1, <2>2, <2>3, <3>1 DEF Patched
    <3>2. CASE k # target
      BY <1>1, <1>2, <1>3, <2>1, <3>2
    <3> QED
      BY <3>1, <3>2
  <2>5. PatchedInv'
    BY <1>2, <1>4, <2>1, <2>4, PatchedData
  <2> QED
    BY <1>2, <1>5, <2>2, <2>5 DEF WorkInv
<1>6. CASE step' = step + 1 /\ pc' = "relocate" /\ mods' = mods
  <2>1. \A k \in DOMAIN mods : mods[k].env = Raw \/ data'[mods[k].at] = data[mods[k].at]
    BY <1>1, <1>2, <1>3
  <2>2. PatchedInv'
    BY <1>2, <1>4, <1>6, <2>1, PatchedData
  <2> QED
    BY <1>1, <1>2, <1>6, <2>2 DEF WorkInv
<1> QED
  BY <1>5, <1>6 DEF FlushSector

LEMMA WordsErase ==
  ASSUME StoreInv, EraseSector
  PROVE  PatchedInv' /\ WorkInv'
<1> USE DEF StoreInv, CatalogInv, catalog
<1> DEFINE x == mods[target].at
<1>1. /\ target \in DOMAIN mods /\ mods[target] \in Entry /\ x \in 1..Extents
      /\ pc = "relocate" /\ pc' = "flush" /\ step \in 1..Sectors /\ mods[target].env = Raw
      /\ active = NoEntry /\ Mounted
      /\ data \in [1..Extents -> Extent]
      /\ data' = [data EXCEPT ![x].body[step] = ErasedSector]
      /\ UNCHANGED <<super, slots, mods, target, step, env, active>>
      /\ \A k \in DOMAIN mods : mods[k] \in Entry /\ mods[k].at \in 1..Extents
  BY EntryFields DEF EraseSector, WorkInv, TypeInv, TypeOK, LocalsOK, Mounted
<1>2. /\ \A i \in 1..Slots : Holds(i, "module") /\ slots[i].rec.at = mods[target].at
                               => slots[i].rec.env = Raw
      /\ \A k \in DOMAIN mods : mods[k].at = mods[target].at => k = target
  BY <1>1, UnclaimedExtent
<1>3. \A y \in 1..Extents : y # x => data'[y] = data[y]
  BY <1>1
<1>4. \A i \in 1..Slots : Holds(i, "module") /\ slots[i].rec.env # Raw
                            => data'[slots[i].rec.at] = data[slots[i].rec.at]
  BY <1>2, <1>3, SlotTypes, EntryFields
<1>5. \A k \in DOMAIN mods : mods[k].env = Raw \/ data'[mods[k].at] = data[mods[k].at]
  BY <1>1, <1>2, <1>3
<1>6. PatchedInv'
  BY <1>1, <1>4, <1>5, PatchedData
<1>7. data[x] \in Extent /\ data'[x] = [data[x] EXCEPT !.body[step] = ErasedSector]
  BY <1>1
<1>8. \A s \in 1..Sectors : s # step => data'[x].body[s] = data[x].body[s]
  BY <1>7 DEF Extent
<1>9. \A s \in 1..Sectors : s < step =>
        data'[x].body[s] = [code |-> mods[target].file, words |-> env]
  BY <1>1, <1>8 DEF WorkInv
<1> QED
  BY <1>1, <1>6, <1>9 DEF WorkInv

LEMMA PatchedNext ==
  ASSUME NoLostWrites, StoreInv, [Next]_vars
  PROVE  PatchedInv'
<1>s. ~RecordFails
  <2>1. SoundRecords
    BY DEF NoLostWrites, SoundRecords
  <2> QED
    BY <2>1, RecordsAreSound
<1> USE DEF StoreInv, CatalogInv, flash, catalog, work
<1>h. SoundRecords
  BY DEF NoLostWrites, SoundRecords
<1>t. /\ nextMod \in 1..(Extents + 1) /\ mods \in Seq(Entry)
      /\ \A k \in DOMAIN mods : mods[k] \in Entry /\ mods[k].at \in 1..Extents
  BY EntryFields DEF TypeInv, TypeOK
<1>1. CASE EraseAll \/ WriteSuperblock
  <2>1. mods' = <<>> /\ (super' => \A i \in 1..Slots : ~Holds(i, "module")')
    BY <1>1 DEF EraseAll, WriteSuperblock, CursorInv, Holds
  <2> QED
    BY <2>1 DEF PatchedInv
<1>2. CASE ScanRecord
  <2>1. PICK n \in 1..Slots : nextRec = n
    BY <1>2 DEF ScanRecord, Room, TypeInv, TypeOK
  <2>2. super /\ UNCHANGED <<super, slots, data>>
    BY <1>2 DEF ScanRecord, CursorInv, Scanning
  <2>3. \A i \in 1..Slots : Holds(i, "module")' => Holds(i, "module") /\ slots'[i] = slots[i]
    BY <2>2 DEF Holds
  <2>4. CASE Live(n) /\ mods' = AddModule(mods, slots[n].rec)
    <3>1. PICK p : p = slots[n].rec
      OBVIOUS
    <3>2. p \in Entry /\ Patched(p) /\ p.kind = "module"
      BY <2>2, <2>4, <3>1, SlotTypes DEF Live, PatchedInv, Holds
    <3>3. \A k \in DOMAIN mods' : mods'[k] = p \/ \E l \in DOMAIN mods : mods'[k] = mods[l]
      BY <1>t, <2>4, <3>1, <3>2, AddModuleMembers
    <3> QED
      BY <2>2, <2>3, <3>2, <3>3, PatchedAdd
  <2>5. CASE mods' = mods
    <3>1. SlotsKept
      BY <2>2 DEF SlotsKept
    <3> QED
      BY <2>2, <2>5, <3>1, PatchedQuiet
  <2> QED
    BY <1>2, <2>1, <2>4, <2>5 DEF ScanRecord
<1>3. CASE EraseExtent \/ CopyChunk
  <2>1. /\ UNCHANGED <<super, slots, mods>> /\ Mounted
        /\ \A x \in 1..Extents : x # nextMod => data'[x] = data[x]
    BY <1>3, InstallationStaysFree DEF EraseExtent, CopyChunk, Mounted
  <2>2. ASSUME NEW i \in 1..Slots, Holds(i, "module")
        PROVE  data'[slots[i].rec.at] = data[slots[i].rec.at]
    <3>1. i < nextRec
      BY <2>1, <2>2 DEF CursorInv, Holds, TypeInv, TypeOK
    <3>2. slots[i].rec.at \in 1..Extents /\ slots[i].rec.at < nextMod
      BY <2>2, <3>1, SlotTypes, EntryFields DEF RecordedInv
    <3> QED
      BY <1>t, <2>1, <3>2
  <2>3. \A k \in DOMAIN mods : data'[mods[k].at] = data[mods[k].at]
    BY <1>t, <2>1 DEF ListedInv, Listed
  <2> QED
    BY <2>1, <2>2, <2>3, PatchedData
<1>4. CASE pc \in Recording /\ WriteRecord /\ (CommitInstall \/ CreateAutoexec \/ AppendRelocated)
  <2>1. PICK n \in 1..Slots : nextRec = n
    BY <1>4, WriteRecordEffect
  <2>2. PICK p : p = Pending
    OBVIOUS
  <2>3. /\ slots'[n] = [state |-> "full", rec |-> p] /\ super' = super /\ data' = data
        /\ \A i \in 1..Slots : i # n => slots'[i] = slots[i]
    BY <1>4, <2>1, <2>2, WriteRecordEffect
  <2>4. \A i \in 1..Slots : Holds(i, "module")' =>
          slots'[i].rec = p \/ (Holds(i, "module") /\ slots'[i] = slots[i])
    BY <2>3 DEF Holds
  <2>5. CASE CommitInstall
    <3>1. /\ p.kind = "module" /\ p.env = Raw /\ p \in Entry /\ mods' = AddModule(mods, p)
      BY <2>2, <2>5 DEF CommitInstall, Pending, Module, Entry, TypeInv, TypeOK, LocalsOK
    <3>2. Patched(p)
      BY <3>1 DEF Patched
    <3>3. \A k \in DOMAIN mods' : mods'[k] = p \/ \E l \in DOMAIN mods : mods'[k] = mods[l]
      BY <1>t, <3>1, AddModuleMembers
    <3> QED
      BY <2>3, <2>4, <3>1, <3>2, <3>3, PatchedAdd
  <2>6. CASE CreateAutoexec
    <3>1. p.kind # "module" /\ mods' = mods
      BY <1>4, <2>2, <2>6, PendingListed DEF CreateAutoexec
    <3> QED
      BY <2>3, <2>4, <3>1, PatchedAdd
  <2>7. CASE AppendRelocated
    <3>1. p = mods[target] /\ mods' = mods /\ target \in DOMAIN mods
      BY <2>2, <2>7 DEF AppendRelocated, Pending, LocalsOK, TypeInv
    <3>2. Patched(p)
      BY <3>1 DEF PatchedInv
    <3> QED
      BY <2>3, <2>4, <3>1, <3>2, PatchedAdd
  <2> QED
    BY <1>4, <2>5, <2>6, <2>7
<1>5. CASE EraseSector
  BY <1>5, WordsErase
<1>6. CASE FlushSector
  BY <1>6, WordsFlush
<1>7. CASE Crash
  <2>1. SlotsKept
    <3>1. CASE /\ pc \in Recording
               /\ Room
               /\ slots' = [slots EXCEPT ![nextRec] = Programmed(@, Pending, FALSE)]
      BY <3>1, RecordWritten, TornEffect DEF SlotsKept
    <3> QED
      BY <1>h, <1>7, <3>1 DEF Crash, SoundRecords, SlotsKept
  <2> QED
    BY <1>7, <2>1, PatchedQuiet DEF Crash
<1>8. CASE UNCHANGED <<super, slots, data, mods>>
  BY <1>8, PatchedQuiet DEF SlotsKept
<1>9. \/ EraseAll \/ WriteSuperblock \/ ScanRecord \/ EraseExtent \/ CopyChunk \/ Crash
      \/ EraseSector \/ FlushSector
      \/ pc \in Recording /\ WriteRecord /\ (CommitInstall \/ CreateAutoexec \/ AppendRelocated)
      \/ UNCHANGED <<super, slots, data, mods>>
  BY <1>s, <1>h DEF Next, Mounting, Installing, Activating, Failing, vars, Boot,
     ScanEnd, StartInstall, VerifyModule, CommitInstall,
     CreateAutoexec, Recording, Activate, AppendRelocated,
     MapModule, Deactivate, RecordRefused, StepFails
<1> QED
  BY <1>1, <1>2, <1>3, <1>4, <1>5, <1>6, <1>7, <1>8, <1>9

LEMMA WorkNext ==
  ASSUME NoLostWrites, OneMapping, StoreInv, [Next]_vars
  PROVE  WorkInv'
<1> USE DEF StoreInv, CatalogInv, flash, catalog, work
<1>h. SoundRecords
  BY DEF NoLostWrites, SoundRecords
<1>t. /\ env \in Env /\ env # Raw
      /\ \A k \in DOMAIN mods : mods[k] \in Entry /\ mods[k].env \in Env \cup {Raw}
  BY EntryFields, XipAssumption DEF TypeInv, TypeOK
<1>a. pc # "ready" => active = NoEntry
  BY DEF WorkInv
<1>1. ASSUME NEW k \in 1..Capacity, Activate(k) PROVE WorkInv'
  <2>1. /\ k \in DOMAIN mods /\ target' = k /\ step' = 1 /\ UNCHANGED <<flash, catalog, env, active>>
        /\ active = NoEntry
        /\ \/ pc' = "map" /\ mods[k].env = env
           \/ pc' = "relocate" /\ mods[k].env # env
    BY <1>1 DEF Activate
  <2>2. mods[k].env # env => mods[k].env = Raw
    BY <1>t, <2>1 DEF OneMapping
  <2>3. \A s \in 1..Sectors : ~(s < step')
    BY <2>1
  <2> QED
    BY <2>1, <2>2, <2>3 DEF WorkInv
<1>2. CASE EraseSector
  BY <1>2, WordsErase
<1>3. CASE FlushSector
  BY <1>3, WordsFlush
<1>4. CASE AppendRelocated
  BY <1>4, <1>a DEF AppendRelocated, WorkInv
<1>5. CASE MapModule
  <2>1. /\ pc = "map" /\ pc' = "ready" /\ active' = mods[target] /\ UNCHANGED <<data, env>>
        /\ target \in DOMAIN mods /\ mods[target].env = env
    BY <1>5 DEF MapModule, Finish, WorkInv, LocalsOK, TypeInv
  <2>2. Patched(mods[target])
    BY <2>1 DEF PatchedInv
  <2>3. \A s \in 1..Sectors :
          data'[active'.at].body[s] = [code |-> active'.file, words |-> env']
    BY <1>t, <2>1, <2>2 DEF Patched
  <2> QED
    BY <2>1, <2>3 DEF WorkInv
<1>6. CASE pc' \notin {"relocate", "flush", "append", "map"} /\ active' = NoEntry
  BY <1>6 DEF WorkInv
<1>7. CASE UNCHANGED vars
  BY <1>7 DEF vars, WorkInv
<1>8. VerifyModule => pc' \in {"commit", "ready"}
  BY DEF VerifyModule, Finish
<1>9. \/ (\E k \in 1..Capacity : Activate(k)) \/ EraseSector \/ FlushSector \/ AppendRelocated
      \/ MapModule \/ UNCHANGED vars
      \/ pc' \notin {"relocate", "flush", "append", "map"} /\ active' = NoEntry
  BY <1>a, <1>8, <1>h DEF Next, Mounting, Installing, Activating, Failing, Boot, EraseAll,
     WriteSuperblock, ScanRecord, ScanEnd, StartInstall, EraseExtent, CopyChunk, VerifyModule,
     CommitInstall, CreateAutoexec, Deactivate, RecordRefused, RecordFails, StepFails, Crash,
     Finish, Recording
<1> QED
  BY <1>1, <1>2, <1>3, <1>4, <1>5, <1>6, <1>7, <1>9

\* Nothing is done to the flash while a module runs.
RunInv ==
  active # NoEntry =>
    pc = "ready" /\ \A s \in 1..Sectors : data[active.at].body[s].code = active.file

LEMMA RunNext ==
  ASSUME NoLostWrites, TypeInv, ExtentInv, RunInv, [Next]_vars
  PROVE  RunInv'
<1> USE DEF flash, catalog, work
<1>1. CASE MapModule
  <2>1. /\ pc = "map" /\ pc' = "ready" /\ active' = mods[target] /\ data' = data
        /\ target \in DOMAIN mods
    BY <1>1 DEF MapModule, Finish, TypeInv, LocalsOK
  <2>2. Complete(mods[target])
    BY <2>1 DEF ExtentInv
  <2>3. \A s \in 1..Sectors : data'[active'.at].body[s].code = active'.file
    BY <2>1, <2>2 DEF Complete, BeingPatched
  <2> QED
    BY <2>1, <2>3 DEF RunInv
<1>2. CASE active' = NoEntry
  BY <1>2 DEF RunInv
<1>3. CASE UNCHANGED <<pc, data, active>>
  BY <1>3 DEF RunInv
<1>4. CASE active = NoEntry /\ ~MapModule
  <2>1. active' = NoEntry
    BY <1>4 DEF Next, Mounting, Installing, Activating, Failing, vars, Boot, EraseAll,
       WriteSuperblock, ScanRecord, ScanEnd, StartInstall, EraseExtent, CopyChunk, VerifyModule,
       CommitInstall, CreateAutoexec, Activate, EraseSector, FlushSector, AppendRelocated,
       Deactivate, RecordRefused, RecordFails, StepFails, Crash
  <2> QED
    BY <2>1, <1>2
<1>5. CASE active # NoEntry /\ ~MapModule
  <2>1. pc = "ready"
    BY <1>5 DEF RunInv
  <2>2. Deactivate \/ Crash \/ UNCHANGED vars
    BY <1>5, <2>1 DEF Next, Mounting, Installing, Activating, Failing, Boot, EraseAll,
       WriteSuperblock, ScanRecord, ScanEnd, StartInstall, EraseExtent, CopyChunk, VerifyModule,
       CommitInstall, CreateAutoexec, Activate, EraseSector, FlushSector, AppendRelocated,
       RecordRefused, RecordFails, StepFails, Recording
  <2> QED
    BY <2>2, <1>2, <1>3 DEF Deactivate, Crash, vars
<1> QED
  BY <1>1, <1>4, <1>5

(* A module is entered only with its own code in every sector, whatever     *)
(* windows and imports the boots bring and however often relocations were   *)
(* cut short: map_module is reached through extents that hold their file,   *)
(* and nothing writes to the flash before the module is deactivated.        *)
RunsItsCode ==
  active # NoEntry => \A s \in 1..Sectors : data[active.at].body[s].code = active.file

THEOREM RunningModuleHasItsCode ==
  ASSUME NoLostWrites
  PROVE  Spec => []RunsItsCode
<1>1. SoundRecords
  BY DEF NoLostWrites, SoundRecords
<1> DEFINE Inv == TypeInv /\ CursorInv /\ ExtentInv /\ RunInv
<1>2. Init => Inv
  BY TypeInit, CursorInit, ExtentInit DEF Init, RunInv
<1>3. Inv /\ [Next]_vars => Inv'
  BY <1>1, TypeNext, CursorNext, ExtentNext, RunNext
<1>4. Inv => RunsItsCode
  BY DEF RunInv, RunsItsCode
<1> QED
  BY <1>2, <1>3, <1>4, PTL DEF Spec

(* While every boot brings the same windows and imports, the words of every *)
(* sector of a running module are patched for them too, however often       *)
(* relocations were cut short.  Under two mappings they need not be: a      *)
(* relocation cut short, or one whose record finds the catalog full, leaves *)
(* words of one mapping in an extent whose record claims another.           *)
THEOREM RunningModuleIsIntact ==
  ASSUME NoLostWrites, OneMapping
  PROVE  Spec => []ActiveRunsIntact
<1>1. HonestDriver /\ SoundRecords
  BY DEF NoLostWrites, HonestDriver, SoundRecords
<1>2. Init => StoreInv
  BY TypeInit, CursorInit, ListedInit, RecordedInit, TableInit, StartupInit, ExtentInit, WordsInit
     DEF StoreInv, CatalogInv
<1>3. StoreInv /\ [Next]_vars => StoreInv'
  <2> SUFFICES ASSUME StoreInv, [Next]_vars PROVE StoreInv'
    OBVIOUS
  <2>1. CatalogInv'
    BY <1>1, TypeNext, CursorNext, ListedNext, RecordedNext, TableNext, StartupNext, ReportNext
       DEF StoreInv, CatalogInv
  <2>2. ExtentInv'
    BY ExtentNext DEF StoreInv, CatalogInv
  <2>3. ClaimsLast'
    BY <1>1, ClaimsNext DEF StoreInv
  <2> QED
    BY <2>1, <2>2, <2>3, PatchedNext, WorkNext DEF StoreInv
<1>4. StoreInv => ActiveRunsIntact
  BY DEF StoreInv, WorkInv, ActiveRunsIntact
<1> QED
  BY <1>2, <1>3, <1>4, PTL DEF Spec

-----------------------------------------------------------------------------
(* The format of a module file, for any sizes of its parts.                 *)

(* The sizes of the format: records, pages and patched words have one.     *)
FormatSizes ==
  /\ Limit \in Nat /\ HeaderSize \in Nat /\ FlashPage \in Nat \ {0} /\ PatchSize \in Nat \ {0}
  /\ RelocationSize \in Nat \ {0} /\ FragmentSize \in Nat \ {0} /\ MzSize \in Nat \ {0}

LEMMA ModuleFields ==
  ASSUME NEW m \in ModuleFile
  PROVE  /\ m.held \in Nat /\ m.size \in Words /\ m.irom \in Words /\ m.iromSize \in Words
         /\ m.drom \in Words /\ m.dromSize \in Words /\ m.region \in Words /\ m.imageSize \in Words
         /\ m.relocs \in Words /\ m.relocations \in Seq(Relocation) /\ m.frags \in Words
         /\ m.fragments \in Seq(Fragment) /\ m.mz \in Words /\ m.mzCount \in Words
  BY Zenon DEF ModuleFile

LEMMA RecordFields ==
  ASSUME NEW m \in ModuleFile
  PROVE  /\ \A i \in 1..Len(m.relocations) :
              /\ m.relocations[i].patch \in Words /\ m.relocations[i].target \in Words
              /\ m.relocations[i].kind \in {"irom", "drom", "import", "none"}
         /\ \A i \in 1..Len(m.fragments) :
              /\ m.fragments[i].image \in Words /\ m.fragments[i].data \in Words
              /\ m.fragments[i].size \in Words
         /\ Len(m.relocations) \in Nat /\ DOMAIN m.relocations = 1..Len(m.relocations)
         /\ Len(m.fragments) \in Nat /\ DOMAIN m.fragments = 1..Len(m.fragments)
<1>1. m.relocations \in Seq(Relocation) /\ m.fragments \in Seq(Fragment)
  BY ModuleFields
<1>2. \A s \in Seq(Relocation) : /\ Len(s) \in Nat /\ DOMAIN s = 1..Len(s)
                                 /\ \A i \in 1..Len(s) : s[i] \in Relocation
  OBVIOUS
<1>3. \A s \in Seq(Fragment) : /\ Len(s) \in Nat /\ DOMAIN s = 1..Len(s)
                               /\ \A i \in 1..Len(s) : s[i] \in Fragment
  OBVIOUS
<1>4. \A r \in Relocation : /\ r.patch \in Words /\ r.target \in Words
                            /\ r.kind \in {"irom", "drom", "import", "none"}
  BY DEF Relocation
<1>5. \A f \in Fragment : f.image \in Words /\ f.data \in Words /\ f.size \in Words
  BY DEF Fragment
<1> QED
  BY <1>1, <1>2, <1>3, <1>4, <1>5, Zenon

(* A range of bytes lies in another exactly when the range is valid.        *)
LEMMA RangeInside ==
  ASSUME NEW a \in Nat, NEW n \in Nat, n # 0, NEW b \in Nat, NEW k \in Nat
  PROVE  Bytes(a, n) \subseteq Bytes(b, k) <=> (b <= a /\ a + n <= b + k)
<1>1. Bytes(a, n) \subseteq Bytes(b, k) => b <= a /\ a + n <= b + k
  <2> SUFFICES ASSUME Bytes(a, n) \subseteq Bytes(b, k)  PROVE b <= a /\ a + n <= b + k
    OBVIOUS
  <2>1. a \in Bytes(a, n) /\ a + n - 1 \in Bytes(a, n)
    BY DEF Bytes
  <2> QED
    BY <2>1 DEF Bytes
<1>2. b <= a /\ a + n <= b + k => Bytes(a, n) \subseteq Bytes(b, k)
  BY DEF Bytes
<1> QED
  BY <1>1, <1>2

LEMMA NoBytes ==
  ASSUME NEW a \in Nat, NEW n \in Nat
  PROVE  Bytes(a, n) = {} <=> n = 0
<1>1. n # 0 => a \in Bytes(a, n)
  BY DEF Bytes
<1>2. n = 0 => Bytes(a, n) = {}
  BY DEF Bytes
<1> QED
  BY <1>1, <1>2

LEMMA WordsWrap ==
  ASSUME FormatSizes, NEW x \in Words
  PROVE  x \in Nat /\ x % Limit = x
  BY DEF Words, FormatSizes

LEMMA MappedInside ==
  ASSUME FormatSizes, NEW m \in ModuleFile, NEW a \in Words, NEW n \in Nat, n # 0
  PROVE  InMappedSegment(m, a, n) <=> (Bytes(a, n) \subseteq Irom(m) \/ Bytes(a, n) \subseteq Drom(m))
<1> DEFINE In(b, k) == b <= a /\ RangeValid((a - b) % Limit, n, k)
<1>1. \A b, k \in Words : In(b, k) <=> (b <= a /\ a + n <= b + k)
  <2> SUFFICES ASSUME NEW b \in Words, NEW k \in Words, b <= a
               PROVE  RangeValid((a - b) % Limit, n, k) <=> a + n <= b + k
    OBVIOUS
  <2>1. a - b \in Words
    BY DEF Words, FormatSizes
  <2>2. (a - b) % Limit = a - b
    BY <2>1, WordsWrap
  <2>3. a \in Nat /\ b \in Nat /\ k \in Nat
    BY DEF Words, FormatSizes
  <2> QED
    BY <2>2, <2>3 DEF RangeValid
<1>2. \A b, k \in Words : In(b, k) <=> Bytes(a, n) \subseteq Bytes(b, k)
  BY <1>1, RangeInside, WordsWrap
<1> HIDE DEF In
<1>3. m.irom \in Words /\ m.iromSize \in Words /\ m.drom \in Words /\ m.dromSize \in Words
  BY ModuleFields
<1>4. InMappedSegment(m, a, n) <=> In(m.irom, m.iromSize) \/ In(m.drom, m.dromSize)
  BY <1>3, WordsWrap DEF InMappedSegment, In
<1> QED
  BY <1>2, <1>3, <1>4 DEF Irom, Drom

LEMMA WholeRecords ==
  ASSUME NEW c \in Nat, NEW k \in Nat, NEW d \in Nat \ {0}
  PROVE  c <= k \div d <=> c * d <= k
<1>1. PICK q \in Nat, r \in Nat : q = k \div d /\ k = q * d + r /\ r < d
  <2>1. k \div d \in Nat /\ k % d \in Nat /\ k % d < d
    OBVIOUS
  <2>2. k = d * (k \div d) + (k % d)
    BY Z3
  <2>3. d * (k \div d) = (k \div d) * d
    OBVIOUS
  <2> QED
    BY <2>1, <2>2, <2>3
<1>2. c <= q => c * d <= k
  <2> SUFFICES ASSUME c <= q PROVE c * d <= k
    OBVIOUS
  <2>1. PICK e \in Nat : q = c + e
    <3>1. q - c \in Nat /\ q = c + (q - c)
      OBVIOUS
    <3> QED
      BY <3>1
  <2>2. q * d = c * d + e * d /\ e * d \in Nat /\ c * d \in Nat
    BY <2>1
  <2> QED
    BY <1>1, <2>2
<1>3. c > q => c * d > k
  <2> SUFFICES ASSUME c > q PROVE c * d > k
    OBVIOUS
  <2>1. PICK e \in Nat : c = q + 1 + e
    <3>1. c - q - 1 \in Nat /\ c = q + 1 + (c - q - 1)
      OBVIOUS
    <3> QED
      BY <3>1
  <2>2. c * d = q * d + d + e * d /\ e * d \in Nat /\ q * d \in Nat
    BY <2>1
  <2> QED
    BY <1>1, <2>2
<1> QED
  BY <1>1, <1>2, <1>3

(* A table is valid when its records lie behind the header.                 *)
LEMMA TableIsInside ==
  ASSUME FormatSizes, NEW m \in ModuleFile, NEW offset \in Words, NEW count \in Nat, NEW d \in Nat \ {0},
         HeaderSize <= m.size
  PROVE  TableValid(offset, count, d, m.size) <=> TableInside(m, offset, count, d)
<1>1. offset \in Nat /\ m.size \in Nat /\ m.size <= Limit - 1 /\ Limit \in Nat /\ HeaderSize \in Nat
  BY ModuleFields, WordsWrap DEF Words, FormatSizes
<1>2. PICK t \in Nat : t = count * d
  OBVIOUS
<1>3. count = 0 <=> t = 0
  BY <1>2
<1>4. count <= (Limit - 1) \div d <=> t <= Limit - 1
  BY <1>1, <1>2, WholeRecords
<1>5. t <= Limit - 1 => t % Limit = t
  BY <1>1
<1>6. TableValid(offset, count, d, m.size)
        <=> (t # 0 => offset >= HeaderSize) /\ t <= Limit - 1 /\ offset <= m.size /\ t <= m.size - offset
  BY <1>1, <1>2, <1>3, <1>4, <1>5 DEF TableValid, RangeValid
<1>7. ASSUME t # 0
      PROVE  Bytes(offset, t) \subseteq FileBytes(m) \ Bytes(0, HeaderSize)
               <=> (offset >= HeaderSize /\ offset + t <= m.size)
  <2>1. Bytes(offset, t) \subseteq FileBytes(m) <=> offset + t <= m.size
    BY <1>1, <1>7, RangeInside DEF FileBytes
  <2>2. ASSUME offset >= HeaderSize PROVE Bytes(offset, t) \cap Bytes(0, HeaderSize) = {}
    BY <1>1, <2>2 DEF Bytes
  <2>3. ASSUME offset < HeaderSize PROVE offset \in Bytes(offset, t) \cap Bytes(0, HeaderSize)
    BY <1>1, <1>7, <2>3 DEF Bytes
  <2> QED
    BY <1>1, <2>1, <2>2, <2>3
<1>8. TableInside(m, offset, count, d)
        <=> IF t = 0 THEN offset <= m.size ELSE offset >= HeaderSize /\ offset + t <= m.size
  BY <1>2, <1>3, <1>7, Zenon DEF TableInside
<1> QED
  BY <1>1, <1>6, <1>8

(* Ranges each of which begins behind the one before are in order.          *)
Behind(n, at, len) == \A i \in 2..n : at[i - 1] + len[i - 1] <= at[i]

LEMMA AllBehind ==
  ASSUME NEW n \in Nat, NEW at \in [1..n -> Nat], NEW len \in [1..n -> Nat], Behind(n, at, len)
  PROVE  \A i, j \in 1..n : i < j => at[i] + len[i] <= at[j]
<1> DEFINE T == {k \in Nat : \A i, j \in 1..n : j = i + k + 1 => at[i] + len[i] <= at[j]}
<1>1. 0 \in T
  <2> SUFFICES ASSUME NEW i \in 1..n, NEW j \in 1..n, j = i + 1 PROVE at[i] + len[i] <= at[j]
    OBVIOUS
  <2>1. j \in 2..n /\ i = j - 1
    OBVIOUS
  <2> QED
    BY <2>1 DEF Behind
<1>2. ASSUME NEW k \in Nat, k \in T PROVE k + 1 \in T
  <2> SUFFICES ASSUME NEW i \in 1..n, NEW j \in 1..n, j = i + (k + 1) + 1 PROVE at[i] + len[i] <= at[j]
    OBVIOUS
  <2>1. PICK h \in 1..n : h = j - 1 /\ h = i + k + 1 /\ j \in 2..n
    OBVIOUS
  <2>2. at[i] + len[i] <= at[h]
    BY <1>2, <2>1
  <2>3. at[h] + len[h] <= at[j]
    BY <2>1 DEF Behind
  <2>4. at[i] \in Nat /\ len[i] \in Nat /\ at[h] \in Nat /\ len[h] \in Nat /\ at[j] \in Nat
    OBVIOUS
  <2> QED
    BY <2>2, <2>3, <2>4
<1>3. Nat \subseteq T
  <2> HIDE DEF T
  <2> QED
    BY <1>1, <1>2, AllNumbers
<1> SUFFICES ASSUME NEW i \in 1..n, NEW j \in 1..n, i < j PROVE at[i] + len[i] <= at[j]
  OBVIOUS
<1>4. j - i - 1 \in Nat /\ j = i + (j - i - 1) + 1
  OBVIOUS
<1> QED
  BY <1>3, <1>4

LEMMA BehindIsOrder ==
  ASSUME NEW n \in Nat, NEW at \in [1..n -> Nat], NEW len \in [1..n -> Nat \ {0}]
  PROVE  Behind(n, at, len) <=> InOrder([i \in 1..n |-> Bytes(at[i], len[i])])
<1>1. PICK s : s = [i \in 1..n |-> Bytes(at[i], len[i])]
  OBVIOUS
<1>2. DOMAIN s = 1..n /\ \A i \in 1..n : s[i] = Bytes(at[i], len[i])
  BY <1>1
<1>3. \A i \in 1..n : at[i] \in Nat /\ len[i] \in Nat /\ len[i] # 0
  OBVIOUS
<1>4. ASSUME Behind(n, at, len), NEW i \in 1..n, NEW j \in 1..n, i < j, NEW x \in s[i], NEW y \in s[j]
      PROVE  x < y
  <2>1. at[i] + len[i] <= at[j]
    <3>1. len \in [1..n -> Nat]
      OBVIOUS
    <3> QED
      BY <1>4, <3>1, AllBehind
  <2>2. x \in Bytes(at[i], len[i]) /\ y \in Bytes(at[j], len[j])
    BY <1>2, <1>4
  <2>3. x \in Int /\ x <= at[i] + len[i] - 1 /\ y \in Int /\ at[j] <= y
    BY <1>3, <2>2 DEF Bytes
  <2> QED
    BY <1>3, <2>1, <2>3
<1>5. ASSUME InOrder(s), NEW i \in 2..n PROVE at[i - 1] + len[i - 1] <= at[i]
  <2>1. PICK h \in 1..n : h = i - 1 /\ h < i /\ i \in 1..n
    OBVIOUS
  <2>2. at[h] + len[h] - 1 \in s[h] /\ at[i] \in s[i]
    BY <1>2, <1>3, <2>1 DEF Bytes
  <2>3. at[h] + len[h] - 1 < at[i]
    BY <1>2, <1>5, <2>1, <2>2, Zenon DEF InOrder
  <2> QED
    BY <1>3, <2>1, <2>3
<1>6. Behind(n, at, len) => InOrder(s)
  BY <1>2, <1>4, Zenon DEF InOrder
<1>7. InOrder(s) => Behind(n, at, len)
  BY <1>5, Zenon DEF Behind
<1> QED
  BY <1>1, <1>6, <1>7

(* Segments inside the file.                                               *)
Mapped(m) ==
  /\ Irom(m) # {} /\ Irom(m) \subseteq FileBytes(m)
  /\ Drom(m) # {} /\ Drom(m) \subseteq FileBytes(m)

LEMMA MappedSegments ==
  ASSUME FormatSizes, NEW m \in ModuleFile
  PROVE  Mapped(m) <=>
           /\ m.iromSize # 0 /\ RangeValid(m.irom, m.iromSize, m.size)
           /\ m.dromSize # 0 /\ RangeValid(m.drom, m.dromSize, m.size)
<1>1. /\ m.irom \in Nat /\ m.iromSize \in Nat /\ m.drom \in Nat /\ m.dromSize \in Nat
      /\ m.size \in Nat
  BY ModuleFields, WordsWrap
<1>2. /\ Irom(m) # {} <=> m.iromSize # 0
      /\ Drom(m) # {} <=> m.dromSize # 0
  BY <1>1, NoBytes DEF Irom, Drom
<1>3. m.iromSize # 0 => (Irom(m) \subseteq FileBytes(m) <=> 0 <= m.irom /\ m.irom + m.iromSize <= 0 + m.size)
  BY <1>1, RangeInside DEF Irom, FileBytes
<1>4. m.dromSize # 0 => (Drom(m) \subseteq FileBytes(m) <=> 0 <= m.drom /\ m.drom + m.dromSize <= 0 + m.size)
  BY <1>1, RangeInside DEF Drom, FileBytes
<1> QED
  BY <1>1, <1>2, <1>3, <1>4 DEF Mapped, RangeValid

(* What is in a segment has an end that is a word.                         *)
LEMMA EndIsWord ==
  ASSUME FormatSizes, NEW m \in ModuleFile, Mapped(m), NEW a \in Words, NEW n \in Nat, n # 0,
         Bytes(a, n) \subseteq Irom(m) \/ Bytes(a, n) \subseteq Drom(m)
  PROVE  a + n \in Words /\ a + n <= m.size
<1>1. Bytes(a, n) \subseteq Bytes(0, m.size)
  BY DEF Mapped, FileBytes
<1>2. a \in Nat /\ m.size \in Words /\ m.size \in Nat
  BY ModuleFields, WordsWrap
<1>3. a + n <= 0 + m.size
  BY <1>1, <1>2, RangeInside
<1> QED
  BY <1>2, <1>3 DEF Words, FormatSizes

PatchMapped(m, i) == PatchOf(m, i) \subseteq Irom(m) \/ PatchOf(m, i) \subseteq Drom(m)
Targeted(m, r) ==
  \/ r.kind = "irom" /\ m.irom + r.target \in Irom(m)
  \/ r.kind = "drom" /\ m.drom + r.target \in Drom(m)
  \/ r.kind = "import"

LEMMA TargetsInside ==
  ASSUME FormatSizes, NEW m \in ModuleFile, NEW i \in 1..Len(m.relocations), NEW r, r = m.relocations[i]
  PROVE  Targeted(m, r) <=>
           /\ r.kind \in {"irom", "drom", "import"}
           /\ r.kind = "irom" => r.target < m.iromSize
           /\ r.kind = "drom" => r.target < m.dromSize
<1>1. /\ m.irom \in Nat /\ m.iromSize \in Nat /\ m.drom \in Nat /\ m.dromSize \in Nat
      /\ r.target \in Nat
  BY ModuleFields, RecordFields, WordsWrap
<1>2. \A a, k, x \in Nat : a + x \in Bytes(a, k) <=> x < k
  BY DEF Bytes
<1>4. /\ m.irom + r.target \in Irom(m) <=> r.target < m.iromSize
      /\ m.drom + r.target \in Drom(m) <=> r.target < m.dromSize
  BY <1>1, <1>2 DEF Irom, Drom
<1>3. r.kind \in {"irom", "drom", "import", "none"}
  BY RecordFields
<1> QED
  BY <1>3, <1>4 DEF Targeted

LEMMA RelocationsSafe ==
  ASSUME FormatSizes, NEW m \in ModuleFile, Mapped(m)
  PROVE  (\A i \in DOMAIN m.relocations : RelocationValid(m, i)) <=>
           /\ \A i \in DOMAIN m.relocations :
                /\ m.relocations[i].patch % PatchSize = 0
                /\ PatchMapped(m, i) /\ Targeted(m, m.relocations[i])
           /\ InOrder([i \in DOMAIN m.relocations |-> PatchOf(m, i)])
<1>1. PICK n \in Nat : n = Len(m.relocations) /\ DOMAIN m.relocations = 1..n
  BY RecordFields
<1>2. PICK at \in [1..n -> Nat], len \in [1..n -> Nat \ {0}] :
        \A i \in 1..n : at[i] = m.relocations[i].patch /\ at[i] \in Words /\ len[i] = PatchSize
  <2>1. \A i \in 1..n : m.relocations[i].patch \in Words /\ m.relocations[i].patch \in Nat
    BY <1>1, RecordFields, WordsWrap
  <2>2. PatchSize \in Nat \ {0}
    BY DEF FormatSizes
  <2>3. PICK at : at = [i \in 1..n |-> m.relocations[i].patch]
    OBVIOUS
  <2>4. PICK len : len = [i \in 1..n |-> PatchSize]
    OBVIOUS
  <2>5. at \in [1..n -> Nat] /\ len \in [1..n -> Nat \ {0}]
    BY <2>1, <2>2, <2>3, <2>4
  <2> QED
    BY <2>1, <2>3, <2>4, <2>5
<1> DEFINE End(i) == IF i = 1 THEN 0 ELSE (m.relocations[i - 1].patch + PatchSize) % Limit
<1> DEFINE Follows(i) == m.relocations[i].patch >= End(i)
<1>3. \A i \in 1..n : RelocationValid(m, i) <=>
        /\ m.relocations[i].patch % PatchSize = 0
        /\ Follows(i) /\ PatchMapped(m, i) /\ Targeted(m, m.relocations[i])
  <2> SUFFICES ASSUME NEW i \in 1..n
               PROVE  RelocationValid(m, i) <=>
                        /\ m.relocations[i].patch % PatchSize = 0
                        /\ Follows(i) /\ PatchMapped(m, i) /\ Targeted(m, m.relocations[i])
    OBVIOUS
  <2>1. PICK r : r = m.relocations[i]
    OBVIOUS
  <2>2. InMappedSegment(m, r.patch, PatchSize) <=> PatchMapped(m, i)
    <3>1. r.patch \in Words /\ PatchSize \in Nat /\ PatchSize # 0
      BY <1>2, <2>1 DEF FormatSizes
    <3>2. InMappedSegment(m, r.patch, PatchSize)
            <=> Bytes(r.patch, PatchSize) \subseteq Irom(m) \/ Bytes(r.patch, PatchSize) \subseteq Drom(m)
      BY <3>1, MappedInside
    <3> QED
      BY <2>1, <3>2 DEF PatchMapped, PatchOf
  <2>3. Targeted(m, r) <=>
           /\ r.kind \in {"irom", "drom", "import"}
           /\ r.kind = "irom" => r.target < m.iromSize
           /\ r.kind = "drom" => r.target < m.dromSize
    BY <1>1, <2>1, TargetsInside
  <2>4. RelocationValid(m, i) <=>
           /\ r.patch % PatchSize = 0 /\ r.patch >= End(i)
           /\ InMappedSegment(m, r.patch, PatchSize)
           /\ r.kind \in {"irom", "drom", "import"}
           /\ r.kind = "irom" => r.target < m.iromSize
           /\ r.kind = "drom" => r.target < m.dromSize
    BY <2>1, Zenon DEF RelocationValid
  <2> HIDE DEF End
  <2> QED
    BY <2>1, <2>2, <2>3, <2>4
<1>4. ASSUME \A i \in 1..n : PatchMapped(m, i)
      PROVE  (\A i \in 1..n : Follows(i)) <=> InOrder([i \in 1..n |-> PatchOf(m, i)])
  <2>1. \A i \in 1..n : PatchOf(m, i) = Bytes(at[i], len[i])
    BY <1>2 DEF PatchOf
  <2>2. [i \in 1..n |-> PatchOf(m, i)] = [i \in 1..n |-> Bytes(at[i], len[i])]
    BY <2>1
  <2>3. ASSUME NEW i \in 2..n PROVE End(i) = at[i - 1] + len[i - 1]
    <3>1. PICK h \in 1..n : h = i - 1 /\ i # 1
      OBVIOUS
    <3>2. at[h] \in Words /\ len[h] \in Nat /\ len[h] # 0 /\ Bytes(at[h], len[h]) = PatchOf(m, h)
      BY <1>2, <2>1
    <3>3. at[h] + len[h] \in Words
      BY <1>4, <3>2, EndIsWord DEF PatchMapped
    <3>4. (at[h] + len[h]) % Limit = at[h] + len[h]
      BY <3>3, WordsWrap
    <3>5. m.relocations[h].patch = at[h] /\ len[h] = PatchSize
      BY <1>2
    <3> QED
      BY <3>1, <3>4, <3>5
  <2>4. n >= 1 => Follows(1)
    <3> SUFFICES ASSUME n >= 1 PROVE Follows(1)
      OBVIOUS
    <3>1. 1 \in 1..n
      OBVIOUS
    <3>2. at[1] \in Nat /\ m.relocations[1].patch = at[1]
      BY <1>2, <3>1
    <3> QED
      BY <3>2
  <2>5. ASSUME NEW i \in 2..n PROVE Follows(i) <=> at[i - 1] + len[i - 1] <= at[i]
    <3>1. i \in 1..n /\ i - 1 \in 1..n
      OBVIOUS
    <3>2. at[i] \in Nat /\ at[i - 1] \in Nat /\ len[i - 1] \in Nat /\ m.relocations[i].patch = at[i]
      BY <1>2, <3>1
    <3>3. End(i) = at[i - 1] + len[i - 1]
      BY <2>3
    <3> HIDE DEF End
    <3> QED
      BY <3>2, <3>3
  <2> HIDE DEF Follows
  <2>6. (\A i \in 1..n : Follows(i)) <=> Behind(n, at, len)
    <3>1. \A i \in 1..n : i = 1 \/ i \in 2..n
      OBVIOUS
    <3>2. \A i \in 2..n : i \in 1..n
      OBVIOUS
    <3>3. \A i \in 1..n : n >= 1
      OBVIOUS
    <3>4. (\A i \in 2..n : Follows(i)) <=> Behind(n, at, len)
      BY <2>5 DEF Behind
    <3> QED
      BY <2>4, <3>1, <3>2, <3>3, <3>4
  <2> QED
    BY <2>2, <2>6, BehindIsOrder
<1> HIDE DEF Follows
<1> QED
  BY <1>1, <1>3, <1>4

LEMMA FragmentsSafe ==
  ASSUME FormatSizes, NEW m \in ModuleFile, Mapped(m)
  PROVE  (\A i \in DOMAIN m.fragments : FragmentValid(m, i)) <=>
           /\ \A i \in DOMAIN m.fragments :
                /\ TargetOf(m, i) # {} /\ TargetOf(m, i) \subseteq Bytes(0, m.imageSize)
                /\ DataOf(m, i) \subseteq Drom(m)
           /\ InOrder([i \in DOMAIN m.fragments |-> TargetOf(m, i)])
<1>1. PICK n \in Nat : n = Len(m.fragments) /\ DOMAIN m.fragments = 1..n
  BY RecordFields
<1>2. PICK at \in [1..n -> Nat], len \in [1..n -> Nat] :
        \A i \in 1..n : /\ at[i] = m.fragments[i].image /\ len[i] = m.fragments[i].size
                        /\ at[i] \in Words /\ len[i] \in Words
  <2>1. \A i \in 1..n : /\ m.fragments[i].image \in Words /\ m.fragments[i].image \in Nat
                        /\ m.fragments[i].size \in Words /\ m.fragments[i].size \in Nat
    BY <1>1, RecordFields, WordsWrap
  <2>3. PICK at : at = [i \in 1..n |-> m.fragments[i].image]
    OBVIOUS
  <2>4. PICK len : len = [i \in 1..n |-> m.fragments[i].size]
    OBVIOUS
  <2>5. at \in [1..n -> Nat] /\ len \in [1..n -> Nat]
    BY <2>1, <2>3, <2>4
  <2> QED
    BY <2>1, <2>3, <2>4, <2>5
<1> DEFINE End(i) == IF i = 1 THEN 0 ELSE (m.fragments[i - 1].image + m.fragments[i - 1].size) % Limit
<1> DEFINE Follows(i) == m.fragments[i].image >= End(i)
<1> DEFINE Own(i) == /\ TargetOf(m, i) # {} /\ TargetOf(m, i) \subseteq Bytes(0, m.imageSize)
                     /\ DataOf(m, i) \subseteq Drom(m)
<1>3. \A i \in 1..n : FragmentValid(m, i) <=> Own(i) /\ Follows(i)
  <2> SUFFICES ASSUME NEW i \in 1..n PROVE FragmentValid(m, i) <=> Own(i) /\ Follows(i)
    OBVIOUS
  <2>1. PICK f : f = m.fragments[i]
    OBVIOUS
  <2>2. /\ f.image \in Nat /\ f.data \in Nat /\ f.size \in Nat /\ m.imageSize \in Nat
        /\ m.size \in Nat /\ m.drom \in Nat /\ m.dromSize \in Nat
        /\ f.data \in Words /\ m.drom \in Words
    BY <1>1, <2>1, RecordFields, ModuleFields, WordsWrap
  <2>3. FragmentValid(m, i) <=>
          /\ f.size # 0 /\ f.image >= End(i)
          /\ RangeValid(f.image, f.size, m.imageSize)
          /\ RangeValid(f.data, f.size, m.size)
          /\ f.data >= m.drom /\ RangeValid((f.data - m.drom) % Limit, f.size, m.dromSize)
    BY <2>1, Zenon DEF FragmentValid
  <2>4. m.drom + m.dromSize <= m.size
    <3>1. RangeValid(m.drom, m.dromSize, m.size)
      BY MappedSegments
    <3> QED
      BY <2>2, <3>1 DEF RangeValid
  <2>5. f.data >= m.drom => (f.data - m.drom) % Limit = f.data - m.drom
    <3> SUFFICES ASSUME f.data >= m.drom PROVE (f.data - m.drom) % Limit = f.data - m.drom
      OBVIOUS
    <3>1. f.data - m.drom \in Words
      BY <2>2 DEF Words, FormatSizes
    <3> QED
      BY <3>1, WordsWrap
  <2>6. TargetOf(m, i) = Bytes(f.image, f.size) /\ DataOf(m, i) = Bytes(f.data, f.size)
    BY <2>1 DEF TargetOf, DataOf
  <2>7. TargetOf(m, i) # {} <=> f.size # 0
    BY <2>2, <2>6, NoBytes
  <2>9. Own(i) <=>
          /\ f.size # 0 /\ f.image + f.size <= m.imageSize
          /\ m.drom <= f.data /\ f.data + f.size <= m.drom + m.dromSize
    <3>1. PICK x \in Nat, y \in Nat, z \in Nat, d \in Nat, k \in Nat, e \in Nat :
            /\ x = f.image /\ y = f.data /\ z = f.size /\ d = m.drom /\ k = m.dromSize
            /\ e = m.imageSize
      BY <2>2
    <3>2. z # 0 => /\ TargetOf(m, i) \subseteq Bytes(0, e) <=> x + z <= e
                   /\ DataOf(m, i) \subseteq Drom(m) <=> (d <= y /\ y + z <= d + k)
      <4> SUFFICES ASSUME z # 0
                   PROVE  /\ TargetOf(m, i) \subseteq Bytes(0, e) <=> x + z <= e
                          /\ DataOf(m, i) \subseteq Drom(m) <=> (d <= y /\ y + z <= d + k)
        OBVIOUS
      <4>1. Bytes(x, z) \subseteq Bytes(0, e) <=> (0 <= x /\ x + z <= 0 + e)
        BY RangeInside
      <4>2. Bytes(y, z) \subseteq Bytes(d, k) <=> (d <= y /\ y + z <= d + k)
        BY RangeInside
      <4>3. TargetOf(m, i) = Bytes(x, z) /\ Bytes(0, e) = Bytes(0, e)
        BY <2>6, <3>1
      <4>4. DataOf(m, i) = Bytes(y, z) /\ Drom(m) = Bytes(d, k)
        BY <2>6, <3>1 DEF Drom
      <4>5. (0 <= x /\ x + z <= 0 + e) <=> x + z <= e
        OBVIOUS
      <4> QED
        BY <4>1, <4>2, <4>3, <4>4, <4>5, Zenon
    <3> QED
      BY <2>7, <3>1, <3>2
  <2> HIDE DEF End, Own
  <2>10. FragmentValid(m, i) <=>
          /\ f.size # 0 /\ f.image >= End(i)
          /\ f.image + f.size <= m.imageSize
          /\ f.data >= m.drom /\ f.data + f.size <= m.drom + m.dromSize
    <3>1. PICK x \in Nat, y \in Nat, z \in Nat, d \in Nat, k \in Nat, e \in Nat, t \in Nat :
            /\ x = f.image /\ y = f.data /\ z = f.size /\ d = m.drom /\ k = m.dromSize
            /\ e = m.imageSize /\ t = m.size
      BY <2>2
    <3>5. \A u, v, w \in Nat : RangeValid(u, v, w) <=> u + v <= w
      BY DEF RangeValid
    <3>2. RangeValid(f.image, f.size, m.imageSize) <=> x + z <= e
      BY <3>1, <3>5
    <3>3. d <= y => (RangeValid((f.data - m.drom) % Limit, f.size, m.dromSize) <=> y + z <= d + k)
      <4> SUFFICES ASSUME d <= y
                   PROVE  RangeValid((f.data - m.drom) % Limit, f.size, m.dromSize) <=> y + z <= d + k
        OBVIOUS
      <4>1. y - d \in Nat /\ (y - d) + z <= k <=> y + z <= d + k
        OBVIOUS
      <4>2. (f.data - m.drom) % Limit = y - d /\ y - d \in Nat
        BY <2>5, <3>1
      <4>3. RangeValid(y - d, z, k) <=> (y - d) + z <= k
        BY <3>5, <4>2
      <4> QED
        BY <3>1, <4>1, <4>2, <4>3
    <3>4. y + z <= d + k => RangeValid(f.data, f.size, m.size)
      <4>1. d + k <= t
        BY <2>4, <3>1
      <4>2. y + z <= d + k => y + z <= t
        BY <4>1
      <4>3. RangeValid(y, z, t) <=> y + z <= t
        BY <3>5
      <4> QED
        BY <3>1, <4>2, <4>3
    <3> QED
      BY <2>3, <3>1, <3>2, <3>3, <3>4
  <2> QED
    BY <2>1, <2>2, <2>9, <2>10
<1>4. ASSUME \A i \in 1..n : Own(i)
      PROVE  (\A i \in 1..n : Follows(i)) <=> InOrder([i \in 1..n |-> TargetOf(m, i)])
  <2>1. \A i \in 1..n : TargetOf(m, i) = Bytes(at[i], len[i])
    BY <1>2 DEF TargetOf
  <2>2. [i \in 1..n |-> TargetOf(m, i)] = [i \in 1..n |-> Bytes(at[i], len[i])]
    BY <2>1
  <2>3. \A i \in 1..n : len[i] # 0 /\ at[i] + len[i] <= m.imageSize
    <3> SUFFICES ASSUME NEW i \in 1..n PROVE len[i] # 0 /\ at[i] + len[i] <= m.imageSize
      OBVIOUS
    <3>1. Bytes(at[i], len[i]) # {} /\ Bytes(at[i], len[i]) \subseteq Bytes(0, m.imageSize)
      BY <1>4, <2>1
    <3>2. at[i] \in Nat /\ len[i] \in Nat /\ m.imageSize \in Nat
      BY ModuleFields, WordsWrap
    <3>3. len[i] # 0
      BY <3>1, <3>2, NoBytes
    <3>4. at[i] + len[i] <= 0 + m.imageSize
      BY <3>1, <3>2, <3>3, RangeInside
    <3> QED
      BY <3>2, <3>3, <3>4
  <2>4. len \in [1..n -> Nat \ {0}]
    BY <2>3
  <2>5. ASSUME NEW i \in 2..n PROVE End(i) = at[i - 1] + len[i - 1]
    <3>1. PICK h \in 1..n : h = i - 1 /\ i # 1
      OBVIOUS
    <3>2. at[h] \in Nat /\ len[h] \in Nat /\ m.imageSize \in Words /\ m.imageSize \in Nat
      BY ModuleFields, WordsWrap
    <3>3. at[h] + len[h] \in Words
      BY <2>3, <3>2 DEF Words, FormatSizes
    <3>4. (at[h] + len[h]) % Limit = at[h] + len[h]
      BY <3>3, WordsWrap
    <3>5. m.fragments[h].image = at[h] /\ m.fragments[h].size = len[h]
      BY <1>2
    <3> QED
      BY <3>1, <3>4, <3>5
  <2>6. n >= 1 => Follows(1)
    <3> SUFFICES ASSUME n >= 1 PROVE Follows(1)
      OBVIOUS
    <3>1. 1 \in 1..n
      OBVIOUS
    <3>2. at[1] \in Nat /\ m.fragments[1].image = at[1]
      BY <1>2, <3>1
    <3> QED
      BY <3>2
  <2>7. ASSUME NEW i \in 2..n PROVE Follows(i) <=> at[i - 1] + len[i - 1] <= at[i]
    <3>1. i \in 1..n /\ i - 1 \in 1..n
      OBVIOUS
    <3>2. at[i] \in Nat /\ at[i - 1] \in Nat /\ len[i - 1] \in Nat /\ m.fragments[i].image = at[i]
      BY <1>2, <3>1
    <3>3. End(i) = at[i - 1] + len[i - 1]
      BY <2>5
    <3> HIDE DEF End
    <3> QED
      BY <3>2, <3>3
  <2> HIDE DEF Follows
  <2>8. (\A i \in 1..n : Follows(i)) <=> Behind(n, at, len)
    <3>1. \A i \in 1..n : i = 1 \/ i \in 2..n
      OBVIOUS
    <3>2. \A i \in 2..n : i \in 1..n
      OBVIOUS
    <3>3. \A i \in 1..n : n >= 1
      OBVIOUS
    <3>4. (\A i \in 2..n : Follows(i)) <=> Behind(n, at, len)
      BY <2>7 DEF Behind
    <3> QED
      BY <2>6, <3>1, <3>2, <3>3, <3>4
  <2> QED
    BY <2>2, <2>4, <2>8, BehindIsOrder
<1> HIDE DEF Follows, Own
<1>5. (\A i \in 1..n : FragmentValid(m, i)) <=>
        /\ \A i \in 1..n : Own(i)
        /\ InOrder([i \in 1..n |-> TargetOf(m, i)])
  BY <1>3, <1>4
<1> QED
  BY <1>1, <1>5 DEF Own

(* A module is opened exactly when everything that it names lies inside it,  *)
(* patches and fragments one behind another, whatever its numbers are and    *)
(* however their sums overflow: d2e_xip_module_open.                         *)
THEOREM OpensExactlySafe ==
  ASSUME FormatSizes, NEW m \in ModuleFile
  PROVE  ModuleOpens(m) <=> ModuleIsSafe(m)
<1> DEFINE Header == /\ HeaderSize <= m.size /\ m.size <= m.held
                   /\ m.irom % FlashPage = 0 /\ m.drom % FlashPage = 0
                   /\ Mapped(m) /\ m.region < m.iromSize
<1>1. /\ m.held \in Nat /\ m.size \in Nat /\ HeaderSize \in Nat
      /\ m.irom \in Nat /\ m.iromSize \in Nat /\ m.region \in Nat
  BY ModuleFields, WordsWrap DEF FormatSizes
<1>2. m.irom + m.region \in Irom(m) <=> m.region < m.iromSize
  <2>1. \A a, k, x \in Nat : a + x \in Bytes(a, k) <=> x < k
    BY DEF Bytes
  <2> QED
    BY <1>1, <2>1 DEF Irom
<1>3. HeaderSize <= m.size /\ m.size <= m.held => m.held >= HeaderSize /\ m.size >= HeaderSize
  BY <1>1
<1>4. ASSUME m.held >= HeaderSize, m.size <= m.held, m.size >= HeaderSize PROVE HeaderSize <= m.size
  BY <1>1, <1>4
<1> DEFINE CodeTables ==
      /\ TableValid(m.relocs, Len(m.relocations), RelocationSize, m.size)
      /\ TableValid(m.frags, Len(m.fragments), FragmentSize, m.size)
      /\ TableValid(m.mz, m.mzCount, MzSize, m.size)
<1> DEFINE SafeTables ==
      /\ TableInside(m, m.relocs, Len(m.relocations), RelocationSize)
      /\ TableInside(m, m.frags, Len(m.fragments), FragmentSize)
      /\ TableInside(m, m.mz, m.mzCount, MzSize)
<1>5. HeaderSize <= m.size => (CodeTables <=> SafeTables)
  <2> SUFFICES ASSUME HeaderSize <= m.size PROVE CodeTables <=> SafeTables
    OBVIOUS
  <2>1. /\ m.relocs \in Words /\ m.frags \in Words /\ m.mz \in Words
        /\ Len(m.relocations) \in Nat /\ Len(m.fragments) \in Nat /\ m.mzCount \in Nat
        /\ RelocationSize \in Nat \ {0} /\ FragmentSize \in Nat \ {0} /\ MzSize \in Nat \ {0}
    BY ModuleFields, RecordFields, WordsWrap DEF FormatSizes
  <2>2. \A offset \in Words, count \in Nat, d \in Nat \ {0} :
          TableValid(offset, count, d, m.size) <=> TableInside(m, offset, count, d)
    BY TableIsInside
  <2> QED
    BY <2>1, <2>2
<1> DEFINE CodeRecords ==
      /\ \A i \in DOMAIN m.relocations : RelocationValid(m, i)
      /\ \A i \in DOMAIN m.fragments : FragmentValid(m, i)
<1> DEFINE SafeRecords ==
      /\ \A i \in DOMAIN m.relocations :
           /\ m.relocations[i].patch % PatchSize = 0
           /\ PatchMapped(m, i) /\ Targeted(m, m.relocations[i])
      /\ InOrder([i \in DOMAIN m.relocations |-> PatchOf(m, i)])
      /\ \A i \in DOMAIN m.fragments :
           /\ TargetOf(m, i) # {} /\ TargetOf(m, i) \subseteq Bytes(0, m.imageSize)
           /\ DataOf(m, i) \subseteq Drom(m)
      /\ InOrder([i \in DOMAIN m.fragments |-> TargetOf(m, i)])
<1>6. Mapped(m) => (CodeRecords <=> SafeRecords)
  <2> SUFFICES ASSUME Mapped(m) PROVE CodeRecords <=> SafeRecords
    OBVIOUS
  <2> QED
    BY RelocationsSafe, FragmentsSafe, Zenon
<1>7. ModuleOpens(m) <=> m.held >= HeaderSize /\ m.size >= HeaderSize /\ Header /\ CodeTables /\ CodeRecords
  <2> HIDE DEF CodeTables, CodeRecords
  <2>1. ModuleOpens(m) <=>
          /\ m.held >= HeaderSize /\ m.size <= m.held /\ m.size >= HeaderSize
          /\ m.irom % FlashPage = 0 /\ m.drom % FlashPage = 0
          /\ m.iromSize # 0 /\ m.dromSize # 0
          /\ RangeValid(m.irom, m.iromSize, m.size) /\ RangeValid(m.drom, m.dromSize, m.size)
          /\ m.region < m.iromSize
          /\ CodeTables /\ CodeRecords
    BY Zenon DEF ModuleOpens, CodeTables, CodeRecords
  <2> QED
    BY <1>1, <1>3, <1>4, <2>1, MappedSegments
<1>8. ModuleIsSafe(m) <=> Header /\ SafeTables /\ SafeRecords
  <2>1. ModuleIsSafe(m) <=>
          /\ HeaderSize <= m.size /\ m.size <= m.held
          /\ m.irom % FlashPage = 0 /\ m.drom % FlashPage = 0
          /\ Mapped(m) /\ m.irom + m.region \in Irom(m)
          /\ SafeTables /\ SafeRecords
    BY Zenon DEF ModuleIsSafe, Mapped, PatchMapped, Targeted
  <2> QED
    BY <1>2, <2>1
<1> HIDE DEF CodeTables, CodeRecords, SafeTables, SafeRecords
<1> QED
  BY <1>3, <1>5, <1>6, <1>7, <1>8
=============================================================================
