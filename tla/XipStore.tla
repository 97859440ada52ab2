------------------------------ MODULE XipStore ------------------------------
(***************************************************************************)
(* The XIP volume A: of firmware/esp32_cyd/main/cyd_flash.c: a superblock, *)
(* an append-only catalog of records, and one flash extent per installed   *)
(* module.  Every flash operation is a step of its own, so that power can  *)
(* fail, or a driver call can return an error, between any two of them.    *)
(*                                                                         *)
(* Data is abstracted to what the code tells apart.  A file stands for its *)
(* bytes and its SHA-256.  An extent holds a head (the manifest and its    *)
(* tables, which lie in pages no relocation touches) and the flash sectors *)
(* that hold relocated words: which file's code each sector holds, and for *)
(* which mapping its words are patched.  An Env is what                    *)
(* cyd_flash_activate_module compares: the IROM and DROM window addresses  *)
(* and the import fingerprint of the running firmware.                     *)
(***************************************************************************)
EXTENDS Naturals, Sequences, FiniteSets

CONSTANTS
  File,        \* files the SD card can hold
  ValidFile,   \* those that pass d2e_xip_module_open and the digest
  Command,     \* package commands, compared without case
  CommandOf,   \* the command in each file's manifest
  Env,         \* mappings and firmware builds a boot can bring
  Raw,         \* the words as packed: irom 0, drom 10000000h, fingerprint 0
  NoFile,      \* no file: erased or incomplete flash
  NoCommand,   \* no command: AUTOEXEC.BAT is missing
  Slots,       \* catalog records the superblock's sector run has room for
  Extents,     \* module extents the partition has room for
  Sectors,     \* patched flash sectors of a module
  Capacity,    \* CYD_FLASH_MODULE_CAPACITY
  Faults       \* the failures this instance admits

FaultKinds == {"crash",        \* power fails anywhere but in a relocation
               "reloc_crash",  \* power fails between two patched sectors
               "flush_crash",  \* power fails between a sector's erase and write
               "copy_error",   \* the copy of a file stops with an error
               "record_error", \* writing a catalog record returns an error
               "smudge",       \* a record is left half written behind an erased first byte
               "patch_error",  \* writing a patched sector returns an error
               "map_error",    \* mapping a module returns an error
               "reloc_error",  \* a relocation stops between two sectors
               "scan_error"}   \* a module cannot be mapped while mounting

ASSUME XipAssumption ==
  /\ ValidFile \subseteq File
  /\ CommandOf \in [File -> Command]
  /\ Raw \notin Env
  /\ NoFile \notin File
  /\ NoCommand \notin Command
  /\ Slots \in Nat \ {0} /\ Extents \in Nat \ {0}
  /\ Sectors \in Nat \ {0} /\ Capacity \in Nat \ {0}
  /\ Faults \subseteq FaultKinds

VARIABLES
  super,    \* flash: the superblock is valid
  slots,    \* flash: the catalog records
  data,     \* flash: the module extents
  pc,       \* where the firmware is; "off" without power
  mods,     \* RAM: state.modules[0 .. module_count - 1]
  nextMod,  \* RAM: state.next_module_offset, as an extent number
  nextRec,  \* RAM: state.next_record_offset, as a slot number
  autoexec, \* RAM: the command AUTOEXEC.BAT names, NoCommand when length 0
  file,     \* the file being installed
  target,   \* the index of the module being relocated
  step,     \* progress of a copy or of a relocation
  buffer,   \* relocate_module's sector_bytes: whose code they hold
  env,      \* the mapping and firmware of this boot
  active,   \* the entry of the mapped module, if any
  reported  \* the file the shell's last message calls installed, if any

flash == <<super, slots, data>>
catalog == <<mods, nextMod, nextRec, autoexec>>
work == <<file, target, step, buffer>>
vars == <<flash, catalog, work, pc, env, active, reported>>

-----------------------------------------------------------------------------
(* What flash can hold.                                                    *)

Word == Env \cup {Raw, NoFile}           \* NoFile: erased words
Sector == [code : File \cup {NoFile}, words : Word]
Extent == [head : File \cup {NoFile}, body : [1..Sectors -> Sector]]

\* A catalog record of either magic; a cyd_flash_module is the same as its record.
Entry == [kind : {"module"}, file : File, at : 1..Extents, env : Env \cup {Raw}]
Script == [kind : {"autoexec"}, command : Command]
Record == Entry \cup Script
NoRecord == [kind |-> "none"]
Slot == [state : {"blank", "torn", "smudged", "full", "garbled"}, rec : Record \cup {NoRecord}]

BlankSlot == [state |-> "blank", rec |-> NoRecord]
GarbledSlot == [state |-> "garbled", rec |-> NoRecord]
ErasedSector == [code |-> NoFile, words |-> NoFile]
CopyOf(f) ==
  [head |-> f, body |-> [s \in 1..Sectors |-> [code |-> f, words |-> Raw]]]
ErasedExtent == [head |-> NoFile, body |-> [s \in 1..Sectors |-> ErasedSector]]
NoEntry == [kind |-> "none"]

Module(f, x, e) == [kind |-> "module", file |-> f, at |-> x, env |-> e]
Startup(c) == [kind |-> "autoexec", command |-> c]
CommandIn(e) == CommandOf[e.file]

(* NOR flash only clears bits: writing a record over itself completes it,  *)
(* writing it over anything else leaves a slot whose CRC cannot match.  A  *)
(* record half written has its first byte, by which scan_catalog tells     *)
(* whether a slot is free, unless it is smudged.                           *)
ReadsBlank(slot) == slot.state \in {"blank", "smudged"}
Programmed(old, rec, whole) ==
  CASE old.state = "blank" \/ (old.state = "smudged" /\ old.rec = rec) ->
         [state |-> IF whole THEN "full" ELSE "torn", rec |-> rec]
    [] old.state \in {"torn", "full"} /\ old.rec = rec ->
         [old EXCEPT !.state = IF whole THEN "full" ELSE @]
    [] OTHER -> GarbledSlot
Smudged(old, rec) ==
  CASE ReadsBlank(old) ->
         [state |-> "smudged",
          rec |-> IF old.state = "blank" \/ old.rec = rec THEN rec ELSE NoRecord]
    [] old.state \in {"torn", "full"} /\ old.rec = rec -> old
    [] OTHER -> GarbledSlot

-----------------------------------------------------------------------------
(* Helpers of the operations.                                              *)

Holds(i, kind) == slots[i].state = "full" /\ slots[i].rec.kind = kind
Live(i) == Holds(i, "module") /\ data[slots[i].rec.at].head = slots[i].rec.file

Room == nextRec <= Slots

NextExtentOfLast(n, x) == x + 1                               \* mutant of NextExtent
NextExtent(n, x) == IF x + 1 > n THEN x + 1 ELSE n

AddModuleKeepingOld(ms, e) ==                                 \* mutant of AddModule
  IF Len(ms) < Capacity /\ \A k \in DOMAIN ms : CommandIn(ms[k]) # CommandIn(e)
    THEN Append(ms, e) ELSE ms
AddModule(ms, e) ==
  IF \E k \in DOMAIN ms : CommandIn(ms[k]) = CommandIn(e)
    THEN [k \in DOMAIN ms |-> IF CommandIn(ms[k]) = CommandIn(e) THEN e ELSE ms[k]]
    ELSE IF Len(ms) < Capacity THEN Append(ms, e) ELSE ms

\* The record the current operation is about to append.
Recording == {"commit", "startup", "migrate", "append"}
Pending ==
  CASE pc = "commit" -> Module(file, nextMod, Raw)
    [] pc = "startup" -> Startup(CommandOf[file])
    [] pc = "migrate" -> Startup(CommandIn(mods[1]))
    [] pc = "append" -> mods[target]

WriteRecordInPlace ==                                         \* mutant of WriteRecord
  /\ Room
  /\ slots' = [slots EXCEPT ![nextRec] = Programmed(@, Pending, TRUE)]
  /\ UNCHANGED <<super, data, nextRec>>
WriteRecord ==
  /\ Room
  /\ slots' = [slots EXCEPT ![nextRec] = Programmed(@, Pending, TRUE)]
  /\ nextRec' = nextRec + 1
  /\ UNCHANGED <<super, data>>

\* The handler returns to the prompt; its local variables are gone.
Finish(message) ==
  /\ pc' = "ready"
  /\ reported' = message
  /\ file' = NoFile
  /\ target' = 0
  /\ step' = 0
  /\ buffer' = NoFile

-----------------------------------------------------------------------------
(* Mounting: cyd_flash_mount, format_store, scan_catalog.                  *)

Boot(e) ==
  /\ pc = "off"
  /\ env' = e
  /\ pc' = IF super THEN "scan" ELSE "format"
  /\ UNCHANGED <<flash, catalog, work, active, reported>>

EraseAll ==
  /\ pc = "format"
  /\ slots' = [i \in 1..Slots |-> BlankSlot]
  /\ data' = [x \in 1..Extents |-> ErasedExtent]
  /\ pc' = "superblock"
  /\ UNCHANGED <<super, catalog, work, env, active, reported>>

WriteSuperblock ==
  /\ pc = "superblock"
  /\ super' = TRUE
  /\ pc' = "scan"
  /\ UNCHANGED <<slots, data, catalog, work, env, active, reported>>

\* nextRec is the loop's offset; the code stores it only when the loop ends,
\* and nothing reads it before.
ScanRecord ==
  /\ pc = "scan"
  /\ Room
  /\ ~ReadsBlank(slots[nextRec])
  /\ nextRec' = nextRec + 1
  /\ LET rec == slots[nextRec].rec IN
       \/ /\ Live(nextRec)
          /\ mods' = AddModule(mods, rec)
          /\ nextMod' = NextExtent(nextMod, rec.at)
          /\ UNCHANGED autoexec
       \/ /\ Holds(nextRec, "autoexec")
          /\ autoexec' = rec.command
          /\ UNCHANGED <<mods, nextMod>>
       \/ /\ ~Live(nextRec) \/ "scan_error" \in Faults
          /\ ~Holds(nextRec, "autoexec")
          /\ UNCHANGED <<mods, nextMod, autoexec>>
  /\ UNCHANGED <<flash, work, pc, env, active, reported>>

ScanEndAtTorn ==                                              \* mutant of ScanEnd
  /\ pc = "scan"
  /\ Room => slots[nextRec].state # "full"
  /\ pc' = IF autoexec = NoCommand /\ mods # <<>> THEN "migrate" ELSE "ready"
  /\ UNCHANGED <<flash, catalog, work, env, active, reported>>
ScanEndWithoutMigration ==                                    \* mutant of ScanEnd
  /\ pc = "scan"
  /\ Room => ReadsBlank(slots[nextRec])
  /\ pc' = "ready"
  /\ UNCHANGED <<flash, catalog, work, env, active, reported>>
ScanEnd ==
  /\ pc = "scan"
  /\ Room => ReadsBlank(slots[nextRec])
  /\ pc' = IF autoexec = NoCommand /\ mods # <<>> THEN "migrate" ELSE "ready"
  /\ UNCHANGED <<flash, catalog, work, env, active, reported>>

-----------------------------------------------------------------------------
(* cyd_flash_install_file.                                                 *)

StartInstall(f) ==
  /\ pc = "ready"
  /\ active = NoEntry
  /\ IF Room /\ nextMod <= Extents
       THEN /\ pc' = "erase"
            /\ file' = f
            /\ reported' = NoFile
            /\ UNCHANGED <<target, step, buffer>>
       ELSE Finish(NoFile)
  /\ UNCHANGED <<flash, catalog, env, active>>

EraseExtent ==
  /\ pc = "erase"
  /\ data' = [data EXCEPT ![nextMod] = ErasedExtent]
  /\ step' = 0
  /\ pc' = "copy"
  /\ UNCHANGED <<super, slots, catalog, file, target, buffer, env, active, reported>>

\* The head is copied first, then each sector.
CopyChunk ==
  /\ pc = "copy"
  /\ data' = IF step = 0
               THEN [data EXCEPT ![nextMod].head = file]
               ELSE [data EXCEPT ![nextMod].body[step] = [code |-> file, words |-> Raw]]
  /\ step' = step + 1
  /\ pc' = IF step = Sectors THEN "verify" ELSE "copy"
  /\ UNCHANGED <<super, slots, catalog, file, target, buffer, env, active, reported>>

VerifyThenStartup ==                                          \* mutant of VerifyModule
  /\ pc = "verify"
  /\ IF file \in ValidFile
       THEN /\ pc' = IF autoexec = NoCommand THEN "startup" ELSE "commit"
            /\ UNCHANGED <<reported, work>>
       ELSE Finish(NoFile)
  /\ UNCHANGED <<flash, catalog, env, active>>
\* read_manifest with verify_digest: what lies in flash, not what was sent there.
VerifyModule ==
  /\ pc = "verify"
  /\ IF file \in ValidFile /\ data[nextMod] = CopyOf(file)
       THEN pc' = "commit" /\ UNCHANGED <<reported, work>>
       ELSE Finish(NoFile)
  /\ UNCHANGED <<flash, catalog, env, active>>

CommitWithoutAdvance ==                                       \* mutant of CommitInstall
  /\ pc = "commit"
  /\ WriteRecord
  /\ mods' = AddModule(mods, Pending)
  /\ IF autoexec = NoCommand
       THEN pc' = "startup" /\ UNCHANGED <<reported, work>>
       ELSE Finish(file)
  /\ UNCHANGED <<nextMod, autoexec, env, active>>
CommitWithoutListing ==                                       \* mutant of CommitInstall
  /\ pc = "commit"
  /\ WriteRecord
  /\ nextMod' = nextMod + 1
  /\ IF autoexec = NoCommand
       THEN pc' = "startup" /\ UNCHANGED <<reported, work>>
       ELSE Finish(file)
  /\ UNCHANGED <<mods, autoexec, env, active>>
CommitInstall ==
  /\ pc = "commit"
  /\ WriteRecord
  /\ nextMod' = nextMod + 1
  /\ mods' = AddModule(mods, Pending)
  /\ IF autoexec = NoCommand
       THEN pc' = "startup" /\ UNCHANGED <<reported, work>>
       ELSE Finish(file)
  /\ UNCHANGED <<autoexec, env, active>>

\* The tail of an installation, and of a mount that finds modules only.
CreateAutoexec ==
  /\ pc \in {"startup", "migrate"}
  /\ WriteRecord
  /\ autoexec' = Pending.command
  /\ Finish(IF pc = "startup" THEN file ELSE NoFile)
  /\ UNCHANGED <<mods, nextMod, env, active>>

-----------------------------------------------------------------------------
(* cyd_flash_activate_module, relocate_module, cyd_flash_deactivate_module. *)

Activate(k) ==
  /\ pc = "ready"
  /\ active = NoEntry
  /\ k \in DOMAIN mods
  /\ target' = k
  /\ step' = 1
  /\ pc' = IF mods[k].env = env THEN "map" ELSE "relocate"
  /\ reported' = NoFile
  /\ UNCHANGED <<flash, catalog, file, buffer, env, active>>

EraseBeforeRead ==                                            \* mutant of EraseSector
  /\ pc = "relocate"
  /\ buffer' = NoFile
  /\ data' = [data EXCEPT ![mods[target].at].body[step] = ErasedSector]
  /\ pc' = "flush"
  /\ UNCHANGED <<super, slots, catalog, file, target, step, env, active, reported>>
\* Read the sector, patch its words in RAM, erase it.
EraseSector ==
  /\ pc = "relocate"
  /\ LET x == mods[target].at IN
       /\ buffer' = data[x].body[step].code
       /\ data' = [data EXCEPT ![x].body[step] = ErasedSector]
  /\ pc' = "flush"
  /\ UNCHANGED <<super, slots, catalog, file, target, step, env, active, reported>>

FlushWithoutLastSector ==                                     \* mutant of FlushSector
  /\ pc = "flush"
  /\ data' = [data EXCEPT ![mods[target].at].body[step] = [code |-> buffer, words |-> env]]
  /\ mods' = [mods EXCEPT ![target].env = env]
  /\ pc' = "append"
  /\ UNCHANGED <<super, slots, nextMod, nextRec, autoexec, work, env, active, reported>>
\* After the last sector the entry in RAM takes the new mapping, before its record.
FlushSector ==
  /\ pc = "flush"
  /\ data' = [data EXCEPT ![mods[target].at].body[step] = [code |-> buffer, words |-> env]]
  /\ IF step = Sectors
       THEN /\ mods' = [mods EXCEPT ![target].env = env]
            /\ pc' = "append"
            /\ UNCHANGED step
       ELSE /\ step' = step + 1
            /\ pc' = "relocate"
            /\ UNCHANGED mods
  /\ UNCHANGED <<super, slots, nextMod, nextRec, autoexec, file, target, buffer, env,
                 active, reported>>

AppendRelocated ==
  /\ pc = "append"
  /\ WriteRecord
  /\ pc' = "map"
  /\ UNCHANGED <<mods, nextMod, autoexec, work, env, active, reported>>

MapModule ==
  /\ pc = "map"
  /\ active' = mods[target]
  /\ Finish(NoFile)
  /\ UNCHANGED <<flash, catalog, env>>

Deactivate ==
  /\ pc = "ready"
  /\ active # NoEntry
  /\ active' = NoEntry
  /\ reported' = NoFile
  /\ UNCHANGED <<flash, catalog, work, pc, env>>

-----------------------------------------------------------------------------
(* Errors and power failures.                                              *)

\* append_catalog_record and write_autoexec: the catalog is full.
RecordRefused ==
  /\ pc \in Recording
  /\ ~Room
  /\ Finish(NoFile)
  /\ UNCHANGED <<flash, catalog, env, active>>

\* The driver reports an error after writing nothing, a part, or everything:
\* next_record_offset stays where it is.
RecordFails ==
  /\ pc \in Recording
  /\ Room
  /\ "record_error" \in Faults
  /\ slots' \in {slots} \cup {[slots EXCEPT ![nextRec] = Programmed(@, Pending, whole)] :
                                whole \in BOOLEAN}
                       \cup {[slots EXCEPT ![nextRec] = Smudged(@, Pending)] :
                                fault \in {"smudge"} \cap Faults}
  /\ Finish(NoFile)
  /\ UNCHANGED <<super, data, catalog, env, active>>

\* An error return that leaves flash as it is.
StepFails ==
  /\ \/ pc \in {"erase", "copy"} /\ "copy_error" \in Faults
     \/ pc \in {"verify", "map"} /\ "map_error" \in Faults
     \/ pc = "relocate" /\ "reloc_error" \in Faults
     \/ pc = "flush" /\ "patch_error" \in Faults
  /\ Finish(NoFile)
  /\ UNCHANGED <<flash, catalog, env, active>>

FaultOf ==
  CASE pc = "flush" -> "flush_crash"
    [] pc \in {"relocate", "append"} -> "reloc_crash"
    [] OTHER -> "crash"

\* A record being written may be left torn or smudged.
Crash ==
  /\ pc # "off"
  /\ FaultOf \in Faults
  /\ pc' = "off"
  /\ \/ UNCHANGED slots
     \/ /\ pc \in Recording
        /\ Room
        /\ slots' = [slots EXCEPT ![nextRec] = Programmed(@, Pending, FALSE)]
     \/ /\ pc \in Recording
        /\ Room
        /\ "smudge" \in Faults
        /\ slots' = [slots EXCEPT ![nextRec] = Smudged(@, Pending)]
  /\ mods' = <<>>
  /\ nextMod' = 1
  /\ nextRec' = 1
  /\ autoexec' = NoCommand
  /\ file' = NoFile
  /\ target' = 0
  /\ step' = 0
  /\ buffer' = NoFile
  /\ active' = NoEntry
  /\ reported' = NoFile
  /\ UNCHANGED <<super, data, env>>

-----------------------------------------------------------------------------
Init ==
  /\ super = FALSE
  /\ \E s \in {BlankSlot, GarbledSlot} : slots = [i \in 1..Slots |-> s]
  /\ data = [x \in 1..Extents |-> ErasedExtent]
  /\ pc = "off"
  /\ mods = <<>>
  /\ nextMod = 1
  /\ nextRec = 1
  /\ autoexec = NoCommand
  /\ file = NoFile
  /\ target = 0
  /\ step = 0
  /\ buffer = NoFile
  /\ env \in Env
  /\ active = NoEntry
  /\ reported = NoFile

Mounting == EraseAll \/ WriteSuperblock \/ ScanRecord \/ ScanEnd
Installing == EraseExtent \/ CopyChunk \/ VerifyModule \/ CommitInstall \/ CreateAutoexec
Activating == EraseSector \/ FlushSector \/ AppendRelocated \/ MapModule
Failing == RecordRefused \/ RecordFails \/ StepFails

Next ==
  \/ \E e \in Env : Boot(e)
  \/ Mounting
  \/ \E f \in File : StartInstall(f)
  \/ Installing
  \/ \E k \in 1..Capacity : Activate(k)
  \/ Activating
  \/ Deactivate
  \/ Failing
  \/ Crash

Spec == Init /\ [][Next]_vars

\* Once begun, the firmware's work goes on, and a device that is off is switched
\* on again; nothing obliges the user to install or to run anything.
Working == Mounting \/ Installing \/ Activating \/ Failing
FairSpec == Spec /\ WF_vars(Working) /\ WF_vars(\E e \in Env : Boot(e))

-----------------------------------------------------------------------------
(* Properties.                                                             *)

TypeOK ==
  /\ super \in BOOLEAN
  /\ slots \in [1..Slots -> Slot]
  /\ data \in [1..Extents -> Extent]
  /\ pc \in {"off", "format", "superblock", "scan", "migrate", "ready", "erase", "copy",
             "verify", "commit", "startup", "relocate", "flush", "append", "map"}
  /\ mods \in Seq(Entry) /\ Len(mods) <= Capacity
  /\ nextMod \in 1..(Extents + 1)
  /\ nextRec \in 1..(Slots + 1)
  /\ autoexec \in Command \cup {NoCommand}
  /\ file \in File \cup {NoFile}
  /\ target \in 0..Capacity
  /\ step \in 0..(Sectors + 1)
  /\ buffer \in File \cup {NoFile}
  /\ env \in Env
  /\ active \in Entry \cup {NoEntry}
  /\ reported \in File \cup {NoFile}

Mounted == pc \notin {"off", "format", "superblock", "scan"}
(* What the shell lists is what a reboot would list: every listed module is *)
(* the newest complete record of its command, every complete record's       *)
(* command is listed unless the table is full, and AUTOEXEC.BAT is the      *)
(* recorded one and names a command the volume has a module for.  When      *)
(* cyd_flash_install_file returns ESP_OK, which the shell shows as          *)
(* "Installed", the module is listed, but again for a full table.  It       *)
(* relates add_module and the cursors kept by append_catalog_record to what *)
(* scan_catalog will find.                                                  *)
ListedIsNewest ==
  \A k \in DOMAIN mods : \E i \in 1..Slots :
    /\ Live(i)
    /\ slots[i].rec.file = mods[k].file
    /\ slots[i].rec.at = mods[k].at
    /\ \A j \in (i + 1)..Slots : Live(j) => CommandIn(slots[j].rec) # CommandIn(mods[k])
CommittedIsListed ==
  \A i \in 1..Slots :
    Live(i) => \/ Len(mods) = Capacity
               \/ \E k \in DOMAIN mods : CommandIn(mods[k]) = CommandIn(slots[i].rec)
StartupIsRecorded ==
  /\ autoexec # NoCommand => \E i \in 1..Slots : Holds(i, "autoexec")
  /\ \A i \in 1..Slots : Holds(i, "autoexec") => slots[i].rec.command = autoexec
StartupNamesModule ==
  autoexec # NoCommand =>
    \E i \in 1..Slots : Live(i) /\ CommandIn(slots[i].rec) = autoexec
InstalledIsListed ==
  reported # NoFile => \/ Len(mods) = Capacity
                       \/ \E k \in DOMAIN mods : mods[k].file = reported
RebootKeepsCatalog ==
  /\ Mounted => ListedIsNewest /\ CommittedIsListed /\ StartupIsRecorded /\ StartupNamesModule
  /\ InstalledIsListed

(* A catalog record stands for a complete module: the extent it names holds *)
(* the file it names, and every sector of it holds that file's code, except *)
(* the one sector relocate_module has erased and not yet written back.      *)
BeingPatched(x, s) == pc = "flush" /\ mods[target].at = x /\ step = s
CommittedIsComplete ==
  super => \A i \in 1..Slots :
    Holds(i, "module") =>
      LET rec == slots[i].rec IN
        /\ data[rec.at].head = rec.file
        /\ \A s \in 1..Sectors :
             data[rec.at].body[s].code = rec.file \/ BeingPatched(rec.at, s)

(* A module is entered only with its own code in every sector and its words *)
(* patched for the windows it is mapped at and the imports of this firmware. *)
ActiveRunsIntact ==
  active # NoEntry =>
    \A s \in 1..Sectors :
      data[active.at].body[s] = [code |-> active.file, words |-> env]

(* The catalog is append-only: no step of a formatted volume changes a      *)
(* complete record, whatever was torn or retried before it.                 *)
AppendOnly ==
  [][\A i \in 1..Slots : super /\ slots[i].state = "full" => slots'[i] = slots[i]]_vars

(* No step of a mounted volume destroys the manifest of a listed module:    *)
(* installations, retried ones included, stay off the extents in use.       *)
ListedKeepsItsExtent ==
  [][Mounted => \A k \in DOMAIN mods : data'[mods[k].at].head = mods[k].file]_vars

(* The extents are append-only too: a complete record whose module is in    *)
(* place stays so, since an installation erases only extents that no        *)
(* complete record names.                                                   *)
ExtentsAppendOnly ==
  [][\A i \in 1..Slots : super /\ Live(i) => data'[slots[i].rec.at].head = slots[i].rec.file]_vars

(* The flash contents alone, read as the catalog they stand for, behave as  *)
(* XipCatalog: a power failure, a mount, a failed installation or a         *)
(* relocation changes nothing, and an installation takes effect in the one  *)
(* step that completes its record.                                          *)
FirstOf(c) ==
  CHOOSE i \in 1..Slots :
    /\ Live(i) /\ CommandIn(slots[i].rec) = c
    /\ \A j \in 1..(i - 1) : Live(j) => CommandIn(slots[j].rec) # c
LastOf(c) ==
  CHOOSE i \in 1..Slots :
    /\ Live(i) /\ CommandIn(slots[i].rec) = c
    /\ \A j \in (i + 1)..Slots : Live(j) => CommandIn(slots[j].rec) # c
Recorded == {CommandIn(slots[i].rec) : i \in {j \in 1..Slots : Live(j)}}
DurableCommands ==
  {c \in Recorded : Cardinality({d \in Recorded : FirstOf(d) < FirstOf(c)}) < Capacity}
DurableStartup ==
  IF \E i \in 1..Slots : Holds(i, "autoexec")
    THEN slots[CHOOSE i \in 1..Slots : Holds(i, "autoexec") /\
                 \A j \in (i + 1)..Slots : ~Holds(j, "autoexec")].rec.command
    ELSE NoCommand

Durable == INSTANCE XipCatalog WITH
  installed <- IF super THEN [c \in DurableCommands |-> slots[LastOf(c)].rec.file] ELSE << >>,
  startup <- IF super THEN DurableStartup ELSE NoCommand
ImplementsCatalog == Durable!Spec

(* Once power stays on, a volume that lists a module gets its AUTOEXEC.BAT, *)
(* through the installation or through the next mount, unless the catalog   *)
(* is full.                                                                 *)
StartupCreated ==
  <>[][~Crash]_vars => (mods # <<>> ~> (autoexec # NoCommand \/ slots[Slots].state # "blank"))
=============================================================================
