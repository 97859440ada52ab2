------------------------------ MODULE Machine ------------------------------
(***************************************************************************)
(* The parts of the machine that share no state, in one specification: a    *)
(* behaviour is one of its unit, with the other units at rest. A program    *)
(* that uses several of them interleaves these behaviours, and no handler   *)
(* of one reads what another keeps.                                         *)
(***************************************************************************)
EXTENDS Keyboard, Display, DosMemory, DosFiles, Clock, Pit, Video, AnsiInput,
        FlagPrograms, Memory, Algorithms

VARIABLE unit

machineVars ==
  <<unit, vars, displayVars, dosMemoryVars, dosFilesVars, clockVars, pitVars, videoVars,
    ansiVars, flagVars, memory, algorithmVars>>

Units == {"keyboard", "display", "blocks", "files", "clock", "pit", "video", "ansi", "flags",
          "memory", "algorithms"}

(* Where a unit at rest stays, of the states it may begin in.               *)
DosMemoryRests == DosMemoryInit /\ psp = 0
FlagsRest ==
  /\ program = << >> /\ liveIn = << >> /\ liveOut = << >> /\ leader = 0 /\ changed = FALSE
  /\ live = << >> /\ spot = Left /\ stale = {}
MemoryRests == memory = NewMemory(0)
AlgorithmsRest == input = << >> /\ answered = FALSE /\ output = {}

MachineInit ==
  /\ unit \in Units
  /\ Init /\ DisplayInit /\ DosFilesInit /\ ClockInit /\ PitInit /\ VideoInit /\ AnsiInit
  /\ IF unit = "blocks" THEN DosMemoryInit ELSE DosMemoryRests
  /\ IF unit = "flags" THEN FlagInit ELSE FlagsRest
  /\ IF unit = "memory" THEN MemoryInit ELSE MemoryRests
  /\ IF unit = "algorithms" THEN AlgorithmInit ELSE AlgorithmsRest

(* The units but one stay as they are.                                      *)
Resting(u) ==
  /\ UNCHANGED unit
  /\ u # "keyboard" => UNCHANGED vars
  /\ u # "display" => UNCHANGED displayVars
  /\ u # "blocks" => UNCHANGED dosMemoryVars
  /\ u # "files" => UNCHANGED dosFilesVars
  /\ u # "clock" => UNCHANGED clockVars
  /\ u # "pit" => UNCHANGED pitVars
  /\ u # "video" => UNCHANGED videoVars
  /\ u # "ansi" => UNCHANGED ansiVars
  /\ u # "flags" => UNCHANGED flagVars
  /\ u # "memory" => UNCHANGED memory
  /\ u # "algorithms" => UNCHANGED algorithmVars

KeyboardStep == unit = "keyboard" /\ Next /\ Resting("keyboard")
DisplayStep == unit = "display" /\ DisplayNext /\ Resting("display")
BlocksStep == unit = "blocks" /\ DosMemoryNext /\ Resting("blocks")
FilesStep == unit = "files" /\ DosFilesNext /\ Resting("files")
ClockStep == unit = "clock" /\ ClockNext /\ Resting("clock")
PitStep == unit = "pit" /\ PitNext /\ Resting("pit")
VideoStep == unit = "video" /\ VideoNext /\ Resting("video")
AnsiStep == unit = "ansi" /\ AnsiNext /\ Resting("ansi")
FlagsStep == unit = "flags" /\ FlagNext /\ Resting("flags")
MemoryStep == unit = "memory" /\ MemoryNext /\ Resting("memory")
AlgorithmsStep == unit = "algorithms" /\ AlgorithmNext /\ Resting("algorithms")

MachineNext ==
  \/ KeyboardStep \/ DisplayStep \/ BlocksStep \/ FilesStep \/ ClockStep \/ PitStep
  \/ VideoStep \/ AnsiStep \/ FlagsStep \/ MemoryStep \/ AlgorithmsStep

MachineSpec == MachineInit /\ [][MachineNext]_machineVars

----------------------------------------------------------------------------
(* The instance.                                                            *)

MCSize(n) == IF n = "a" THEN 2 ELSE 1
MCSpecial(n) == IF n = "d" THEN {"directory"} ELSE {}
MCPatterns == {{"a", "d"}, {"d"}}
MCWindows == {<<0, 0, 9, 9>>, <<0, 1, 1, 1>>, <<1, 0, 1, 9>>, <<1, 0, 0, 0>>}

MCInputs ==
  AluInputs(5, 4, 3) \cup DecimalInputs(0..99) \cup WildcardInputs(3) \cup ModuleInputs
    \cup LoadInputs \cup ControlInputs \cup ScrollInputs \cup RepeatInputs \cup BlockInputs
    \cup SoundInputs \cup PixelInputs \cup PathInputs

----------------------------------------------------------------------------
(* Every variable of every unit has its type: no counter of them, and no    *)
(* position, leaves its range.                                              *)
MachineTypeOK ==
  /\ unit \in Units
  /\ TypeOK /\ DisplayTypeOK /\ DosMemoryTypeOK /\ DosFilesTypeOK /\ ClockTypeOK /\ PitTypeOK
  /\ VideoTypeOK /\ AnsiTypeOK /\ FlagTypeOK /\ MemoryTypeOK
=============================================================================
