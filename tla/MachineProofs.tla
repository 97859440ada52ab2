---------------------------- MODULE MachineProofs ----------------------------
(***************************************************************************)
(* The machine is its units: what is proved of one of them holds of it in   *)
(* every behaviour of the machine.                                          *)
(***************************************************************************)
EXTENDS Machine, KeyboardProofs, DeviceProofs, ProgramProofs, TLAPS

(* A step of the machine is a step of one unit, and the others rest.        *)
UnitsStep ==
  /\ [Next]_vars /\ [DisplayNext]_displayVars /\ [DosMemoryNext]_dosMemoryVars
  /\ [DosFilesNext]_dosFilesVars /\ [ClockNext]_clockVars /\ [PitNext]_pitVars
  /\ [VideoNext]_videoVars /\ [AnsiNext]_ansiVars
  /\ [FlagNext]_flagVars /\ [MemoryNext]_memory /\ [AlgorithmNext]_algorithmVars

LEMMA StepsAlone ==
  ASSUME [MachineNext]_machineVars
  PROVE  /\ UNCHANGED unit
         /\ UnitsStep
         /\ unit # "flags" => UNCHANGED flagVars
<1>1. CASE KeyboardStep
  BY <1>1, Zenon DEF KeyboardStep, Resting, UnitsStep
<1>2. CASE DisplayStep
  BY <1>2, Zenon DEF DisplayStep, Resting, UnitsStep
<1>3. CASE BlocksStep
  BY <1>3, Zenon DEF BlocksStep, Resting, UnitsStep
<1>4. CASE FilesStep
  BY <1>4, Zenon DEF FilesStep, Resting, UnitsStep
<1>5. CASE ClockStep
  BY <1>5, Zenon DEF ClockStep, Resting, UnitsStep
<1>6. CASE PitStep
  BY <1>6, Zenon DEF PitStep, Resting, UnitsStep
<1>7. CASE VideoStep
  BY <1>7, Zenon DEF VideoStep, Resting, UnitsStep
<1>8. CASE AnsiStep
  BY <1>8, Zenon DEF AnsiStep, Resting, UnitsStep
<1>9. CASE FlagsStep
  BY <1>9, Zenon DEF FlagsStep, Resting, UnitsStep
<1>10. CASE MemoryStep
  BY <1>10, Zenon DEF MemoryStep, Resting, UnitsStep
<1>11. CASE AlgorithmsStep
  BY <1>11, Zenon DEF AlgorithmsStep, Resting, UnitsStep
<1>12. CASE UNCHANGED machineVars
  BY <1>12, Zenon DEF machineVars, UnitsStep
<1> QED
  BY <1>1, <1>2, <1>3, <1>4, <1>5, <1>6, <1>7, <1>8, <1>9, <1>10, <1>11, <1>12 DEF MachineNext

LEMMA StartsAlone ==
  ASSUME MachineInit
  PROVE  /\ Init /\ DisplayInit /\ DosMemoryInit /\ DosFilesInit /\ ClockInit /\ PitInit
         /\ VideoInit /\ AnsiInit /\ MemoryInit
         /\ unit \in Units
         /\ unit = "flags" => FlagInit
         /\ unit = "algorithms" => AlgorithmInit
         /\ unit # "flags" => FlagsRest
<1>1. DosMemoryInit
  BY DEF MachineInit, DosMemoryRests
<1>2. MemoryInit
  <2>1. 0 \in 0..HeapRoom
    BY MemoryAssumption
  <2> QED
    BY <2>1 DEF MachineInit, MemoryRests, MemoryInit
<1> QED
  BY <1>1, <1>2 DEF MachineInit

(* Every behaviour of the machine is one of each of its units: what holds   *)
(* of a unit alone holds of it in the machine.                              *)
THEOREM UnitsAlone ==
  MachineSpec => /\ Spec /\ DisplaySpec /\ DosMemorySpec /\ DosFilesSpec /\ ClockSpec /\ PitSpec
                 /\ VideoSpec /\ AnsiSpec /\ MemorySpec
                 /\ unit = "flags" => FlagSpec
                 /\ unit = "algorithms" => AlgorithmSpec
<1>1. [MachineNext]_machineVars => UnitsStep
  BY StepsAlone
<1>2. UnitsStep =>
        /\ [Next]_vars /\ [DisplayNext]_displayVars /\ [DosMemoryNext]_dosMemoryVars
        /\ [DosFilesNext]_dosFilesVars /\ [ClockNext]_clockVars /\ [PitNext]_pitVars
        /\ [VideoNext]_videoVars /\ [AnsiNext]_ansiVars
        /\ [FlagNext]_flagVars /\ [MemoryNext]_memory /\ [AlgorithmNext]_algorithmVars
  BY DEF UnitsStep
<1>3. MachineInit =>
        /\ Init /\ DisplayInit /\ DosMemoryInit /\ DosFilesInit /\ ClockInit /\ PitInit
        /\ VideoInit /\ AnsiInit /\ MemoryInit
        /\ unit = "flags" => FlagInit
        /\ unit = "algorithms" => AlgorithmInit
  BY StartsAlone
<1> QED
  BY <1>1, <1>2, <1>3, PTL
     DEF MachineSpec, Spec, DisplaySpec, DosMemorySpec, DosFilesSpec, ClockSpec, PitSpec,
         VideoSpec, AnsiSpec, MemorySpec, FlagSpec, AlgorithmSpec

(* A unit at rest has its types.                                            *)
LEMMA FlagsAtRest == FlagsRest => FlagTypeOK
<1> SUFFICES ASSUME FlagsRest PROVE FlagTypeOK
  OBVIOUS
<1>1. Len(program) = 0 /\ 1..Len(program) = {}
  <2>1. program = << >>
    BY DEF FlagsRest
  <2> QED
    BY <2>1
<1>2. << >> \in [{} -> SUBSET AllFlags]
  OBVIOUS
<1>3. stale = {} /\ leader = 0 /\ changed = FALSE /\ live = << >> /\ spot = Left
  BY DEF FlagsRest
<1>4. liveIn = << >> /\ liveOut = << >>
  BY DEF FlagsRest
<1>5. leader \in 0..Len(program)
  BY <1>1, <1>3
<1> QED
  BY <1>1, <1>2, <1>3, <1>4, <1>5 DEF FlagTypeOK

LEMMA FlagsStayAtRest == FlagsRest /\ UNCHANGED flagVars => FlagsRest'
  BY DEF FlagsRest, flagVars

(* No counter of any unit, and no position, leaves its range, in whatever   *)
(* way the machine goes on.                                                 *)
THEOREM MachineTypeCorrect == MachineSpec => []MachineTypeOK
<1> DEFINE Kept == unit \in Units /\ (unit # "flags" => FlagsRest)
<1>1. MachineSpec => []Kept
  <2>1. MachineInit => Kept
    BY StartsAlone
  <2>2. Kept /\ [MachineNext]_machineVars => Kept'
    BY StepsAlone, FlagsStayAtRest
  <2> QED
    BY <2>1, <2>2, PTL DEF MachineSpec
<1>2. MachineSpec => [](unit = "flags" => FlagTypeOK)
  <2>1. MachineSpec /\ unit = "flags" => []FlagTypeOK
    BY UnitsAlone, FlagTypeCorrect, PTL
  <2>2. ~(unit = "flags") /\ [MachineNext]_machineVars => ~(unit = "flags")'
    BY StepsAlone
  <2> QED
    BY <2>1, <2>2, PTL DEF MachineSpec
<1>3. DisplaySpec => []DisplayTypeOK
  <2>1. DisplayIInv => DisplayTypeOK
    BY DEF DisplayIInv
  <2> QED
    BY <2>1, DisplayInductive, PTL
<1>4. DosMemorySpec => []DosMemoryTypeOK
  <2>1. DosMemoryIInv => DosMemoryTypeOK
    BY DEF DosMemoryIInv
  <2> QED
    BY <2>1, DosMemoryInitial, DosMemoryStep, PTL DEF DosMemorySpec
<1>5. ClockSpec => []ClockTypeOK
  <2>1. ClockInv => ClockTypeOK
    BY DEF ClockInv
  <2> QED
    BY <2>1, ClockInitial, ClockKept, PTL DEF ClockSpec
<1>6. PitSpec => []PitTypeOK
  <2>1. PitIInv => PitTypeOK
    BY DEF PitIInv
  <2> QED
    BY <2>1, PitInitial, PitKept, PTL DEF PitSpec
<1>7. Kept /\ (unit = "flags" => FlagTypeOK) => unit \in Units /\ FlagTypeOK
  BY FlagsAtRest
<1>8. /\ unit \in Units /\ FlagTypeOK
      /\ TypeOK /\ DisplayTypeOK /\ DosMemoryTypeOK /\ DosFilesTypeOK /\ ClockTypeOK /\ PitTypeOK
      /\ VideoTypeOK /\ AnsiTypeOK /\ MemoryTypeOK
      => MachineTypeOK
  BY DEF MachineTypeOK
<1> HIDE DEF Kept
<1> QED
  BY <1>1, <1>2, <1>3, <1>4, <1>5, <1>6, <1>7, <1>8, UnitsAlone, TypeCorrect, FilesTypeCorrect,
     VideoTypeCorrect, AnsiTypeCorrect, MemoryTypeCorrect, PTL

LEMMA NothingStaleAtRest == FlagsRest => FlagsAreFresh
  BY DEF FlagsRest, FlagsAreFresh, NoStaleFlag, Running

(* The safety properties of the units, together, of the machine that is any *)
(* one of them; each with the limits its own statement has: flags are fresh *)
(* in a program without a misjudged instruction, blocks are disjoint since  *)
(* the last resize, and a stroke that pc_input.c does not support may come  *)
(* out as a wrong key.                                                      *)
THEOREM MachineIsSafe ==
  MachineSpec =>
    /\ [](/\ OneUnacknowledged /\ HandlerFindsCode /\ KeysInOrder /\ KeystrokesDecode
          /\ DrawnIsIdle /\ PanelIsWhole /\ BdaFollows /\ TeletypeLikePaper
          /\ BlocksDisjoint /\ StreamsAreOwned /\ SearchFindsAll
          /\ ElapsedIsRight /\ PairsAreWhole /\ SpeakerFollowsPorts /\ FlagsAreFresh)
    /\ ScansImplementStream /\ MemoryIsRam
<1>1. MachineSpec => []FlagsAreFresh
  <2>1. MachineSpec /\ unit = "flags" => []FlagsAreFresh
    BY UnitsAlone, NoFlagIsStale, PTL
  <2>2. MachineInit => (unit = "flags" \/ (~(unit = "flags") /\ FlagsRest))
    BY StartsAlone
  <2>3. (~(unit = "flags") /\ FlagsRest) /\ [MachineNext]_machineVars
          => ~(unit = "flags")' /\ FlagsRest'
    BY StepsAlone, FlagsStayAtRest
  <2> QED
    BY <2>1, <2>2, <2>3, NothingStaleAtRest, PTL DEF MachineSpec
<1> QED
  BY <1>1, UnitsAlone, OneHandlerUnacknowledged, NoSpuriousInterrupt, KeysAreInOrder, KeystrokesAreKeys,
     NeverOverdrawn, FrameReachesPanel, BdaIsCurrent, TeletypeIsPaper, BlocksAreDisjoint,
     NothingLeaks, SearchIsComplete, TimeIsNotInvented, WordsAreWhole, SpeakerIsTold,
     ScansImplement, MemoryIsOneRam, PTL
=============================================================================
