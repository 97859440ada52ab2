--------------------------- MODULE SessionProofs ---------------------------
(***************************************************************************)
(* Proofs about Session, for any commands, scripts and capacities, and for *)
(* any of the faults that a theorem does not exclude.                      *)
(***************************************************************************)
EXTENDS Session, SequenceTheorems, Induction, TLAPS

(* The sizes, and what a script holds.                                      *)
LEMMA Sizes ==
  /\ ModuleCapacity \in Nat /\ ModuleCapacity > 0 /\ Batch \in Nat /\ Batch > 0
  /\ UartCapacity \in Nat /\ MaxTyped \in Nat /\ MaxHandle \in Nat
  BY SessionAssumption

LEMMA CommandsAndScripts ==
  /\ None \notin Cmd /\ BuiltIn \in Seq(Cmd)
  /\ \A s \in Scripts : s \in Seq(Word)
  BY SessionAssumption

Selecting == {"prompt", "feed", "request", "button", "autoexec"}
Executing == {"run", "poll", "return"}

\* What the task knows where it is: no package is selected before a command
\* or a press selects one, and AUTOEXEC serves a request before it goes on.
ControlInv ==
  /\ phase \in Selecting <=> selected = 0
  /\ phase = "autoexec" => booting
  /\ phase \in {"prompt", "feed", "button"} => ~booting
  /\ phase = "request" => request # None
  /\ booting /\ phase # "request" => request = None
  /\ phase = "map" => External

ListedInv == packages = Listing(modules)

\* The supervisor has a program only while one executes.
MachineInv ==
  /\ phase \notin Executing =>
       /\ sup = "IDLE" /\ program = None
       /\ \A p \in Part \ {"escape"} : left[p] # "program"
  /\ fresh => phase = "run" /\ \A p \in Part : left[p] = "clean"

\* From its launch to its release a module is mapped.
MappedInv ==
  phase \in Executing \cup {"launch", "release"} /\ External =>
    {irom, drom} \subseteq mapped /\ irom # drom /\ tables

\* Everything mapped is of the module that runs, if no DROM mapping fails.
Released == irom = NoHandle /\ drom = NoHandle /\ mapped = {} /\ ~tables
HandlesInv ==
  IF phase \in Executing \cup {"launch", "release"} /\ External
    THEN mapped = {irom, drom}
    ELSE Released

\* What is mapped is mapped for the module that runs, whatever fails.
WindowsInv ==
  IF phase \in Executing \cup {"launch", "release"} /\ External
    THEN mapped = {irom, drom}
    ELSE mapped = {} /\ ~tables

\* A press that was acted upon is a press that was seen.
PressInv == uses = 0 \/ (uses = 1 /\ buttonSeen = button)

TypeInv == TypeOK /\ ControlInv /\ ListedInv

\* TypeOK, by the part of the task that keeps the variables.
LineOK ==
  /\ uart \in Seq(Token) /\ Len(uart) <= UartCapacity
  /\ batch \in Seq(Token) /\ Len(batch) <= Batch
  /\ typed \in 0..MaxTyped /\ uses \in Nat
ShellOK ==
  /\ input \in Word \cup {Empty} /\ request \in Cmd \cup {None}
  /\ modules \in Seq(Cmd) /\ Len(modules) <= ModuleCapacity
  /\ packages \in Seq([command : Cmd, index : 0..Len(modules)])
  /\ selected \in 0..Len(packages)
ScriptOK ==
  /\ script \in Scripts \cup {<< >>} /\ line \in 1..(Len(script) + 1)
  /\ phase \in Phases
HandlesOK ==
  /\ irom \in 0..MaxHandle /\ drom \in 0..MaxHandle
  /\ mapped \subseteq 1..MaxHandle
MachineOK ==
  /\ sup \in {"IDLE", "ACTIVE", "EXITED", "FAULTED"}
  /\ program \in Cmd \cup {None}
  /\ left \in [Part -> Owner]
  /\ videoMode \in Mode /\ bda \in Mode \cup {NoMode}
FlagsOK ==
  /\ button \in BOOLEAN /\ buttonSeen \in BOOLEAN /\ ignoreLF \in BOOLEAN
  /\ booting \in BOOLEAN /\ tables \in BOOLEAN /\ fresh \in BOOLEAN

LEMMA TypeGroups ==
  TypeOK <=> LineOK /\ ShellOK /\ ScriptOK /\ HandlesOK /\ MachineOK /\ FlagsOK
  BY Zenon DEF TypeOK, LineOK, ShellOK, ScriptOK, HandlesOK, MachineOK, FlagsOK

-----------------------------------------------------------------------------
(* The operators.                                                          *)

LEMMA WordKinds ==
  ASSUME NEW w \in Word \cup {Empty}
  PROVE  /\ w # Empty /\ w[1] = "run" => w[2] \in Cmd
         /\ w # Empty /\ w[1] = "install" => w[2] \in Cmd
<1>1. CASE w = Empty
  BY <1>1
<1>2. ASSUME NEW c \in Cmd, w = Run(c) PROVE w[1] = "run" /\ w[2] \in Cmd
  BY <1>2 DEF Run
<1>3. ASSUME NEW c \in Cmd, w = Install(c) PROVE w[1] = "install" /\ w[2] \in Cmd
  BY <1>3 DEF Install
<1>4. CASE w = Noise
  BY <1>4 DEF Noise
<1> QED  BY <1>1, <1>2, <1>3, <1>4 DEF Word

LEMMA FindsPackage ==
  ASSUME TypeOK, NEW c
  PROVE  Find(c) \in 0..Len(packages)
<1> DEFINE named == {i \in DOMAIN packages : packages[i].command = c}
<1>1. DOMAIN packages = 1..Len(packages) /\ Len(packages) \in Nat
  BY DEF TypeOK
<1>2. CASE named = {}
  BY <1>1, <1>2 DEF Find
<1>3. CASE named # {}
  <2>1. named \subseteq Nat /\ named \subseteq 1..Len(packages)
    BY <1>1
  <2>2. \E i \in named : \A j \in named : i <= j
    <3> HIDE DEF named
    <3> QED  BY <1>3, <2>1, LeastOf
  <2>3. Find(c) = CHOOSE i \in named : \A j \in named : i <= j
    BY <1>3 DEF Find
  <2>4. Find(c) \in named
    <3> HIDE DEF named
    <3> QED  BY <2>2, <2>3
  <2> QED  BY <2>1, <2>4, <1>1
<1> QED  BY <1>2, <1>3

(* A line selects a package, or leaves a request, or neither.               *)
LEMMA LineEffect ==
  ASSUME TypeOK, NEW w \in Word \cup {Empty}, ExecuteLine(w)
  PROVE  /\ selected' \in 0..Len(packages) /\ request' \in Cmd \cup {None}
         /\ request' # request => selected' = 0
         /\ request # None => request' # None
<1>1. CASE w # Empty /\ w[1] = "run"
  BY <1>1, FindsPackage, TypeGroups DEF ExecuteLine, ShellOK
<1>2. CASE w # Empty /\ w[1] = "install"
  <2>1. selected' = 0 /\ request' = w[2] /\ w[2] \in Cmd
    BY <1>2, WordKinds DEF ExecuteLine
  <2> QED  BY <2>1, CommandsAndScripts, TypeGroups DEF ShellOK
<1>3. CASE ~(w # Empty /\ w[1] \in {"run", "install"})
  BY <1>3, TypeGroups DEF ExecuteLine, ShellOK
<1> QED  BY <1>1, <1>2, <1>3

LEMMA ListingType ==
  ASSUME NEW mods \in Seq(Cmd)
  PROVE  Listing(mods) \in Seq([command : Cmd, index : 0..Len(mods)])
<1> DEFINE n == Len(BuiltIn) + Len(mods)
           at(i) == IF i <= Len(BuiltIn) THEN [command |-> BuiltIn[i], index |-> 0]
                    ELSE [command |-> mods[i - Len(BuiltIn)], index |-> i - Len(BuiltIn)]
           Rec == [command : Cmd, index : 0..Len(mods)]
<1>1. n \in Nat /\ Len(BuiltIn) \in Nat /\ Len(mods) \in Nat
  BY CommandsAndScripts
<1>2. ASSUME NEW i \in 1..n PROVE at(i) \in Rec
  <2>1. CASE i <= Len(BuiltIn)
    BY <1>1, <2>1, CommandsAndScripts
  <2>2. CASE ~(i <= Len(BuiltIn))
    <3>1. i - Len(BuiltIn) \in 1..Len(mods)
      BY <1>1, <2>2
    <3> QED  BY <2>2, <3>1
  <2> QED  BY <2>1, <2>2
<1>3. Listing(mods) = [i \in 1..n |-> at(i)]
  BY DEF Listing
<1> HIDE DEF at, Rec, n
<1>4. [i \in 1..n |-> at(i)] \in Seq(Rec)
  BY <1>1, <1>2
<1> QED  BY <1>3, <1>4 DEF Rec

(* What a poll takes from the UART's driver and what stays there.          *)
LEMMA Taking ==
  ASSUME NEW s \in Seq(Token), NEW n \in 0..Len(s)
  PROVE  /\ SubSeq(s, 1, n) \in Seq(Token) /\ Len(SubSeq(s, 1, n)) = n
         /\ SubSeq(s, n + 1, Len(s)) \in Seq(Token) /\ Len(SubSeq(s, n + 1, Len(s))) = Len(s) - n
<1>1. Len(s) \in Nat /\ n \in Int /\ \A i \in 1..Len(s) : s[i] \in Token
  OBVIOUS
<1>2. \A i \in 1..n : s[i] \in Token
  BY <1>1
<1>3. \A i \in (n + 1)..Len(s) : s[i] \in Token
  BY <1>1
<1>4. SubSeq(s, 1, n) \in Seq(Token) /\ Len(SubSeq(s, 1, n)) = n
  BY <1>1, <1>2, SubSeqProperties
<1>5. SubSeq(s, n + 1, Len(s)) \in Seq(Token) /\ Len(SubSeq(s, n + 1, Len(s))) = Len(s) - n
  BY <1>1, <1>3, SubSeqProperties
<1> QED  BY <1>4, <1>5

LEMMA AvailableBounds ==
  ASSUME TypeOK
  PROVE  Available \in 0..Len(uart) /\ Available <= Batch
  BY Sizes DEF Available, TypeOK

-----------------------------------------------------------------------------
(* Type correctness, the task's control and its copy of the module table.   *)

(* What changes which of the task's state.                                  *)
LEMMA LineMoves ==
  [Next]_vars =>
    \/ UNCHANGED line_vars
    \/ ReadUart \/ Feed \/ SampleButton \/ Poll \/ Type \/ MoveButton
  BY DEF vars, Next, Task, Prompt, Autoexec, RunPackage, FeedDone, HandleRequest, ScriptLine,
     ScriptEnd, StartBuiltIn, ProbeModule, MapProgram, Refuse, Launch, Slice, ReturnToShell,
     Release

LEMMA HandlesMove ==
  [Next]_vars => UNCHANGED handles \/ ProbeModule \/ MapProgram \/ Release
  BY DEF vars, Next, Task, Prompt, Autoexec, RunPackage, ReadUart, Feed, FeedDone, HandleRequest,
     SampleButton, ScriptLine, ScriptEnd, StartBuiltIn, Refuse, Launch, Slice, Poll,
     ReturnToShell, Type, MoveButton

LEMMA MachineMoves ==
  [Next]_vars =>
    \/ UNCHANGED <<machine, supervisor>>
    \/ HandleRequest \/ Refuse \/ Launch \/ Slice \/ Poll \/ ReturnToShell
  BY DEF vars, Next, Task, Prompt, Autoexec, RunPackage, ReadUart, Feed, FeedDone,
     SampleButton, ScriptLine, ScriptEnd, StartBuiltIn, ProbeModule, MapProgram, Release,
     Type, MoveButton

LEMMA LineInitial == Init => LineOK
<1>1. << >> \in Seq(Token) /\ Len(<< >>) = 0
  OBVIOUS
<1> SUFFICES ASSUME Init PROVE LineOK
  OBVIOUS
<1>2. uart \in Seq(Token) /\ Len(uart) <= UartCapacity
  BY <1>1, Sizes DEF Init
<1>3. batch \in Seq(Token) /\ Len(batch) <= Batch
  BY <1>1, Sizes DEF Init
<1>4. typed \in 0..MaxTyped /\ uses \in Nat
  BY Sizes DEF Init
<1> QED  BY <1>2, <1>3, <1>4 DEF LineOK

LEMMA LineStep == TypeOK /\ [Next]_vars => LineOK'
<1> SUFFICES ASSUME TypeOK, [Next]_vars PROVE LineOK'
  OBVIOUS
<1>1. LineOK /\ Len(uart) \in Nat /\ Len(batch) \in Nat
  BY TypeGroups DEF LineOK
<1>2. CASE UNCHANGED line_vars
  BY <1>1, <1>2 DEF LineOK, line_vars
<1>3. CASE ReadUart
  <2>1. /\ batch' \in Seq(Token) /\ Len(batch') <= Batch
        /\ uart' \in Seq(Token) /\ Len(uart') <= UartCapacity
    BY <1>1, <1>3, AvailableBounds, Taking, Sizes DEF ReadUart, LineOK
  <2> QED  BY <1>1, <1>3, <2>1 DEF ReadUart, LineOK
<1>4. CASE Feed
  <2>1. batch' = << >> \/ batch' = Tail(batch)
    BY <1>4 DEF Feed
  <2>2. batch # << >>
    BY <1>4 DEF Feed
  <2>3. batch' \in Seq(Token) /\ Len(batch') <= Batch
    <3>1. Tail(batch) \in Seq(Token) /\ Len(Tail(batch)) = Len(batch) - 1
      BY <1>1, <2>2 DEF LineOK
    <3>2. << >> \in Seq(Token) /\ Len(<< >>) = 0
      OBVIOUS
    <3>3. Len(batch) - 1 <= Batch /\ 0 <= Batch
      BY <1>1, Sizes DEF LineOK
    <3> QED  BY <2>1, <3>1, <3>2, <3>3
  <2> QED  BY <1>1, <1>4, <2>3 DEF Feed, LineOK
<1>5. CASE SampleButton
  BY <1>1, <1>5 DEF SampleButton, LineOK
<1>6. CASE Poll
  <2>1. uart' \in Seq(Token) /\ Len(uart') <= UartCapacity
    BY <1>1, <1>6, AvailableBounds, Taking, Sizes DEF Poll, LineOK
  <2> QED  BY <1>1, <1>6, <2>1 DEF Poll, LineOK
<1>7. CASE Type
  <2>1. uart' \in Seq(Token) /\ Len(uart') = Len(uart) + 1
    BY <1>1, <1>7, SessionAssumption DEF Type, LineOK
  <2>2. typed' \in 0..MaxTyped
    BY <1>1, <1>7, Sizes DEF Type, LineOK
  <2>3. Len(uart') <= UartCapacity
    BY <1>1, <1>7, <2>1, Sizes DEF Type, LineOK
  <2> QED  BY <1>1, <1>7, <2>1, <2>2, <2>3 DEF Type, LineOK
<1>8. CASE MoveButton
  BY <1>1, <1>8 DEF MoveButton, LineOK
<1> QED  BY LineMoves, <1>2, <1>3, <1>4, <1>5, <1>6, <1>7, <1>8

LEMMA Mapping ==
  ASSUME NEW live \in SUBSET (1..MaxHandle), MapModule(live, TRUE, TRUE)
  PROVE  HandlesOK'
<1>1. ASSUME NEW h \in 1..MaxHandle, NEW g \in 1..MaxHandle,
             irom' = h, drom' = g, mapped' = live \cup {h, g}
      PROVE  HandlesOK'
  BY <1>1, Sizes DEF HandlesOK
<1>2. CASE irom' = 0 /\ drom' = 0 /\ mapped' = live
  BY <1>2, Sizes DEF HandlesOK
<1>3. ASSUME NEW h \in 1..MaxHandle, irom' = h, drom' = 0, mapped' = live
      PROVE  HandlesOK'
  BY <1>3, Sizes DEF HandlesOK
<1> QED  BY <1>1, <1>2, <1>3 DEF MapModule, NoHandle

LEMMA HandlesStep == TypeOK /\ [Next]_vars => HandlesOK'
<1> SUFFICES ASSUME TypeOK, [Next]_vars PROVE HandlesOK'
  OBVIOUS
<1>1. HandlesOK /\ MaxHandle \in Nat
  BY TypeGroups, Sizes
<1>2. CASE UNCHANGED handles
  BY <1>1, <1>2 DEF HandlesOK, handles
<1>3. CASE ProbeModule
  <2> DEFINE live == mapped \ {irom, drom}
  <2>1. live \in SUBSET (1..MaxHandle)
    BY <1>1 DEF HandlesOK
  <2>2. CASE irom' = NoHandle /\ drom' = NoHandle /\ mapped' = live
    BY <1>1, <2>1, <2>2 DEF HandlesOK, NoHandle
  <2>3. CASE MapModule(live, TRUE, TRUE)
    BY <2>1, <2>3, Mapping
  <2> QED  BY <1>3, <2>2, <2>3 DEF ProbeModule, MapModule
<1>4. CASE MapProgram
  <2>1. CASE MapModule(mapped, TRUE, TRUE)
    BY <1>1, <2>1, Mapping DEF HandlesOK
  <2>2. CASE Deactivate
    BY <1>1, <2>2 DEF HandlesOK, Deactivate, NoHandle
  <2> QED  BY <1>4, <2>1, <2>2 DEF MapProgram, MapModule
<1>5. CASE Release
  <2>1. CASE Deactivate
    BY <1>1, <2>1 DEF HandlesOK, Deactivate, NoHandle
  <2>2. CASE UNCHANGED handles
    BY <1>2, <2>2
  <2> QED  BY <1>5, <2>1, <2>2 DEF Release
<1> QED  BY HandlesMove, <1>2, <1>3, <1>4, <1>5

LEMMA Selected ==
  ASSUME TypeOK, selected # 0
  PROVE  packages[selected].command \in Cmd
<1>1. selected \in 1..Len(packages)
  BY TypeGroups DEF ShellOK
<1>2. packages \in Seq([command : Cmd, index : 0..Len(modules)])
  BY TypeGroups DEF ShellOK
<1>3. packages[selected] \in [command : Cmd, index : 0..Len(modules)]
  BY <1>1, <1>2, ElementOfSeq
<1> QED  BY <1>3

LEMMA MachineStep == TypeInv /\ [Next]_vars => MachineOK'
<1> SUFFICES ASSUME TypeInv, [Next]_vars PROVE MachineOK'
  OBVIOUS
<1>1. MachineOK /\ TypeOK
  BY TypeGroups DEF TypeInv
<1>2. CASE UNCHANGED <<machine, supervisor>>
  BY <1>1, <1>2 DEF MachineOK, machine, supervisor
<1>3. ASSUME EnterShell PROVE MachineOK'
  BY <1>1, <1>3 DEF MachineOK, EnterShell, Owner, Mode, Part
<1>4. CASE Launch
  <2>1. program' \in Cmd \cup {None}
    <3>1. selected # 0
      BY <1>4 DEF TypeInv, ControlInv, Selecting, Launch
    <3> QED  BY <1>1, <1>4, <3>1, Selected DEF Launch, MachineOK
  <2> QED  BY <1>1, <1>4, <2>1 DEF MachineOK, Launch, ResetMachine, Owner, Mode, NoMode
<1>5. CASE Slice
  BY <1>1, <1>5 DEF MachineOK, Slice, Owner, Mode
<1>6. CASE Poll
  BY <1>1, <1>6 DEF MachineOK, Poll, Owner, supervisor
<1> QED
  BY MachineMoves, <1>2, <1>3, <1>4, <1>5, <1>6 DEF HandleRequest, Refuse, ReturnToShell

LEMMA ShellMoves ==
  [Next]_vars =>
    \/ UNCHANGED <<input, request, packages, modules, selected>>
    \/ Feed \/ HandleRequest \/ SampleButton \/ ScriptLine
    \/ UNCHANGED <<input, request, packages, modules>> /\ selected' = 0
  BY DEF vars, Next, Task, Prompt, Autoexec, RunPackage, ReadUart, FeedDone, ScriptEnd, shell,
     StartBuiltIn, ProbeModule, MapProgram, Refuse, Launch, Slice, Poll, ReturnToShell, Release,
     Type, MoveButton

LEMMA InputType ==
  ASSUME TypeOK, Feed
  PROVE  input' \in Word \cup {Empty}
<1>1. input \in Word \cup {Empty}
  BY TypeGroups DEF ShellOK
<1>2. Noise \in Word
  BY DEF Word
<1>3. input' = Empty \/ input' \in Word \/ input' = input
  BY <1>2 DEF Feed
<1> QED  BY <1>1, <1>3

LEMMA ScriptWord ==
  ASSUME TypeOK, line <= Len(script)
  PROVE  /\ script[line] \in Word \cup {Empty}
         /\ line + 1 \in 1..(Len(script) + 1)
<1>1. script \in Scripts \cup {<< >>} /\ line \in 1..(Len(script) + 1)
  BY TypeGroups DEF ScriptOK
<1>2. script \in Seq(Word)
  BY <1>1, CommandsAndScripts
<1>3. line \in 1..Len(script) /\ Len(script) \in Nat
  BY <1>1, <1>2
<1>4. script[line] \in Word
  BY <1>2, <1>3, ElementOfSeq
<1> QED  BY <1>3, <1>4

LEMMA ShellStep == TypeInv /\ [Next]_vars => ShellOK' /\ ListedInv'
<1> SUFFICES ASSUME TypeInv, [Next]_vars PROVE ShellOK' /\ ListedInv'
  OBVIOUS
<1>1. /\ TypeOK /\ ShellOK /\ ListedInv
      /\ Len(packages) \in Nat /\ Len(modules) \in Nat
  BY TypeGroups DEF TypeInv, ShellOK
<1>2. CASE UNCHANGED <<input, request, packages, modules, selected>>
  BY <1>1, <1>2 DEF ShellOK, ListedInv, Listing
<1>3. CASE UNCHANGED <<input, request, packages, modules>> /\ selected' = 0
  BY <1>1, <1>3 DEF ShellOK, ListedInv, Listing
<1>4. CASE Feed
  <2>1. /\ selected' \in 0..Len(packages) /\ request' \in Cmd \cup {None}
    <3>1. CASE ExecuteLine(input)
      BY <1>1, <3>1, LineEffect DEF ShellOK
    <3>2. CASE UNCHANGED <<selected, request>>
      BY <1>1, <3>2 DEF ShellOK
    <3> QED  BY <1>4, <3>1, <3>2 DEF Feed
  <2>2. UNCHANGED <<packages, modules>>
    BY <1>4 DEF Feed
  <2> QED  BY <1>1, <1>4, <2>1, <2>2, InputType DEF ShellOK, ListedInv, Listing
<1>5. CASE HandleRequest
  <2>1. /\ request \in Cmd /\ selected = 0
    BY <1>1, <1>5 DEF HandleRequest, TypeInv, ControlInv, ShellOK, Selecting
  <2>2. modules' = modules \/ (Len(modules) # ModuleCapacity /\ modules' = Append(modules, request))
    BY <1>5 DEF HandleRequest
  <2>3. modules' \in Seq(Cmd) /\ Len(modules') <= ModuleCapacity
    <3>1. CASE modules' = modules
      BY <1>1, <3>1 DEF ShellOK
    <3>2. CASE Len(modules) # ModuleCapacity /\ modules' = Append(modules, request)
      <4>1. Append(modules, request) \in Seq(Cmd) /\ Len(Append(modules, request)) = Len(modules) + 1
        BY <1>1, <2>1 DEF ShellOK
      <4>2. Len(modules) + 1 <= ModuleCapacity
        BY <1>1, <3>2, Sizes DEF ShellOK
      <4> QED  BY <3>2, <4>1, <4>2
    <3> QED  BY <2>2, <3>1, <3>2
  <2>4. /\ packages' = Listing(modules') /\ input' = Empty /\ request' = None
        /\ selected' = 0
    BY <1>5, <2>1 DEF HandleRequest, ResetCatalog
  <2>5. packages' \in Seq([command : Cmd, index : 0..Len(modules')])
    BY <2>3, <2>4, ListingType
  <2>6. selected' \in 0..Len(packages')
    BY <2>4, <2>5
  <2> QED  BY <2>3, <2>4, <2>5, <2>6 DEF ShellOK, ListedInv, Listing
<1>6. CASE SampleButton
  <2>1. selected' \in 0..Len(packages)
    <3>1. packages # << >> => Len(packages) >= 1
      BY <1>1 DEF ShellOK
    <3>2. selected' = 0 \/ (selected' = 1 /\ packages # << >>)
      BY <1>6 DEF SampleButton
    <3> QED  BY <1>1, <3>1, <3>2
  <2> QED  BY <1>1, <1>6, <2>1 DEF SampleButton, shell, ShellOK, ListedInv, Listing
<1>7. CASE ScriptLine
  <2>1. selected' \in 0..Len(packages) /\ request' \in Cmd \cup {None}
    BY <1>1, <1>7, ScriptWord, LineEffect DEF ScriptLine
  <2> QED  BY <1>1, <1>7, <2>1 DEF ScriptLine, ShellOK, ListedInv, Listing
<1> QED  BY ShellMoves, <1>2, <1>3, <1>4, <1>5, <1>6, <1>7

LEMMA ScriptStep == TypeOK /\ [Next]_vars => ScriptOK'
<1> SUFFICES ASSUME TypeOK, [Next]_vars PROVE ScriptOK'
  OBVIOUS
<1>1. ScriptOK
  BY TypeGroups
<1>2. phase' \in Phases
  BY <1>1 DEF vars, Next, Task, Prompt, Autoexec, RunPackage, ReadUart, FeedDone, ScriptEnd,
     StartBuiltIn, ProbeModule, MapProgram, MapModule, Refuse, Launch, Slice, Poll, ReturnToShell, Release,
     Type, MoveButton, Feed, HandleRequest, SampleButton, ScriptLine, Home, Phases, ScriptOK
<1>3. CASE UNCHANGED <<script, line>>
  BY <1>1, <1>2, <1>3 DEF ScriptOK
<1>4. CASE ScriptLine
  BY <1>1, <1>2, <1>4, ScriptWord DEF ScriptOK, ScriptLine
<1>5. CASE ScriptEnd
  BY <1>2, <1>5 DEF ScriptOK, ScriptEnd
<1>6. UNCHANGED <<script, line>> \/ ScriptLine \/ ScriptEnd
  BY DEF vars, auto, Next, Task, Prompt, Autoexec, RunPackage, ReadUart, FeedDone,
     StartBuiltIn, ProbeModule, MapProgram, Refuse, Launch, Slice, Poll, ReturnToShell, Release,
     Type, MoveButton, Feed, HandleRequest, SampleButton
<1> QED  BY <1>3, <1>4, <1>5, <1>6

LEMMA FlagsStep == TypeOK /\ [Next]_vars => FlagsOK'
<1> SUFFICES ASSUME TypeOK, [Next]_vars PROVE FlagsOK'
  OBVIOUS
<1>1. FlagsOK
  BY TypeGroups
<1> USE DEF FlagsOK
<1>2. CASE Prompt
  BY <1>1, <1>2 DEF Prompt, ReadUart, Feed, FeedDone, HandleRequest, SampleButton, ResetCatalog,
     EnterShell, line_vars, shell, auto, handles, supervisor
<1>3. CASE Autoexec
  BY <1>1, <1>3 DEF Autoexec, ScriptLine, ScriptEnd, line_vars, shell, auto, handles, supervisor
<1>4. CASE StartBuiltIn \/ ProbeModule \/ MapProgram \/ Refuse
  BY <1>1, <1>4 DEF StartBuiltIn, ProbeModule, MapProgram, MapModule, Deactivate, Refuse, EnterShell,
     line_vars, shell, auto, handles, supervisor
<1>5. CASE Launch \/ Slice \/ Poll \/ ReturnToShell \/ Release
  BY <1>1, <1>5 DEF Launch, Slice, Poll, ReturnToShell, Release, Deactivate, EnterShell,
     line_vars, shell, auto, handles, supervisor
<1>6. CASE Type \/ MoveButton \/ UNCHANGED vars
  BY <1>1, <1>6 DEF Type, MoveButton, vars, line_vars, shell, auto, handles, supervisor
<1> QED  BY <1>2, <1>3, <1>4, <1>5, <1>6 DEF Next, Task, RunPackage

LEMMA ControlStep == TypeInv /\ [Next]_vars => ControlInv'
<1> SUFFICES ASSUME TypeInv, [Next]_vars PROVE ControlInv'
  OBVIOUS
<1>1. /\ TypeOK /\ ControlInv /\ phase \in Phases /\ booting \in BOOLEAN
      /\ request \in Cmd \cup {None}
  BY DEF TypeInv, TypeOK
<1>2. UNCHANGED <<selected, packages>> => External' = External
  BY DEF External
<1> USE <1>1 DEF ControlInv, Selecting
<1>3. CASE ReadUart
  BY <1>3 DEF ReadUart, shell, auto
<1>4. CASE Feed
  <2>1. phase = "feed" /\ selected = 0 /\ ~booting /\ ~booting' /\ phase' \in {"start", "feed"}
    BY <1>4 DEF Feed, auto
  <2>2. phase' = "start" <=> selected' # 0
    BY <1>4, <2>1 DEF Feed
  <2> QED  BY <2>1, <2>2
<1>5. CASE FeedDone
  BY <1>5 DEF FeedDone, shell, auto
<1>6. CASE HandleRequest
  BY <1>6 DEF HandleRequest, ResetCatalog, auto
<1>7. CASE SampleButton
  BY <1>7 DEF SampleButton, shell, auto
<1>8. CASE ScriptLine
  <2>1. /\ request' # request => selected' = 0
        /\ phase = "autoexec" /\ booting /\ request = None /\ booting'
    BY <1>8, ScriptWord, LineEffect DEF ScriptLine
  <2> QED  BY <1>8, <2>1 DEF ScriptLine
<1>9. CASE ScriptEnd
  BY <1>9 DEF ScriptEnd, shell
<1>10. CASE StartBuiltIn
  BY <1>10 DEF StartBuiltIn, shell, auto
<1>11. CASE ProbeModule
  BY <1>2, <1>11 DEF ProbeModule, MapModule, shell, auto
<1>12. CASE MapProgram
  BY <1>12 DEF MapProgram, MapModule, shell, auto
<1>13. CASE Refuse
  BY <1>13 DEF Refuse, Home, shell, auto
<1>14. CASE Launch
  BY <1>14 DEF Launch, shell, auto
<1>15. CASE Slice
  BY <1>15 DEF Slice, shell, auto
<1>16. CASE Poll
  BY <1>16 DEF Poll, shell, auto
<1>17. CASE ReturnToShell
  BY <1>17 DEF ReturnToShell, shell, auto
<1>18. CASE Release
  BY <1>18 DEF Release, Home, shell, auto
<1>19. CASE Type \/ MoveButton \/ UNCHANGED vars
  BY <1>2, <1>19 DEF Type, MoveButton, vars, shell, auto
<1> QED
  BY <1>3, <1>4, <1>5, <1>6, <1>7, <1>8, <1>9, <1>10, <1>11, <1>12, <1>13, <1>14, <1>15, <1>16,
     <1>17, <1>18, <1>19 DEF Next, Task, Prompt, Autoexec, RunPackage

LEMMA TypeInitial == Init => TypeInv
<1> SUFFICES ASSUME Init PROVE TypeInv
  OBVIOUS
<1>1. modules \in Seq(Cmd) /\ Len(modules) <= ModuleCapacity
  BY SessionAssumption DEF Init
<1>2. packages \in Seq([command : Cmd, index : 0..Len(modules)])
  BY <1>1, ListingType DEF Init
<1>3. ShellOK
  BY <1>1, <1>2 DEF Init, ShellOK
<1>4. ScriptOK
  <2>1. script \in Seq(Word)
    BY CommandsAndScripts DEF Init
  <2> QED  BY <2>1 DEF Init, ScriptOK, Phases
<1>5. HandlesOK
  BY Sizes DEF Init, HandlesOK, NoHandle
<1>6. MachineOK
  BY DEF Init, MachineOK, Owner, Mode, Part
<1>7. FlagsOK
  BY DEF Init, FlagsOK
<1>8. ControlInv /\ ListedInv
  BY DEF Init, ControlInv, ListedInv, Selecting
<1> QED  BY <1>3, <1>4, <1>5, <1>6, <1>7, <1>8, LineInitial, TypeGroups DEF TypeInv

LEMMA TypeStep == TypeInv /\ [Next]_vars => TypeInv'
<1> SUFFICES ASSUME TypeInv, [Next]_vars PROVE TypeInv'
  OBVIOUS
<1>1. TypeOK
  BY DEF TypeInv
<1>2. LineOK' /\ ShellOK' /\ ScriptOK' /\ HandlesOK' /\ MachineOK' /\ FlagsOK'
  BY <1>1, LineStep, ShellStep, ScriptStep, HandlesStep, MachineStep, FlagsStep
<1>3. TypeOK'
  BY <1>2, Zenon DEF TypeOK, LineOK, ShellOK, ScriptOK, HandlesOK, MachineOK, FlagsOK
<1> QED  BY <1>3, ControlStep, ShellStep DEF TypeInv

LEMMA TypeAlways == Spec => []TypeInv
  BY TypeInitial, TypeStep, PTL DEF Spec

(* Every variable of the firmware keeps its type: the shell's index of a    *)
(* package stays within its list while installations replace that list, the *)
(* module table within its capacity, and what a poll takes within its       *)
(* buffer.                                                                  *)
THEOREM SessionTypeCorrect == Spec => []TypeOK
<1>1. TypeInv => TypeOK
  BY DEF TypeInv
<1> QED  BY <1>1, TypeAlways, PTL

-----------------------------------------------------------------------------
(* The machine, the mappings and the button.                                *)

LEMMA MachineInitial == Init => MachineInv
  BY DEF Init, MachineInv, Executing, Part

LEMMA MachineInvStep == TypeInv /\ MachineInv /\ [Next]_vars => MachineInv'
<1> SUFFICES ASSUME TypeInv, MachineInv, [Next]_vars PROVE MachineInv'
  OBVIOUS
<1>1. /\ left \in [Part -> Owner] /\ phase \in Phases /\ fresh \in BOOLEAN
  BY DEF TypeInv, TypeOK
<1> USE <1>1 DEF MachineInv, Executing, Phases
<1>2. ASSUME EnterShell, phase' \notin Executing PROVE MachineInv'
  BY <1>2 DEF EnterShell
<1>3. CASE HandleRequest
  BY <1>2, <1>3 DEF HandleRequest
<1>4. CASE Refuse
  BY <1>2, <1>4 DEF Refuse, Home
<1>5. CASE ReturnToShell
  BY <1>2, <1>5 DEF ReturnToShell
<1>6. CASE Launch
  <2>1. phase' \in Executing /\ (fresh' => phase' = "run") /\ \A p \in Part : left'[p] = "clean"
    BY <1>6 DEF Launch, ResetMachine
  <2> QED  BY <2>1
<1>7. CASE Slice
  BY <1>7 DEF Slice
<1>8. CASE Poll
  <2>1. ~fresh /\ ~fresh' /\ phase' \in Executing
    BY <1>8 DEF Poll, supervisor
  <2> QED  BY <2>1
<1>9. CASE ReadUart \/ Feed \/ FeedDone \/ SampleButton
  BY <1>9 DEF ReadUart, Feed, FeedDone, SampleButton, machine, supervisor
<1>10. CASE Autoexec
  BY <1>10 DEF Autoexec, ScriptLine, ScriptEnd, machine, supervisor
<1>11. CASE StartBuiltIn \/ ProbeModule \/ MapProgram
  BY <1>11 DEF StartBuiltIn, ProbeModule, MapProgram, MapModule, machine, supervisor
<1>12. CASE Release
  <2>1. phase = "release" /\ phase' \notin Executing /\ UNCHANGED <<machine, supervisor>>
    BY <1>12 DEF Release, Home
  <2> QED  BY <2>1 DEF machine, supervisor
<1>13. CASE Type \/ MoveButton \/ UNCHANGED vars
  BY <1>13 DEF Type, MoveButton, vars, machine, supervisor
<1> QED
  BY <1>3, <1>4, <1>5, <1>6, <1>7, <1>8, <1>9, <1>10, <1>11, <1>12, <1>13
     DEF Next, Task, Prompt, RunPackage

(* A program never finds what an earlier one or the shell left, and the     *)
(* shell never finds what a program left, whatever is typed and however the *)
(* program ends.                                                            *)
THEOREM SessionsAreIsolated == Spec => []SessionIsolated
<1>1. MachineInv => SessionIsolated
  BY DEF MachineInv, SessionIsolated, Executing
<1> QED  BY <1>1, MachineInitial, MachineInvStep, TypeAlways, PTL DEF Spec

LEMMA ExternalStays == UNCHANGED <<selected, packages>> => External' = External
  BY DEF External

LEMMA MappedStep == TypeInv /\ MappedInv /\ [Next]_vars => MappedInv'
<1> SUFFICES ASSUME TypeInv, MappedInv, [Next]_vars PROVE MappedInv'
  OBVIOUS
<1> DEFINE Mapped == {"run", "poll", "return", "launch", "release"}
           Holding == {irom, drom} \subseteq mapped /\ irom # drom /\ tables
<1>1. MappedInv <=> (phase \in Mapped /\ External => Holding)
  BY DEF MappedInv, Executing
<1>2. MappedInv' <=> (phase' \in Mapped /\ External' => Holding')
  BY DEF MappedInv, Executing
<1>3. CASE MapProgram
  <2>1. CASE phase' # "launch"
    <3>1. phase' \notin Mapped
      BY <1>3, <2>1 DEF MapProgram, MapModule
    <3> QED  BY <1>2, <3>1
  <2>2. CASE phase' = "launch"
    <3>1. /\ tables' = TRUE
          /\ \E h, g : h # g /\ irom' = h /\ drom' = g /\ mapped' = mapped \cup {h, g}
      BY <1>3, <2>2 DEF MapProgram, MapModule
    <3>2. Holding'
      BY <3>1
    <3> QED  BY <1>2, <3>2
  <2> QED  BY <2>1, <2>2
<1>4. CASE phase' \notin Mapped
  BY <1>2, <1>4
<1>5. CASE /\ phase \in Mapped /\ UNCHANGED <<selected, packages>>
           /\ UNCHANGED handles
  <2>1. Holding' = Holding
    BY <1>5 DEF handles
  <2> QED  BY <1>1, <1>2, <1>5, <2>1, ExternalStays
<1>6. CASE StartBuiltIn
  <2>1. ~External /\ UNCHANGED <<selected, packages>>
    BY <1>6 DEF StartBuiltIn, shell
  <2> QED  BY <1>2, <2>1, ExternalStays
<1>7. CASE Prompt \/ Autoexec
  BY <1>4, <1>7 DEF Prompt, Autoexec, ReadUart, Feed, FeedDone, HandleRequest, SampleButton,
     ScriptLine, ScriptEnd
<1>8. CASE ProbeModule \/ Refuse \/ Release
  BY <1>4, <1>8 DEF ProbeModule, MapModule, Refuse, Release, Home
<1>9. CASE Launch \/ Slice \/ Poll \/ ReturnToShell
  BY <1>5, <1>9 DEF Launch, Slice, Poll, ReturnToShell, shell
<1>10. CASE Type \/ MoveButton \/ UNCHANGED vars
  <2>1. UNCHANGED <<phase, selected, packages, handles>>
    BY <1>10 DEF Type, MoveButton, vars, shell
  <2> QED  BY <1>4, <1>5, <2>1
<1> QED
  BY <1>3, <1>6, <1>7, <1>8, <1>9, <1>10 DEF Next, Task, RunPackage

(* While the supervisor holds an installed program its two windows are      *)
(* mapped, are not one, and its tables exist, for any mapping that fails.   *)
THEOREM RunningIsMapped == Spec => []ProgramStaysMapped
<1>1. Init => MappedInv
  BY DEF Init, MappedInv, Executing
<1>2. MachineInv /\ MappedInv => ProgramStaysMapped
  BY DEF MachineInv, MappedInv, ProgramStaysMapped, Executing
<1> QED
  BY <1>1, <1>2, MappedStep, MachineInitial, MachineInvStep, TypeAlways, PTL DEF Spec

LEMMA HandlesInvStep ==
  ASSUME "drom" \notin Faults
  PROVE  TypeInv /\ HandlesInv /\ [Next]_vars => HandlesInv'
<1> SUFFICES ASSUME TypeInv, HandlesInv, [Next]_vars PROVE HandlesInv'
  OBVIOUS
<1> DEFINE Mapped == {"run", "poll", "return", "launch", "release"}
<1>1. HandlesInv <=> IF phase \in Mapped /\ External THEN mapped = {irom, drom} ELSE Released
  BY DEF HandlesInv, Executing
<1>2. HandlesInv' <=> IF phase' \in Mapped /\ External' THEN mapped' = {irom', drom'} ELSE Released'
  BY DEF HandlesInv, Executing
<1>3. CASE ProbeModule
  <2>1. Released /\ phase' \notin Mapped
    BY <1>1, <1>3 DEF ProbeModule, MapModule
  <2>2. Released'
    BY <1>3, <2>1 DEF ProbeModule, MapModule, Released
  <2> QED  BY <1>2, <2>1, <2>2
<1>4. CASE MapProgram
  <2>1. Released /\ External /\ External'
    BY <1>1, <1>4, ExternalStays DEF MapProgram, shell, TypeInv, ControlInv
  <2>2. CASE Deactivate
    <3>1. phase' \notin Mapped /\ Released'
      BY <1>4, <2>1, <2>2 DEF MapProgram, MapModule, Deactivate, Released
    <3> QED  BY <1>2, <3>1
  <2>3. CASE MapModule(mapped, tables' = TRUE /\ phase' = "launch",
                       UNCHANGED tables /\ phase' = "refused")
    <3>1. CASE phase' = "launch"
      <4>1. mapped' = {irom', drom'}
        BY <2>1, <2>3, <3>1 DEF MapModule, Released
      <4> QED  BY <1>2, <2>1, <3>1, <4>1
    <3>2. CASE phase' = "refused"
      <4>1. Released'
        BY <2>1, <2>3, <3>2 DEF MapModule, Released
      <4> QED  BY <1>2, <3>2, <4>1
    <3> QED  BY <2>3, <3>1, <3>2 DEF MapModule
  <2> QED  BY <1>4, <2>2, <2>3 DEF MapProgram
<1>5. CASE Release
  <2>1. phase' \notin Mapped /\ phase \in Mapped
    BY <1>5 DEF Release, Home
  <2>2. Released'
    BY <1>1, <1>5, <2>1 DEF Release, Deactivate, Released, handles
  <2> QED  BY <1>2, <2>1, <2>2
<1>6. CASE UNCHANGED handles /\ phase \notin Mapped /\ phase' \notin Mapped
  <2>1. Released'
    BY <1>1, <1>6 DEF Released, handles
  <2> QED  BY <1>2, <1>6, <2>1
<1>7. CASE UNCHANGED handles /\ UNCHANGED <<selected, packages>> /\ (phase \in Mapped <=> phase' \in Mapped)
  BY <1>1, <1>2, <1>7, ExternalStays DEF Released, handles
<1>8. CASE StartBuiltIn
  <2>1. ~External' /\ Released /\ UNCHANGED handles
    BY <1>1, <1>8, ExternalStays DEF StartBuiltIn, shell
  <2>2. Released'
    BY <2>1 DEF Released, handles
  <2> QED  BY <1>2, <2>1, <2>2
<1>9. CASE Prompt
  BY <1>6, <1>9 DEF Prompt, ReadUart, Feed, FeedDone, HandleRequest, SampleButton
<1>10. CASE Autoexec
  BY <1>6, <1>10 DEF Autoexec, ScriptLine, ScriptEnd
<1>11. CASE Refuse
  BY <1>6, <1>11 DEF Refuse, Home
<1>12. CASE Launch \/ Slice \/ Poll \/ ReturnToShell
  BY <1>7, <1>12 DEF Launch, Slice, Poll, ReturnToShell, shell
<1>13. CASE Type \/ MoveButton \/ UNCHANGED vars
  BY <1>7, <1>13 DEF Type, MoveButton, vars, shell
<1> QED
  BY <1>3, <1>4, <1>5, <1>8, <1>9, <1>10, <1>11, <1>12, <1>13 DEF Next, Task, RunPackage

(* The prompt holds no mapping and no tables, however a program ended and   *)
(* whatever kept it from starting, but for a DROM window that cannot be     *)
(* mapped (of which SessionHandles shows that it leaves a handle).          *)
THEOREM PromptHoldsNothing ==
  ASSUME "drom" \notin Faults
  PROVE  Spec => []HandlesReleased
<1>1. Init => HandlesInv
  BY DEF Init, HandlesInv, Released, Executing
<1>2. HandlesInv => HandlesReleased
  BY DEF HandlesInv, HandlesReleased, Released, Executing
<1>3. TypeInv /\ HandlesInv /\ [Next]_vars => HandlesInv'
  BY HandlesInvStep
<1> QED
  BY <1>1, <1>2, <1>3, TypeAlways, PTL DEF Spec

LEMMA WindowsStep == TypeInv /\ WindowsInv /\ [Next]_vars => WindowsInv'
<1> SUFFICES ASSUME TypeInv, WindowsInv, [Next]_vars PROVE WindowsInv'
  OBVIOUS
<1> DEFINE Mapped == {"run", "poll", "return", "launch", "release"}
           Nothing == mapped = {} /\ ~tables
<1>1. WindowsInv <=> IF phase \in Mapped /\ External THEN mapped = {irom, drom} ELSE Nothing
  BY DEF WindowsInv, Executing
<1>2. WindowsInv' <=> IF phase' \in Mapped /\ External' THEN mapped' = {irom', drom'} ELSE Nothing'
  BY DEF WindowsInv, Executing
<1>3. CASE ProbeModule
  <2>1. mapped = {} /\ phase' \notin Mapped
    BY <1>1, <1>3 DEF ProbeModule, MapModule
  <2>2. Nothing'
    BY <1>3, <2>1 DEF ProbeModule, MapModule
  <2> QED  BY <1>2, <2>1, <2>2
<1>4. CASE MapProgram
  <2>1. Nothing /\ External /\ External'
    BY <1>1, <1>4, ExternalStays DEF MapProgram, shell, TypeInv, ControlInv
  <2>2. CASE Deactivate
    <3>1. phase' \notin Mapped /\ Nothing'
      BY <1>4, <2>1, <2>2 DEF MapProgram, MapModule, Deactivate
    <3> QED  BY <1>2, <3>1
  <2>3. CASE MapModule(mapped, tables' = TRUE /\ phase' = "launch",
                       UNCHANGED tables /\ phase' = "refused")
    <3>1. CASE phase' = "launch"
      <4>1. mapped' = {irom', drom'}
        BY <2>1, <2>3, <3>1 DEF MapModule
      <4> QED  BY <1>2, <2>1, <3>1, <4>1
    <3>2. CASE phase' = "refused"
      <4>1. Nothing'
        BY <2>1, <2>3, <3>2 DEF MapModule
      <4> QED  BY <1>2, <3>2, <4>1
    <3> QED  BY <2>3, <3>1, <3>2 DEF MapModule
  <2> QED  BY <1>4, <2>2, <2>3 DEF MapProgram
<1>5. CASE Release
  <2>1. phase' \notin Mapped /\ phase \in Mapped
    BY <1>5 DEF Release, Home
  <2>2. Nothing'
    BY <1>1, <1>5, <2>1 DEF Release, Deactivate, handles
  <2> QED  BY <1>2, <2>1, <2>2
<1>6. CASE UNCHANGED handles /\ phase \notin Mapped /\ phase' \notin Mapped
  <2>1. Nothing'
    BY <1>1, <1>6 DEF handles
  <2> QED  BY <1>2, <1>6, <2>1
<1>7. CASE UNCHANGED handles /\ UNCHANGED <<selected, packages>> /\ (phase \in Mapped <=> phase' \in Mapped)
  BY <1>1, <1>2, <1>7, ExternalStays DEF handles
<1>8. CASE StartBuiltIn
  <2>1. ~External' /\ Nothing /\ UNCHANGED handles
    BY <1>1, <1>8, ExternalStays DEF StartBuiltIn, shell
  <2>2. Nothing'
    BY <2>1 DEF handles
  <2> QED  BY <1>2, <2>1, <2>2
<1>9. CASE Prompt
  BY <1>6, <1>9 DEF Prompt, ReadUart, Feed, FeedDone, HandleRequest, SampleButton
<1>10. CASE Autoexec
  BY <1>6, <1>10 DEF Autoexec, ScriptLine, ScriptEnd
<1>11. CASE Refuse
  BY <1>6, <1>11 DEF Refuse, Home
<1>12. CASE Launch \/ Slice \/ Poll \/ ReturnToShell
  BY <1>7, <1>12 DEF Launch, Slice, Poll, ReturnToShell, shell
<1>13. CASE Type \/ MoveButton \/ UNCHANGED vars
  BY <1>7, <1>13 DEF Type, MoveButton, vars, shell
<1> QED
  BY <1>3, <1>4, <1>5, <1>8, <1>9, <1>10, <1>11, <1>12, <1>13 DEF Next, Task, RunPackage

(* The module table changes only while the supervisor holds no program and  *)
(* no window is mapped, whatever fails: a request that came in one batch    *)
(* with the start of a program is served when the program is gone.          *)
THEOREM InstallationsRunAlone == Spec => InstallsAlone
<1>1. TypeInv /\ MachineInv /\ WindowsInv /\ [Next]_vars =>
        [modules' # modules => sup = "IDLE" /\ program = None /\ mapped = {} /\ ~tables]_vars
  <2> SUFFICES ASSUME TypeInv, MachineInv, WindowsInv, [Next]_vars, modules' # modules
               PROVE  sup = "IDLE" /\ program = None /\ mapped = {} /\ ~tables
    OBVIOUS
  <2>1. phase = "request"
    BY ShellMoves DEF Feed, HandleRequest, SampleButton, ScriptLine
  <2>2. sup = "IDLE" /\ program = None
    BY <2>1 DEF MachineInv, Executing
  <2>3. mapped = {} /\ ~tables
    BY <2>1 DEF WindowsInv, Executing
  <2> QED
    BY <2>2, <2>3
<1>2. Init => WindowsInv
  BY DEF Init, WindowsInv, Executing
<1> QED
  BY <1>1, <1>2, WindowsStep, MachineInitial, MachineInvStep, TypeAlways, PTL
     DEF Spec, InstallsAlone

LEMMA PressStep == TypeInv /\ PressInv /\ [Next]_vars => PressInv'
<1> SUFFICES ASSUME TypeInv, PressInv, [Next]_vars PROVE PressInv'
  OBVIOUS
<1>1. button \in BOOLEAN /\ buttonSeen \in BOOLEAN
  BY DEF TypeInv, TypeOK
<1>2. CASE UNCHANGED <<button, buttonSeen, uses>>
  BY <1>2 DEF PressInv
<1>3. CASE SampleButton \/ Poll
  <2>1. CASE button /\ ~buttonSeen
    <3>1. uses = 0
      BY <2>1 DEF PressInv
    <3>2. uses' \in {0, 1} /\ buttonSeen' = button /\ button' = button
      BY <1>3, <3>1 DEF SampleButton, Poll
    <3> QED  BY <3>2 DEF PressInv
  <2>2. CASE ~(button /\ ~buttonSeen)
    <3>1. uses' = uses /\ buttonSeen' = button /\ button' = button
      BY <1>3, <2>2 DEF SampleButton, Poll
    <3> QED  BY <3>1 DEF PressInv
  <2> QED  BY <2>1, <2>2
<1>4. CASE MoveButton
  BY <1>4 DEF MoveButton, PressInv
<1>5. CASE ReadUart \/ Feed \/ Type \/ UNCHANGED line_vars
  BY <1>2, <1>5 DEF ReadUart, Feed, Type, line_vars
<1> QED  BY LineMoves, <1>3, <1>4, <1>5

(* No press of the BOOT button is acted upon twice, also when it is held    *)
(* while a program starts or ends.                                          *)
THEOREM OnePressOneUse == Spec => []PressUsedOnce
<1>1. Init => PressInv
  BY DEF Init, PressInv
<1>2. PressInv => PressUsedOnce
  BY DEF PressInv, PressUsedOnce
<1> QED  BY <1>1, <1>2, PressStep, TypeAlways, PTL DEF Spec
=============================================================================
