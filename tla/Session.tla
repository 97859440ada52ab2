------------------------------ MODULE Session ------------------------------
(***************************************************************************)
(* The resident firmware of d2e_shell_main.c: AUTOEXEC, the prompt, and the *)
(* life of a program from the command that names it to the return, through *)
(* the shell (src/shell/shell.c), the module mapping (cyd_flash.c), the    *)
(* supervisor (src/core/supervisor.c) and the machine's resets.            *)
(*                                                                         *)
(* One task runs all of it; phase says where it is.  The UART and the BOOT *)
(* button go on beside it.  What is typed is a sequence of words and keys: *)
(* a word is the text of a command, whichever way it was edited.           *)
(***************************************************************************)
EXTENDS Integers, Sequences, FiniteSets

CONSTANTS
  Cmd,             \* the commands of packages
  None,            \* no command
  BuiltIn,         \* packages linked into the firmware, in order
  Scripts,         \* what AUTOEXEC.BAT may hold: sequences of words
  Installed,       \* the module tables that a mount may find
  ModuleCapacity,  \* CYD_FLASH_MODULE_CAPACITY
  Batch,           \* bytes one poll takes from the UART
  UartCapacity,    \* bytes the UART driver keeps
  Typable,         \* the words and keys that the user types
  MaxTyped,        \* bound on what is typed
  MaxHandle,       \* bound on the numbers of memory-map handles
  Faults           \* what may fail

FaultKinds == {"irom", "drom",   \* a memory mapping
               "relocate",       \* the relocation of a module
               "build",          \* the tables of a program, or a moved mapping
               "load",           \* d2e_native_load
               "install"}        \* cyd_flash_install_file

Run(c) == <<"run", c>>
Install(c) == <<"install", c>>
Noise == <<"noise">>
Return == <<"cr">>
LineFeed == <<"lf">>
End == <<"end">>                 \* Ctrl+]
Word == {Run(c) : c \in Cmd} \cup {Install(c) : c \in Cmd} \cup {Noise}
Token == (Word \ {Noise}) \cup {Return, LineFeed, End}
Empty == << >>

ASSUME SessionAssumption ==
  /\ None \notin Cmd
  /\ BuiltIn \in Seq(Cmd)
  /\ \A s \in Scripts : s \in Seq(Word)
  /\ \A mods \in Installed : mods \in Seq(Cmd) /\ Len(mods) <= ModuleCapacity
  /\ Typable \subseteq Token
  /\ ModuleCapacity \in Nat \ {0}
  /\ Batch \in Nat \ {0} /\ UartCapacity \in Nat /\ MaxTyped \in Nat
  /\ MaxHandle \in Nat
  /\ Faults \subseteq FaultKinds

VARIABLES
  uart, batch,               \* bytes in the driver, bytes of this poll
  button, buttonSeen,        \* the BOOT button, boot_button_down
  input, ignoreLF, request,  \* of the shell
  packages,                  \* packages, package_module_indices
  modules,                   \* the module table of the flash store
  script, line, booting,     \* of run_autoexec
  phase,                     \* where the task is
  selected,                  \* index in packages of the package being run
  irom, drom,                \* active_irom_handle, active_drom_handle
  tables,                    \* active_fragments and active_mz_relocations
  mapped,                    \* the handles that are mapped
  sup, program,              \* supervisor state and package
  left,                      \* whose traces the parts of the machine hold
  videoMode, bda,            \* the video mode and its BIOS data area
  fresh,                     \* the program has not executed anything
  typed, uses                \* bytes typed; times this press was acted upon

line_vars == <<uart, batch, button, buttonSeen, typed, uses>>
shell == <<input, ignoreLF, request, packages>>
auto == <<script, line, booting>>
handles == <<irom, drom, tables, mapped>>
machine == <<left, videoMode, bda>>
supervisor == <<sup, program, fresh>>
vars == <<line_vars, shell, auto, handles, machine, supervisor, modules, phase, selected>>

Part == {"memory", "cpu", "keys", "files", "devices", "video", "dos", "escape"}
Owner == {"clean", "shell", "program"}
Mode == {"text80", "text40", "other"}
NoMode == "zero"
NoHandle == 0

Home == IF booting THEN "autoexec" ELSE "prompt"
External == selected # 0 /\ packages[selected].index # 0

-----------------------------------------------------------------------------
(* The catalog and the shell's command line.                               *)

\* refresh_package_catalog: the built-in packages, then the module table.
Listing(mods) ==
  [i \in 1..(Len(BuiltIn) + Len(mods)) |->
     IF i <= Len(BuiltIn) THEN [command |-> BuiltIn[i], index |-> 0]
     ELSE [command |-> mods[i - Len(BuiltIn)], index |-> i - Len(BuiltIn)]]

\* d2e_package_find: the first package of that command, or 0.
Find(c) ==
  LET named == {i \in DOMAIN packages : packages[i].command = c}
  IN  IF named = {} THEN 0 ELSE CHOOSE i \in named : \A j \in named : i <= j

\* d2e_shell_execute_line: selects a package, leaves a request, or neither.
ExecuteLine(w) ==
  /\ selected' = IF w # Empty /\ w[1] = "run" THEN Find(w[2]) ELSE 0
  /\ request' = IF w # Empty /\ w[1] = "install" THEN w[2] ELSE request

-----------------------------------------------------------------------------
(* The machine between programs.                                           *)

\* d2e_supervisor_return_to_shell, d2e_pc_at_reset, INT 10h to mode 1 and the
\* shell's screen.  The state of pc_input stays.
EnterShellKeepingMemory ==                                \* mutant of EnterShell
  /\ sup' = "IDLE" /\ program' = None /\ fresh' = FALSE
  /\ videoMode' = "text40" /\ bda' = "text40"
  /\ left' = [p \in Part |-> CASE p \in {"escape", "memory"} -> left[p]
                               [] p \in {"cpu", "video"} -> "shell"
                               [] OTHER -> "clean"]
EnterShell ==
  /\ sup' = "IDLE" /\ program' = None /\ fresh' = FALSE
  /\ videoMode' = "text40" /\ bda' = "text40"
  /\ left' = [p \in Part |-> CASE p = "escape" -> left[p]
                               [] p \in {"memory", "cpu", "video"} -> "shell"
                               [] OTHER -> "clean"]

\* cyd_flash_deactivate_module.
DeactivateKeepingData ==                                  \* mutant of Deactivate
  /\ irom' = NoHandle /\ drom' = NoHandle /\ tables' = FALSE
  /\ mapped' = mapped \ {irom}
Deactivate ==
  /\ irom' = NoHandle /\ drom' = NoHandle /\ tables' = FALSE
  /\ mapped' = mapped \ {irom, drom}

-----------------------------------------------------------------------------
(* The prompt: wait_for_shell_command.                                     *)

\* read_uart: what has arrived, and no more than fits the caller's buffer.
Available == IF Len(uart) < Batch THEN Len(uart) ELSE Batch

ReadUart ==
  /\ phase = "prompt"
  /\ batch' = SubSeq(uart, 1, Available)
  /\ uart' = SubSeq(uart, Available + 1, Len(uart))
  /\ phase' = "feed"
  /\ UNCHANGED <<button, buttonSeen, typed, uses, shell, auto, handles, machine, supervisor,
                 modules, selected>>

\* d2e_shell_feed of the next byte.  A package that is selected takes the task
\* away at once, and with it the rest of the batch.
Feed ==
  /\ phase = "feed" /\ batch # << >>
  /\ LET t == Head(batch)
         skip == t = LineFeed /\ ignoreLF
         run == t \in {Return, LineFeed} /\ ~skip IN
       /\ ignoreLF' = (run /\ t = Return)
       /\ IF run THEN ExecuteLine(input) ELSE UNCHANGED <<selected, request>>
       /\ input' = CASE run -> Empty
                     [] t \in Word -> IF input = Empty THEN t ELSE Noise
                     [] OTHER -> input
       /\ IF run /\ selected' # 0
            THEN phase' = "start" /\ batch' = << >>
            ELSE phase' = "feed" /\ batch' = Tail(batch)
  /\ UNCHANGED <<uart, button, buttonSeen, typed, uses, packages, auto, handles, machine,
                 supervisor, modules>>

FeedDone ==
  /\ phase = "feed" /\ batch = << >>
  /\ phase' = IF request # None THEN "request" ELSE "button"
  /\ UNCHANGED <<line_vars, shell, auto, handles, machine, supervisor, modules, selected>>

\* reset_shell_catalog: the shell starts over with the packages there are now.
ResetCatalog ==
  /\ packages' = Listing(modules')
  /\ request' = None /\ input' = Empty /\ ignoreLF' = FALSE

\* handle_shell_request: a module of a command that is installed replaces it.
HandleRequest ==
  /\ phase = "request"
  /\ \/ "install" \in Faults /\ UNCHANGED modules
     \/ modules' = IF request \in {modules[i] : i \in DOMAIN modules} \/ Len(modules) = ModuleCapacity
                     THEN modules ELSE Append(modules, request)
  /\ ResetCatalog
  /\ EnterShell
  /\ phase' = IF booting THEN "autoexec" ELSE "button"
  /\ UNCHANGED <<line_vars, auto, handles, selected>>

\* The button, at the end of an iteration: a new press starts the first package.
PressForgotten ==                                     \* mutant of SampleButton
  /\ phase = "button"
  /\ LET edge == button /\ ~buttonSeen /\ packages # << >> IN
       /\ buttonSeen' = IF edge THEN buttonSeen ELSE button
       /\ selected' = IF edge THEN 1 ELSE 0
       /\ phase' = IF edge THEN "start" ELSE "prompt"
       /\ uses' = IF edge THEN uses + 1 ELSE uses
  /\ UNCHANGED <<uart, batch, button, typed, shell, auto, handles, machine, supervisor, modules>>
SampleButton ==
  /\ phase = "button"
  /\ LET edge == button /\ ~buttonSeen /\ packages # << >> IN
       /\ buttonSeen' = button
       /\ selected' = IF edge THEN 1 ELSE 0
       /\ phase' = IF edge THEN "start" ELSE "prompt"
       /\ uses' = IF edge THEN uses + 1 ELSE uses
  /\ UNCHANGED <<uart, batch, button, typed, shell, auto, handles, machine, supervisor, modules>>

-----------------------------------------------------------------------------
(* run_autoexec: one line after the other, each to its end.                *)

ScriptLine ==
  /\ phase = "autoexec" /\ line <= Len(script)
  /\ ExecuteLine(script[line])
  /\ line' = line + 1
  /\ phase' = IF request' # None THEN "request"
              ELSE IF selected' # 0 THEN "start" ELSE "autoexec"
  /\ UNCHANGED <<line_vars, input, ignoreLF, packages, script, booting, handles, machine,
                 supervisor, modules>>

\* The text of the script is on run_autoexec's stack.
ScriptEnd ==
  /\ phase = "autoexec" /\ line > Len(script)
  /\ booting' = FALSE /\ script' = << >> /\ line' = 1
  /\ phase' = "prompt"
  /\ UNCHANGED <<line_vars, shell, handles, machine, supervisor, modules, selected>>

-----------------------------------------------------------------------------
(* run_package.                                                            *)

StartBuiltIn ==
  /\ phase = "start" /\ ~External
  /\ phase' = "launch"
  /\ UNCHANGED <<line_vars, shell, auto, handles, machine, supervisor, modules, selected>>

\* map_module, with live the handles mapped before it: both windows, or neither.
\* When the second fails the first is unmapped but its handle stays written.
MapModule(live, ok, refused) ==
  \/ /\ \E h, g \in (1..MaxHandle) \ live :
          /\ h # g
          /\ irom' = h /\ drom' = g /\ mapped' = live \cup {h, g}
     /\ ok
  \/ /\ "irom" \in Faults
     /\ irom' = NoHandle /\ drom' = NoHandle /\ mapped' = live
     /\ refused
  \/ /\ "drom" \in Faults
     /\ \E h \in (1..MaxHandle) \ live : irom' = h
     /\ drom' = NoHandle /\ mapped' = live
     /\ refused

\* cyd_flash_activate_module up to the relocation: the windows are mapped to learn
\* their addresses and released again.
ProbeModule ==
  /\ phase = "start" /\ External
  /\ tables' = FALSE
  /\ LET live == mapped \ {irom, drom} IN
       \/ /\ irom' = NoHandle /\ drom' = NoHandle /\ mapped' = live
          /\ \/ phase' = "map"
             \/ "relocate" \in Faults /\ phase' = "refused"
       \/ MapModule(live, FALSE, phase' = "refused")
  /\ UNCHANGED <<line_vars, shell, auto, machine, supervisor, modules, selected>>

\* The second mapping and build_active_program.
MapProgram ==
  /\ phase = "map"
  /\ \/ MapModule(mapped, tables' = TRUE /\ phase' = "launch",
                          UNCHANGED tables /\ phase' = "refused")
     \/ /\ "build" \in Faults
        /\ Deactivate
        /\ phase' = "refused"
  /\ UNCHANGED <<line_vars, shell, auto, machine, supervisor, modules, selected>>

\* The package cannot be activated: back to the shell, nothing to deactivate.
Refuse ==
  /\ phase = "refused"
  /\ EnterShell
  /\ selected' = 0
  /\ phase' = Home
  /\ UNCHANGED <<line_vars, shell, auto, handles, modules>>

\* d2e_pc_at_reset, d2e_pc_input_init and the first half of d2e_supervisor_launch:
\* the reset writes the BIOS data area before the launch clears memory.
ResetMachineKeepingInput ==                              \* mutant of ResetMachine
  /\ videoMode' = "text80" /\ bda' = NoMode
  /\ left' = [p \in Part |-> IF p = "escape" THEN left[p] ELSE "clean"]
ResetMachine ==
  /\ videoMode' = "text80" /\ bda' = NoMode
  /\ left' = [p \in Part |-> "clean"]

\* The supervisor accepts a launch only when it is idle.
Launch ==
  /\ phase = "launch"
  /\ ResetMachine
  /\ sup' \in IF sup # "IDLE" THEN {sup}
             ELSE {"ACTIVE"} \cup (IF "load" \in Faults THEN {"FAULTED"} ELSE {})
  /\ program' = IF sup = "IDLE" THEN packages[selected].command ELSE program
  /\ fresh' = (sup = "IDLE" /\ sup' = "ACTIVE")
  /\ phase' = IF fresh' THEN "run" ELSE "return"
  /\ UNCHANGED <<line_vars, shell, auto, handles, modules, selected>>

\* d2e_supervisor_step.  A slice leaves traces in every part of the machine: no
\* guard depends on them, so a program that leaves fewer shows less.
Slice ==
  /\ phase = "run"
  /\ sup' \in {"ACTIVE", "EXITED", "FAULTED"}
  /\ fresh' = FALSE
  /\ left' = [p \in Part |-> IF p = "escape" THEN left[p] ELSE "program"]
  /\ \/ UNCHANGED <<videoMode, bda>>
     \/ videoMode' \in Mode /\ bda' = videoMode'
  /\ phase' = "poll"
  /\ UNCHANGED <<line_vars, shell, auto, handles, modules, selected, program>>

\* poll_program_input.  Every byte but Ctrl+] goes to the keyboard, also behind it.
EndIsLast(taken) == taken # << >> /\ taken[Len(taken)] = End      \* mutant of EndIn
EndIn(taken) == \E i \in DOMAIN taken : taken[i] = End

Poll ==
  /\ phase = "poll"
  /\ LET n == Available
         edge == button /\ ~buttonSeen IN
       /\ uart' = SubSeq(uart, n + 1, Len(uart))
       /\ uses' = IF edge THEN uses + 1 ELSE uses
       /\ left' = IF n = 0 THEN left ELSE [left EXCEPT !["keys"] = "program", !["escape"] = "program"]
       /\ phase' = IF EndIn(SubSeq(uart, 1, n)) \/ sup # "ACTIVE" THEN "return" ELSE "run"
  /\ buttonSeen' = button
  /\ UNCHANGED <<batch, button, typed, shell, auto, handles, videoMode, bda, supervisor, modules,
                 selected>>

\* The end of run_package: enter_shell, then cyd_flash_deactivate_module.
ReturnReleasing ==                                     \* mutant of ReturnToShell
  /\ phase = "return"
  /\ Deactivate
  /\ phase' = "release"
  /\ UNCHANGED <<line_vars, shell, auto, machine, supervisor, modules, selected>>
ReturnServing ==                                       \* mutant of ReturnToShell
  /\ phase = "return"
  /\ IF request # None THEN phase' = "request" /\ UNCHANGED <<machine, supervisor>>
     ELSE phase' = "release" /\ EnterShell
  /\ UNCHANGED <<line_vars, shell, auto, handles, modules, selected>>
ReturnToShell ==
  /\ phase = "return"
  /\ EnterShell
  /\ phase' = "release"
  /\ UNCHANGED <<line_vars, shell, auto, handles, modules, selected>>

Release ==
  /\ phase = "release"
  /\ IF External THEN Deactivate ELSE UNCHANGED handles
  /\ selected' = 0
  /\ phase' = Home
  /\ UNCHANGED <<line_vars, shell, auto, machine, supervisor, modules>>

-----------------------------------------------------------------------------
(* The user.                                                               *)

Type ==
  /\ typed < MaxTyped /\ Len(uart) < UartCapacity
  /\ \E t \in Typable : uart' = Append(uart, t)
  /\ typed' = typed + 1
  /\ UNCHANGED <<batch, button, buttonSeen, uses, shell, auto, handles, machine, supervisor,
                 modules, phase, selected>>

\* Each press is a new one.
MoveButton ==
  /\ button' = ~button
  /\ uses' = 0
  /\ UNCHANGED <<uart, batch, buttonSeen, typed, shell, auto, handles, machine, supervisor,
                 modules, phase, selected>>

-----------------------------------------------------------------------------
\* app_main has mounted the volumes and entered the shell.
Init ==
  /\ uart = << >> /\ batch = << >> /\ typed = 0
  /\ button = FALSE /\ buttonSeen = FALSE /\ uses = 0
  /\ modules \in Installed
  /\ packages = Listing(modules)
  /\ input = Empty /\ ignoreLF = FALSE /\ request = None
  /\ script \in Scripts /\ line = 1 /\ booting = TRUE
  /\ phase = "autoexec" /\ selected = 0
  /\ irom = NoHandle /\ drom = NoHandle /\ tables = FALSE /\ mapped = {}
  /\ sup = "IDLE" /\ program = None /\ fresh = FALSE
  /\ left = [p \in Part |-> IF p \in {"memory", "cpu", "video"} THEN "shell" ELSE "clean"]
  /\ videoMode = "text40" /\ bda = "text40"

Prompt == ReadUart \/ Feed \/ FeedDone \/ HandleRequest \/ SampleButton
Autoexec == ScriptLine \/ ScriptEnd
RunPackage ==
  \/ StartBuiltIn \/ ProbeModule \/ MapProgram \/ Refuse
  \/ Launch \/ Slice \/ Poll \/ ReturnToShell \/ Release
Task == Prompt \/ Autoexec \/ RunPackage

Next == Task \/ Type \/ MoveButton

Spec == Init /\ [][Next]_vars

\* The task runs for ever: a slice ends with its budget, nothing waits.
FairSpec == Spec /\ WF_vars(Task)

-----------------------------------------------------------------------------
(* Properties.                                                             *)

Phases == {"autoexec", "prompt", "feed", "request", "button", "start", "map", "refused",
           "launch", "run", "poll", "return", "release"}
TypeOK ==
  /\ uart \in Seq(Token) /\ Len(uart) <= UartCapacity
  /\ batch \in Seq(Token) /\ Len(batch) <= Batch
  /\ button \in BOOLEAN /\ buttonSeen \in BOOLEAN
  /\ input \in Word \cup {Empty} /\ ignoreLF \in BOOLEAN /\ request \in Cmd \cup {None}
  /\ modules \in Seq(Cmd) /\ Len(modules) <= ModuleCapacity
  /\ packages \in Seq([command : Cmd, index : 0..Len(modules)])
  /\ script \in Scripts \cup {<< >>} /\ line \in 1..(Len(script) + 1) /\ booting \in BOOLEAN
  /\ phase \in Phases
  /\ selected \in 0..Len(packages)
  /\ irom \in 0..MaxHandle /\ drom \in 0..MaxHandle
  /\ tables \in BOOLEAN /\ mapped \subseteq 1..MaxHandle
  /\ sup \in {"IDLE", "ACTIVE", "EXITED", "FAULTED"}
  /\ program \in Cmd \cup {None} /\ fresh \in BOOLEAN
  /\ left \in [Part -> Owner]
  /\ videoMode \in Mode /\ bda \in Mode \cup {NoMode}
  /\ typed \in 0..MaxTyped /\ uses \in Nat

(* A program starts on a machine that holds no trace of an earlier program  *)
(* nor of the shell, however the earlier one ended and whatever was typed;  *)
(* and at the prompt nothing of the last program is left in memory, in the  *)
(* CPU or in the devices (docs/D2E_SHELL.md:31-32).                         *)
SessionIsolated ==
  /\ fresh => \A p \in Part : left[p] = "clean"
  /\ phase \in {"prompt", "autoexec"} => \A p \in Part \ {"escape"} : left[p] # "program"

(* As long as the supervisor holds an installed program, and a slice may    *)
(* execute it, its code, its data and its tables are there.                 *)
ProgramStaysMapped ==
  program # None /\ External => {irom, drom} \subseteq mapped /\ irom # drom /\ tables

(* The prompt holds no mapping and no tables (docs/D2E_SHELL.md:70-72), after *)
(* a normal end, a fault, a failed activation or a failed load.             *)
HandlesReleased ==
  phase \in {"prompt", "autoexec"} =>
    irom = NoHandle /\ drom = NoHandle /\ mapped = {} /\ ~tables

(* The flash is written only while no program is held and nothing of it is  *)
(* mapped, also when INSTALL and the name of a package came in one batch:   *)
(* the program goes first and the request waits until it is gone.           *)
InstallsAlone ==
  [][modules' # modules => sup = "IDLE" /\ program = None /\ mapped = {} /\ ~tables]_vars

(* One press of BOOT starts a program or types a space into it, never both. *)
PressUsedOnce == uses <= 1

(* A program finds the video mode it runs in in the BIOS data area          *)
(* (docs/BIOS_VIDEO_PLAN.md:38).                                            *)
ProgramFindsVideoMode == sup = "ACTIVE" => bda = videoMode

(* Ctrl+] brings the shell back, whatever the program does and whatever is  *)
(* typed before and behind it.                                              *)
EndReturns ==
  (sup = "ACTIVE" /\ \E i \in DOMAIN uart : uart[i] = End) ~> sup = "IDLE"
=============================================================================
