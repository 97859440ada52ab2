# Verification of DosToEsp in TLA+

DosToEsp translates DOS programs ahead of time into native Xtensa modules and
runs them on an ESP32 board (the "CYD") under a resident shell, on a small
PC/AT machine written in C. This directory holds TLA+ models of the parts of
that program whose correctness depends on order, failure or state carried
across calls, TLC configurations that check them on small instances, and
TLAPS proofs of the properties that matter most.

Paths are relative to the repository. `PROJECT.json` maps every definition
to the lines it stands for.

## 1. Inventory of the system

| Component | Source | State it keeps | Operations | What is hard | What makes it correct |
|---|---|---|---|---|---|
| XIP flash store, volume `A:` | `firmware/esp32_cyd/main/cyd_flash.c` | superblock, append-only catalog, module extents in flash; module table and two cursors in RAM; mapped module | mount, format, scan, install, create AUTOEXEC, relocate, activate, deactivate | power failure between any two flash operations, driver errors, full catalog or table | the catalog only grows, a record means a complete module, what is listed is what a reboot lists, a module runs with its own code and patches |
| XIP module parser | `src/core/xip_module.c`, `xip_imports.c` | none | open, validate, resolve imports | arithmetic on offsets of untrusted size | every accepted range lies in the module and fragments do not overlap |
| Supervisor and packages | `src/core/supervisor.c`, `package.c` | IDLE / ACTIVE / EXITED / FAULTED, CPU, memory | init, launch, step, return to shell | order of calls from the shell | a program starts from clean state and ends in one of two results |
| Native runtime | `src/core/native_runtime.c` | program, control target | load COM/MZ, find block, run, interrupt, control transfer | control leaves translated code by interrupts and block misses | execution resumes at the right block |
| CPU, memory, ALU | `src/core/x86_cpu.c`, `x86_memory.c`, `x86_control.c`, `x86_alu.c`, `native_patterns.c`, `native_helpers.c` | registers, lazy flags, conventional memory | arithmetic, flags, string operations, stack and far transfers | carries, wrap-around of segments and of 16-bit offsets | results and flags as the 8086 defines them |
| PC/AT machine | `src/machine/pc_at.c`, `pc_input.c` | key queue, scan queue, keyboard interrupt, PIT, speaker gate, video, BIOS data area, DOS memory blocks and files | INT 10h-33h handlers, port I/O, key events | keys, interrupts and a waiting program interleave | no key is lost, doubled or reordered |
| Speaker | `src/devices/pc_speaker.c`, `firmware/.../pc_speaker_audio.c` | ring of stamped events; the task's render time, fetched event and control; the synthesizer | stamp and queue, wait, fetch, apply, render, write | two tasks on two cores, a wait in whole ticks, a full ring | each sample sounds as the ports stood at its time |
| Shell and main loop | `src/shell/shell.c`, `firmware/.../d2e_shell_main.c` | line buffer, pending request, catalog copy, clock | feed, request, run, autoexec, install | a pending request while a program runs, batches of input | each command runs once, handles are released |
| Display and SD | `firmware/.../cyd_display.c`, `cyd_sd.c`, `src/devices/cga.c`, `text_video.c` | two DMA buffers, transfers in flight | present, wait | a buffer reused while it is sent | no buffer is written while in flight |
| Host tools | `tools/d2e_*.py` | translation state | analyse, translate, pack, trace | flag liveness, block discovery | the packed module is what the parser accepts |

The parts meet in the main loop (`d2e_shell_main.c`): it mounts `A:`, copies
the list of modules into the shell's package catalog, runs AUTOEXEC.BAT, then
alternates between the shell and a running program; a package run activates a
module of the store, resets the machine, launches the supervisor and steps it
while keys, the clock, video and audio are served, then tears all of it down.

## 2. Plan

Done, in this order:

1. `XipStore`, `XipCatalog`, `XipStoreProofs`: the flash store.
2. `CircularQueue`, `KeyStream`, `Keyboard` and their proofs: the key queue, the
   scan queue and the keyboard interrupt, with the supervisor's slices and the
   program that reads, waits and handles interrupts.
3. `Session`: AUTOEXEC, the prompt, requests and the BOOT button, and a package
   run from activation to return, with the machine's resets.
4. `Speaker`, `SpeakerProofs`: the events between the machine and the audio task.
5. The services of the machine and what else keeps a state of its own, a module
   each: `Display`, `DosMemory`, `DosFiles`, `Clock`, `Pit`, `Video`, `AnsiInput`,
   `Memory` (with the abstract specification `Ram`) and the translator's
   `FlagLiveness`. `DeviceProofs` (display, video, blocks, files, clock and
   timer), `ProgramProofs` (memory, flags and calls) and the end of `KeyboardProofs`
   (serial input) prove what they promise.
6. The pure components: `Alu`, `ModuleFormat`, `Loader`, `BlockTable`, `Control`,
   `StringOps`, `Synthesizer`, `VideoScreen`, `Pixels`, `Wildcard` and `DosPath`,
   each with a definition of what it should compute, compared in `Algorithms`.
7. `Machine`: the modules of 5 and 6, and `Keyboard`, in one run.
8. `SessionProofs`; the refinement of `XipCatalog` and what a reboot lists and a
   mapped module holds; `MemoryIsRam`, `FlagsAreFresh`, the panel and the screen.
9. The pure algorithms that the provers reach, on the lemmas of `Induction`:
   opening a module, sums, products, quotients, decimals, calls and returns, the
   block search and scrolling. `MachineProofs`: what holds of a unit holds in `Machine`.

Next, in this order:

10. Block discovery in `d2e_analyze.py`, against an interpreter of the same small
   programs, like `FlagLiveness`.
11. The text rows and attributes of `text_video.c`, and the editing of the
    command line in `shell.c`.

Each distinct question gets one run. The parts gathered in `Machine` share no
state but the machine's reset, so their product would only multiply states
that say nothing about each other: a behaviour of `Machine` is one of one part,
with the others at rest, and one run asks each of them its question.

## 3. The modules

### XipStore: volume `A:`

`XipStore` models `cyd_flash.c` one flash operation per step. In flash there
are `super` (the superblock is valid), `slots` (the catalog's records) and
`data` (the module extents); in RAM, `mods`, `nextMod`, `nextRec` and
`autoexec` are the fields of `cyd_flash_state`, and `active` is the mapped
module. `pc` says where the firmware is: `off` without power; `format`,
`superblock`, `scan` and `migrate` in `cyd_flash_mount`; `erase`, `copy`,
`verify`, `commit` and `startup` in `cyd_flash_install_file`; `relocate`,
`flush`, `append` and `map` in `cyd_flash_activate_module`; `ready` otherwise.

A file stands for its bytes and its SHA-256. An extent has a head, the pages
with the manifest and its tables, and `Sectors` flash sectors with relocated
words; a sector records whose code it holds and which mapping its words are
patched for. `Env` stands for what `cyd_flash_activate_module` compares: the
window addresses and the import fingerprint. A boot may bring another `Env`,
since the windows depend on what else is mapped and the fingerprint on the
firmware. `Programmed` is NOR flash: programming the same record again
completes it, programming another one over it leaves a slot no CRC matches.
`scan_catalog` takes a slot whose first byte is erased for the end of the
catalog. A record half written is `torn` when its first byte is there, so that
the scan skips it, and `smudged` when it is not, so that the slot `ReadsBlank`
and the next record is written over what there is.

`Faults` chooses the failures of an instance, so that a property can be
checked, and proved, under exactly the failures it survives. A power failure
is one action, `Crash`, enabled in every state but `off`; it may leave the
record being written torn, or smudged with `smudge` among the faults, and it
clears everything in RAM.

`XipCatalog` is what the volume promises: a function from commands to files
and a startup command, changed by an installation and by the creation of the
startup file, each in one step. `Durable` in `XipStore` reads the flash
contents as such a catalog, and `ImplementsCatalog` is the refinement.

| Run | Instance | What it shows |
|---|---|---|
| `XipCrash` | 4 files, 2 commands, 5 slots, 2 extents of 2 sectors, table of 2; all power failures but the one inside a sector rewrite, failed copies, mappings, relocations | what is listed is what a reboot lists; every record names a whole module; what runs is intact; the startup record names a module; the catalog and its extents only grow |
| `XipRecordError` | 3 slots, record writes may fail and records be left smudged | installations stay off listed extents all the same |
| `XipPatchFaults` | 2 mappings, 4 slots, table of 1; every failure of a relocation; fairness | the catalog still implements `XipCatalog`, only module contents suffer; the startup file is created in the end |
| `XipPatchCrash` | power failures inside a sector rewrite | violation of `ActiveRunsIntact`, section 5 |

Five slots are enough for two installations, their startup record, a
relocation and a full catalog; two extents let an installation meet a full
volume and an extent in use; two sectors let a relocation stop halfway; a
table smaller than the set of commands lets it overflow. Commands GAME and TOOL
are not symmetric (GAME has two files), so no symmetry is used.

Fairness: `Working` is weakly fair because the firmware runs to completion
once called, and `Boot` because a device that is off is switched on again. No
user action is fair. `StartupCreated` further assumes that power failures
stop, since a device that loses power in every mount never finishes one.

### CircularQueue, KeyStream, Keyboard: keys from the board to the program

`CircularQueue` is the array, head and count that `pc_at.c` uses twice.
`KeyStream` is what such a queue promises a reader, as an abstract
specification: a key pressed while a program runs is accepted, with all of its
events, exactly when there is room for them (`Accept`), and refused whole when
there is not (`Refuse`); the reader gets the events of those accepted, once and
in order; a session starts and ends with nothing, and between two of them no key
is accepted.

`Keyboard` models `d2e_pc_at_enqueue_key`, INT 16h, INT 21h/AH=06h, ports 60h
and 20h, `d2e_pc_at_dispatch_keyboard_irq`, and the frame loop of `run_package`
around them. `keys` and `scans` are the two rings, `waiting` is
`waiting_keyboard_cpu`, `irqActive` is `keyboard_irq_active`. `phase` is
`shell`, `run` (inside `d2e_supervisor_step`) or `poll` (after it): input and
the interrupt come only between two slices, and `BudgetExhausted` ends a slice
between any two instructions, which is where an interleaving nobody tests
comes from. The program is the most general one for these services: it may
read, peek, wait, poll port 60h, hook vector 9, turn interrupts on and off,
also inside its handler, and end; `Services` restricts it. `at`, `ax`, `inf` and
`stack` are its place, AX, interrupt flag and interrupted contexts. `got` and
`seen` are what it has taken from either queue.

| Run | Instance | What it shows |
|---|---|---|
| `Machine` | programs that wait, disable interrupts, enable them in their handler and end; 3 keys | port 60h implements `KeyStream` with make-break pairs; what a program reads, also as a waiting one, is in the order of typing and nothing comes twice (`KeysInOrder`); `keyboard_irq_active` means exactly one unacknowledged handler; interrupts are never spurious |
| `KeyboardLive` | programs that ask before they read; fairness; 4 keys | the BIOS queue implements `KeyStream`, so that a key is lost only when the queue is full; a hooked program with interrupts on gets every scan code |
| `KeyboardWait` | every service | violation of `ReadReturnsKey`, section 5 |

Bounds: the rings hold 2 keys and 4 scan codes instead of 16 and 32, which
lets the head wrap and each of them be full with the other one not; 3 or 4 keys
are more than either holds. The proofs do not depend on these numbers.

Fairness: a slice ends with its budget and a poll with its batch
(`BudgetExhausted`, `NextFrame`); every slice executes at least one block, so a
handler gets on although slices end at any point, which takes strong fairness
(`Handler`); a program that has ended is left. The user is not fair.

### Session: from a command to the prompt and back

`Session` is the task of `d2e_shell_main.c`. `phase` says where it is:
`autoexec` in `run_autoexec`; `prompt`, `feed`, `request` and `button` in
`wait_for_shell_command`; `start`, `map`, `launch`, `run`, `poll`, `return` and
`release` in `run_package`, with `refused` for a failed activation. `packages`
is the shell's copy of the catalog and `modules` the store's table it is copied
from; `selected` is an index into it. `irom`, `drom` and `tables` are the
handles and the fragment and relocation tables of `cyd_flash.c`, `mapped` the
handles the memory map really holds. `sup` and `program` are the supervisor's
state. `left` records, part by part, whose traces the machine holds (memory,
CPU, queues, files, devices, video memory, DOS state, the escape decoder), so
that a missing reset shows. A slice is taken to leave traces in every part:
no guard reads them, so this is the worst case of every program. `videoMode`
and `bda` are the mode and its copy in the BIOS data area. A UART that is
written at any time, batches of bytes, and a button that bounces between
presses are the environment.

| Run | Instance | What it shows |
|---|---|---|
| `Session` | one built-in package, a module table of 1, batches of 3, 4 words typed, every failure but that of the DROM mapping; fairness | a program starts without a trace of the last one or of the shell; the prompt is clean and holds no mapping; a program that may be executed is mapped; the flash is written only while no program is held and nothing is mapped (`InstallsAlone`); a press of BOOT is used once; Ctrl+] always leads back |
| `SessionHandles` | the DROM mapping may fail | violation of `HandlesReleased`, section 5 |
| `SessionVideo` | the failures of `Session` | violation of `ProgramFindsVideoMode`, section 5 |

Bounds: a word of the UART is a whole command or key. Three of them in a batch,
and four in all, let INSTALL, the name of a package and what follows share a
batch or not; two handle numbers are reused at once, the hardest case for a
stale handle; a table of one is full after an installation. AUTOEXEC.BAT is
missing, or installs a package and runs it twice. The built-in package is not
installed over.

Fairness: nothing in the task waits for anything but time, and a slice ends
with its budget, so the task as a whole is weakly fair.

### Speaker: two tasks and a latency

`Speaker` models `update_speaker`, on the machine's task, and `speaker_task`,
which renders each sample 32 ms behind the present. Every critical section is
one step; between two of them the other task may do anything. `Stamp` takes
the timestamp, `Enqueue` is the critical section that follows, possibly later.
`WaitAhead`, `FetchEvent`, `ApplyEvent`, `RenderSample`, `BlockDone` and
`WriteDac` are the parts of the loop. A change is its number; `queue` is the
ring (its index arithmetic is that of `CircularQueue`), `next` is
`next_event`, `control` and `heard` the changes that are rendered and played.

Time is discrete and relative to the present: `age[c]` is how long ago change
`c` was stamped, `lead` is `render_time_us` plus the latency minus the present.
An event is due when its age is at least `Latency - lead`. Ages above `AgeCap`
are not told apart, since nothing compares them. `vTaskDelay` gets whole ticks,
rounded down, and its first tick may end at once, so that the task runs ahead
of its latency. `MaxLag` and `MaxDelay` bound how long the scheduler holds
either task: without a bound on the second no latency is enough.

| Run | Instance | What it shows |
|---|---|---|
| `Speaker` | latency 6, blocks of 2, ticks of 2, delays up to 2, a ring of 2, 4 changes; fairness | each sample is rendered with the control of its time; the sound never goes back; only bursts lose events; the last change is heard |

Bounds: the four constants are scaled from 32 ms, 4 ms, 10 ms and the delay,
and chosen on the edge: with a delay of 3 `SampleHearsItsTime` fails. Four
changes overflow a ring of 2 behind a fetched event.

Fairness: both tasks are scheduled, time passes, and the DAC takes samples.

### Machine: the services of the PC and the pure components

`Machine` chooses a unit and takes the steps of it; the other units stay in one
of their initial states. Everything below is checked by the one run `Machine`,
keyboard included, with the finite sizes of `Machine.cfg`.

| Unit | Module | What it models | What is shown |
|---|---|---|---|
| display | `Display` | `cyd_display.c` and the stripes of `render_pc_frame`: two DMA buffers, the transfers the SPI driver holds, the interrupt that gives one back, a secondary buffer that is freed and allocated around a program | `DrawnIsIdle`: the task never draws into a bank a transfer is still read from, also when a submission or an allocation fails; `PanelIsWhole`: a finished frame is on the panel |
| blocks | `DosMemory` | INT 21h AH=48h, 49h, 4Ah, 58h: a cursor instead of a chain of blocks | `BlocksDisjoint`: the blocks handed out since the PSP block was last resized overlap neither each other nor that block |
| files | `DosFiles` | INT 21h AH=3Dh to 42h, 4Eh and 4Fh, and the reset between programs, with every failure of the host | `StreamsAreOwned`: no stream or directory leaks; `SearchFindsAll`: a search that ends has reported what was asked for |
| clock | `Clock` | `update_clock` once a frame, INT 1Ah, and time in the shell | `ElapsedIsRight`: a program never measures more time than passed, and all of it unless a midnight was overwritten before it was read |
| pit | `Pit` | ports 42h, 43h and 61h | `PairsAreWhole`: halves of a word belong together; `SpeakerFollowsPorts` |
| video | `Video`, `VideoScreen` | INT 10h AH=00h to 0Eh and `update_video_bda`; the loops of `scroll_window` are recursive functions over their turns; `paper` keeps what was printed since a text mode was set, as if on a roll without end | `BdaFollows`: the BIOS data area is the state from the first service on that writes it (`served`), and zero before; `TeletypeLikePaper`: what AH=0Eh prints is on the screen as on a roll of paper of which the last rows are seen |
| ansi | `AnsiInput` | `d2e_pc_input_feed_byte` | `KeystrokesDecode`: bytes of keystrokes decode to the keys of a PC, in whatever pieces they come; a stroke the decoder does not know (`Unsupported`: Enter, End, Delete) gives at most one wrong key and spoils no other |
| flags | `FlagLiveness`, `FlagPrograms` | the analysis of `d2e_flags.py`, a step for each block a sweep visits, and the flags of a program translated with its result | `FlagsAreFresh`: no instruction uses a flag that was not computed, unless `effects` misjudges an instruction where the flag is live (`Misjudged`) |
| memory | `Memory`, `MemoryMap`, `Ram` | `x86_memory.c` over the array, the pages allocated on a write and the video window | `MemoryIsRam`: a refinement of plain memory |
| algorithms | `Algorithms` and the modules of step 6 of the plan | functions without a state of their own | `OutputIsRight`, for every input listed there |

`Algorithms` has one question per kind of input, and one step computes the
answers for a whole row of inputs. The definitions it compares with are
independent of the code: `AluReference` computes with integers, sets of flags
and signed values instead of masks; `Wildcard!Language` is a language;
`ModuleIsSafe` is about sets of bytes and unbounded integers where the code has
ranges that may overflow; `LoadedRight` says which loadings run over the array of
conventional memory, when the others succeed, and of every byte what a program
then finds there; `ReturnsRight`, `ScrollShifts`, `PixelRight`, `SoundRight`
and `PathRight` say what a caller relies on; `BlockFound`, which block an address
is in. The sizes of a module's header, page, table entries and words are constants
of `ModuleFormat`, so that small ones can overflow in a run and every size in a
proof.

Bounds of `Machine`: a panel of five half stripes ends in half a stripe; memory
of four paragraphs and words of five let the cursor reach both ends; two file
slots and two entries, one of them a directory, let a search be abandoned with
entries left; a day of three ticks and a rollover of three let midnights pass
within a frame and wrap the byte; halves of one bit carry between the bytes of
the counter; a screen of 2 by 1 or 2 cells scrolls after two characters, and a paper of five
positions (`MaxPaper`) scrolls it twice; three
keystrokes nest two escape sequences; words of two bytes of one bit, over an
address space of 8, wrap a segment in the middle of a page and of the window.
The programs of `FlagPrograms` are all of two blocks over `inc`, `rcl`, `lahf`
and `shl_cl` with up to two instructions before the end of the first and one
before that of the second, which has loops, indirect ends and calls; `shl_cl` is
misjudged, the others are not. The six flags are three: carry, zero and
overflow, which `inc`, shifts, rotations and SAHF treat differently from each
other. A program is loaded into 44 bytes of memory, 32 of them in the array, and
its PSP lies before, across and behind the end of the array. Arithmetic is
checked for all operands of 5 bits, shifts and rotations for 4 bits with all
counts to 10, products and quotients for 3 bits, decimal adjustments for all
decimal bytes at 8 bits, memory and stacks with a segment of 16 bytes. The code
depends on its widths through a carry out of the top bit, the sign and the
parity of the low byte, and through the half carry out of bit 3, for which 5
bits leave one above.

| Run | Instance | What it shows |
|---|---|---|
| `Machine` | as above | the properties of the table, `OneUnacknowledged`, `HandlerFindsCode` and `ScansImplementStream` |
| `FlagsLost` | programs of `add`, `cmc` and shifts by CL | violation of `NoStaleFlag`, section 5 |

## 4. Proofs

All theorems hold for every value of the constants that satisfies the module's
assumption.

`XipStoreProofs`:

- `TypeCorrect`: `TypeOK` is invariant, under any set of faults. `LocalsOK`
  strengthens it with what control flow guarantees of the local variables.
- `CatalogIsAppendOnly`: `AppendOnly`, when no record write returns an error and
  none is left smudged (`SoundRecords`).
  `CursorInv` is the reason: records fill a prefix of the catalog and the
  cursor of a mounted volume is at its end, so that a write meets a blank slot.
- `CommittedStaysComplete`: `CommittedIsComplete`, when no flash write is lost and
  no record smudged (`NoLostWrites`). `ExtentInv` adds that every extent in use lies below the
  next free one and that the buffer of a relocation holds the module's code.
- `ExtentsAreAppendOnly`: `ExtentsAppendOnly`, from the same invariant.
- `ListedModulesStay`: `ListedKeepsItsExtent`, under any set of faults: no step
  erases the manifest of a listed module.
- `RebootListsTheSame`: `RebootKeepsCatalog`, from `CatalogInv`, when record writes
  report what they did, none is left smudged, and a mount maps every module it
  scans (`HonestDriver`).
  `TableInv` says that an entry of the table is the newest record of its command
  and that a command with a record is in the table unless it is full;
  `StartupInv`, that all startup records agree and name a command of the catalog.
- `FlashImplementsCatalog`: `ImplementsCatalog`, under the same assumption. Each
  step of `XipStore` installs one file in `XipCatalog`, creates the startup file
  or changes nothing of it. `ScriptComesFirst` says that the startup file is
  created while the catalog knows one command only, unless the catalog is full;
  `FirstModule`, that the command of the first record leads the table.
- `RunningModuleHasItsCode`: with `NoLostWrites`, and whatever mappings the boots
  bring, a running module has its own code in every sector (`RunsItsCode`). `RunInv`
  adds that nothing is done to the flash while it runs.
- `RunningModuleIsIntact`: that its words are patched for the mapping it runs at too
  (`ActiveRunsIntact`), if there is only one mapping (`OneMapping`). `PatchedInv` says that whatever claims a mapping has all
  sectors patched for it, `ClaimsLast` that a record of an extent that claims one
  comes after those that do not, and `WorkInv` which sectors a relocation has
  passed. With two mappings, a relocation that is cut short, or whose record is
  refused, leaves words of the second under an older record that claims the first, and a
  module then runs with both: section 5.

Each exclusion of a fault is needed: section 5 has what happens otherwise.

- `OpensExactlySafe`, about the parser: `ModuleOpens`, with its checks in their
  order and its words that wrap, holds of exactly the files that are
  `ModuleIsSafe`, for any sizes of header, page, entries and words
  (`FormatSizes`). `MappedInside` and its like show that the sums of a range
  that passes the tests do not wrap.

`KeyboardProofs` first proves that a ring behaves as a sequence: `PutAppends`
and `DropTakesOldest`, from lemmas about the modulus. It builds on them:

- `TypeCorrect`, by `IInv` (`TypeOK`, `StackInv`, `ShellInv`): the main program
  runs exactly when nothing is stacked, and only the bottom frame of the stack
  is the program's; at the shell nothing has been taken from either queue, and
  a program that never waits in INT 16h never has `waiting` set.
- `ScansImplement`: `ScansImplementStream`, a refinement. Each step of
  `Keyboard` is a step of `KeyStream` or leaves its variables alone. A press is
  accepted or refused as `KeyStream` has it, by the room there is.
- `KeysImplement`: `KeysImplementStream`, when the program does not wait in
  INT 16h. The key on its way from AX to the program belongs to what the
  reader has, also while an interrupt has AX on the stack.
- `KeysAreInOrder` (`KeysInOrder`), for every program, from `OrderInv`: no key known
  is behind the last pressed, and nothing is queued while a program waits, so that
  a key handed to it overtakes none. What a waiting program gets without a key is
  left out; section 5 has that.
- `OneHandlerUnacknowledged` and `NoSpuriousInterrupt`, from `IrqInv`: the
  in-service bit is set exactly while the handler that runs has not
  acknowledged, no stacked context is such a handler, and a handler about to
  read port 60h finds a code.
- `KeystrokesAreKeys` (`KeystrokesDecode` of `AnsiInput`), for any number of
  strokes. What a stroke means is the key of a PC, from no table of the decoder's
  (`Meant`); `Unsupported` names the three it gets wrong, of which the theorem says
  only that they give at most one key of one of their bytes; and `Clear` leaves out
  an Escape before a stroke that continues it. `Decoding` says where among the
  strokes the decoder is. All bytes before are
  the keys of their strokes and all bytes behind are those of the rest, or an
  Escape is held, or an arrow, End or Delete is under way.
- `AnsiTypeCorrect` (`AnsiTypeOK`): also where an Escape is followed by a stroke that
  continues it, at most two keys are reported for a stroke. `RoomInv` counts them
  against the strokes that are decoded.

`SessionProofs` proves the safety of a session for any modules, scripts, faults and
capacities:

- `SessionTypeCorrect` (`TypeOK`), from `ControlInv`: which phase goes with a chosen
  package, a request and AUTOEXEC.
- `InstallationsRunAlone` (`InstallsAlone`): a batch may ask for an installation and
  start a program, and the program goes first; `WindowsInv` says that once it is
  gone, and until the next one is chosen, nothing is mapped and no table is held.
- `SessionsAreIsolated` (`SessionIsolated`), from `MachineInv`: while no program
  executes the supervisor is idle and nothing but the escape decoder holds a trace
  of one; until its first slice a program holds no trace at all.
- `RunningIsMapped` (`ProgramStaysMapped`), from `MappedInv`: from the launch to the
  release both handles are mapped, are different, and the tables are there.
- `PromptHoldsNothing` (`HandlesReleased`), from `HandlesInv`, provided that the
  DROM mapping does not fail: what is mapped is then exactly the two handles.
- `OnePressOneUse` (`PressUsedOnce`), of the BOOT button: a press that was used is
  one that was seen.

`SpeakerProofs`:

- `TypeCorrect` and `NothingHeardTwice` (`HeardInOrder`), from `OrderIInv`: the
  changes applied, fetched, queued and stamped are in increasing order, and
  so are the samples of a block.
- `EverySampleHearsItsTime`: `SampleHearsItsTime`, provided `OnTime`: the
  latency is at least the largest delay, plus two ticks (less two units, or
  the lead that is not waited for if that is more), plus a block. `LeadInv`
  bounds how far the task is ahead, in its sleep too; `NoLossInv` says that
  nothing is missing between `control` and the last stamp, and that what had
  not been queued when the ring was found empty is later than the rest of the
  block. For the firmware's numbers, and the tick of 10 ms that ESP-IDF has by
  default, the machine's task may be held for 8 ms between its stamp and the
  critical section.
- `OnlyBurstsLose` (`LossOnlyInBursts`), provided `OnTime`. `BurstInv` holds
  whatever was lost before: the change that is fetched is not behind its time,
  and what waits while none is fetched is no older than the block under way, the
  lead and the delay.

`DeviceProofs`, for every size of the panel, the screen and memory, every number
of slots and entries, and any patterns:

- `NeverOverdrawn` (`DrawnIsIdle`), for every height of the panel and every set of
  faults: the invariant says which banks the transfers that are counted in
  flight may be read from, and that the rotation hands out another one.
- `FrameReachesPanel` (`PanelIsWhole`): of the rows drawn so far in a frame, each is
  on the panel or in a transfer that is still held, with the pixels it was
  drawn with (`FrameInv`); between frames nothing is in flight.
- `BdaIsCurrent` (`BdaFollows`), which is inductive: from the first service that
  writes the BIOS data area on it is the video state, whatever comes later.
- `VideoTypeCorrect`: `VideoTypeOK`, for any size of the screen.
- `ScrollMovesWindow`: `Scrolled` is right (`ScrollShifts`) for every mode, window,
  number of lines and direction, on a page that is wholly in the adapter's
  memory or wholly outside of it. With 0x4000 bytes of memory and pages of 0x1000
  or 0x0800 (`text_page_size`) each page is one or the other. The loops run in
  place, so the invariant of the first is that the rows it has passed hold what
  they should and those it has yet to read are as they were.
- `TeletypeIsPaper`: `TeletypeLikePaper`, from `PaperInv`: for some line number, that
  line and the cursor's column give the place on the paper, the cursor's row is
  the line or the last row if that is less, nothing is struck behind the line,
  and the screen shows the paper from the first line still on it. The product of
  line and width needs this witness: the property's quotient is not inductive.
- `BlocksAreDisjoint` (`BlocksDisjoint`): the cursor is behind every block handed out
  since the PSP block was last resized, and never wraps. It says nothing of older
  blocks, which the code does hand out again (section 5).
- `NothingLeaks` (`StreamsAreOwned`): opening takes a free slot, so that the
  number of open ones counts the streams.
- `SearchIsComplete` (`SearchFindsAll`), from `SearchInv`: told, passed over and
  left are together what the search wants.
- `FilesTypeCorrect` (`DosFilesTypeOK`), with what the answers of a search can be.
- `TimeIsNotInvented` (`ElapsedIsRight`), for any length of the day and of the
  rollover, from `ClockInv`: the midnights a program was told of and the one it
  has not read never exceed the days between its first reading and the last
  update, and equal them unless one was missed.
- `WordsAreWhole` (`PairsAreWhole`) and `SpeakerIsTold` (`SpeakerFollowsPorts`), for
  every size of a half word: while a half waits, the counter stands still and
  the latch holds the half that was written.

`ProgramProofs`, about what a program relies on:

- `MemoryTypeCorrect` (`MemoryTypeOK`) and `MemoryIsOneRam` (`MemoryIsRam`), a
  refinement: each store of a byte, a word or a word of a segment changes the
  same bytes as in `Ram`. `MemInv` adds that every page is on the heap or in use,
  so that a page given up is one that can be had again. `MemoryAssumption` says
  that a word fits into the address space and that the window lies behind
  conventional memory and inside the address space.
- `FlagTypeCorrect` (`FlagTypeOK`) and `NoFlagIsStale` (`FlagsAreFresh`): for every
  program, from `AnalysisInv` (a sweep that has changed nothing has settled the
  blocks it visited) and `StaleInv` (what is stale is not live). What `effects` says
  of an instruction is not assumed to be true: `Contract` is what it says, `Uses` and
  `Sets` what the instruction does, and the theorem is about a program none of
  whose live flags is misjudged.
- `OtherProgramsAreFresh`: `NoStaleFlag` of every program without the six kinds of
  instructions that are misjudged at all (`MisjudgedMnemonics`: CMC, shifts by CL,
  the two kinds of rotations by CL, SAHF, and repeated comparisons). `WrongContracts`
  shows that these six are, and no others.
- `SumsAreRight`, `ProductsAreRight`, `DivisionsAreRight` and `DecimalsAreRight`:
  the ALU's answers are `Right`, as `AluReference` has them, for bytes and words of
  16 bits, all operands and all flags before. A run has words of five bits; here
  `WidthValues` gives the powers of two, and the flags of a sum follow from the
  bit that the carries go into.
- `CallsReturn`: what `Control` calls `ReturnsRight`, for every size of memory, every
  segment and stack pointer and two calls of any kinds, one inside the other. Each
  word pushed is found again because `Pushed` says which bytes below the first
  stack pointer may have changed, and `BelowDiffer` that they are different bytes
  of memory even where the stack wraps. It takes bytes of two bits or more, for
  the flags to fit into a word, and a memory that had room for the frames.
- `BlocksAreFound`: the binary search of `d2e_native_find_block` ends with the block
  that starts at an address, or with none, for every sorted table.

`MachineProofs`, about the units together:

- `UnitsAlone`: `MachineSpec` implies the specification of every unit, and of the
  flags and the algorithms if these were chosen, since their states at rest are
  none of their own. `StepsAlone` has a step for each unit: one moves, the others
  rest.
- `MachineTypeCorrect` (`MachineTypeOK`): with it, the invariants of the other
  modules hold in the machine as they are.
- `MachineIsSafe`: the safety properties and the refinements of the run `Machine`
  but for `OutputIsRight`, all at once, each with the limits of its own statement.

Induction over data: the library's induction theorems take an operator and cannot
be used, but `WFMin`, which states that a set of numbers that is not empty has a
least one, can. The module `Induction` has what follows from it: `AllNumbers` (a set
that is closed under successor is `Nat`) and `Recursion` (a recursive function on
`Nat` exists and satisfies its equation). The loops of `scroll_window` and the
binary search are proved with them. `Flattened`, in `KeyboardProofs`, is what
`FlattenSeq` computes.

Model-checked only:

- `OutputIsRight` as a whole. Proved of it are the opening of a module, sums,
  products, quotients, decimals, calls and returns, the block search and
  scrolling, for every size. Shifts and rotations are not: powers of a variable
  exponent, and the folds over their turns, are beyond the provers. Nor are
  loading, string instructions, the waveform, pixels, wildcards and paths, which
  are folds over sequences or recursive functions of two arguments.
- Liveness, which the prover does not handle: `StartupCreated`, and the temporal
  properties of `KeyboardLive`, `Session` and `Speaker` under fairness.

The type invariants of `XipStore`, `Session` and `Speaker` are proved, and not
repeated in a run.

## 5. Findings

With a run each:

- `XipPatchCrash`: a power failure between the erase and the write of a sector
  being patched loses code that a later activation vouches for.
- `KeyboardWait`: a program that waits in INT 16h/AH=0 goes on in the next frame
  whether or not a key came.
- `SessionHandles`: when the DROM mapping fails, `active_irom_handle` keeps a
  handle that is unmapped, and a later deactivation unmaps it again.
- `SessionVideo`: the supervisor clears the BIOS data area after the machine's
  reset has filled it, so a program starts with video mode zero in it.

- `FlagsLost`: `effects` in `d2e_flags.py` says that CMC reads no flag and that
  a shift by CL defines all of them. The code emitted for CMC inverts the carry
  there is, and a count of zero keeps the flags, so an instruction before them
  loses a flag that is used behind them. The run has these two. Rotations by CL,
  SAHF (which is said to define OF) and a repeated comparison (which may not begin)
  show the same with `Instructions = {"add", "rol_cl"}` and its like.

Seen while modelling, each reached by changing the constants of a run:

- A record write that reports an error is retried over what it wrote: with
  `record_error` among the faults, `AppendOnly` fails.
- A record cut short with its first byte still erased ends the scan of the next
  mount (`cyd_flash.c:255`), which puts the next record over it. No CRC matches
  there, and the installation is reported and listed, but gone after a reboot:
  with `smudge`, `RebootKeepsCatalog` fails.
- Under two mappings a module may run with words patched for both, after a boot that
  gets the earlier mapping back: a relocation was interrupted, or its record found
  the catalog full. With two mappings and `reloc_crash`, `ActiveRunsIntact` fails.
- A command that finds the table full is committed and reported, and not
  listed (`CYD_FLASH_MODULE_CAPACITY` is 8): the last part of
  `RebootKeepsCatalog` has to leave a full table out.
- A module that cannot be mapped while mounting loses its extent to the next
  installation: with `scan_error`, `ExtentsAppendOnly` fails.
- Of two INSTALL commands in one batch the second overwrites the first
  (`shell.c:128`): the shell holds one request.
- AH=4Ah moves the allocation cursor behind the PSP block although blocks are
  handed out behind it, and AH=48h then hands them out again. `blocks` in
  `DosMemory` are therefore those since the last resize.
- The loaders clear the PSP and write its exit call in the array of conventional
  memory, with the size of all memory as the only bound (`native_runtime.c:127-132`
  and `176-181`). A PSP across or behind the end of the array runs over other
  variables, its pages in extended memory keep what they held, and the loading
  succeeds. `Overruns` in `Loader` marks it, and `LoadedRight` says exactly when.
- The machine has one directory search, not one per transfer area: a second
  AH=4Eh ends the first search.
- Every frame overwrites the ticks a program has set with INT 1Ah, and a
  rollover that was not read within its frame. `missed` in `Clock` marks it.
- A byte of 1 to 26 is a control letter to `feed_plain` before it can be Enter, Tab
  or Backspace (`pc_input.c:56`), so that Enter has the scan code of M, not the
  1Ch of line 75; only 7Fh is a Backspace.
- Delete leaves a `~`, and End gives nothing (`Unsupported` in `AnsiInput`).
- Two Escapes give one key, an Escape before `[` takes it for an arrow, and one
  before an arrow gives Escape, `[` and `A` (`Continuing`).
- AH=06h and 07h move text cells in a graphics mode, AH=09h goes on at the top
  when it passes the last cell, and AH=0Ch ignores bit 7 of the colour.
- A COM program whose image reaches the end of its segment loses its last two
  bytes to the word on its stack (`Contents` and `StackWord` in `Loader`).

## 6. What is not modelled

- Record layout and CRC arithmetic in the store, and its fragment table (only
  its existence is, in `Session`).
- Shift flags and queries of the keyboard without effect; the editing of the
  command line (a word is a command however it was typed).
- Attributes, palettes, the CRTC's registers and `text_video.c`; `cp437_font.c`
  is a table. A program that draws makes every cell of `Video` unknown.
- The strings, magic numbers and versions of a module's header, and
  `xip_imports.c`, a constant table.
- DOS calls that answer constants or store one value (date, time, version,
  drives, vectors); channels 0 and 1 of the PIT, which nobody listens to.
- Registers and fetches of `x86_cpu.c`, and `native_helpers.c`, which wraps the
  ALU for generated code. MZ relocations that overlap each other are not among
  the inputs of `Algorithms`.
- The translator but for its flag analysis, the packers, tracing, build
  scripts, the wording of messages and the board's drivers. The SD card is
  files that may be missing or fail.
- `main.c`, the firmware without a shell, has the frame loop of
  `d2e_shell_main.c` for one linked program.
