------------------------------ MODULE Keyboard ------------------------------
(***************************************************************************)
(* The keyboard of src/machine/pc_at.c and the frames of run_package that  *)
(* serve it.  One task alternates between the translated program (phase    *)
(* "run", d2e_supervisor_step) and the polling of input (phase "poll",     *)
(* poll_program_input and d2e_pc_at_dispatch_keyboard_irq); the firmware   *)
(* is in phase "shell" between two programs.                               *)
(*                                                                         *)
(* Keys are numbered in the order they are typed: k stands for the         *)
(* (scan, ascii) pair, k and -k for its make and break codes, 0 for no key *)
(* and for the byte of an empty port 60h.  The program is any program that *)
(* uses the keyboard's services; Services says which of the habits that    *)
(* matter it may have.  AX is the only register followed.                  *)
(***************************************************************************)
EXTENDS Integers, Sequences, CircularQueue

CONSTANTS
  KeyCapacity,   \* D2E_PC_AT_KEY_QUEUE_CAPACITY
  ScanCapacity,  \* D2E_PC_AT_SCAN_QUEUE_CAPACITY
  Batch,         \* keys one poll can bring
  MaxKeys,       \* bound on the keys typed
  MaxReads,      \* bound on the keys a program uses
  Services       \* habits of the program, and whether it ever ends

ServiceKinds == {"wait",     \* INT 16h/AH=0 without asking AH=1 first
                 "cli",      \* turns interrupts off
                 "sti_isr",  \* its IRQ1 handler turns interrupts on
                 "end"}      \* terminates, or the user presses Ctrl+]

ASSUME KeyboardAssumption ==
  /\ KeyCapacity \in Nat \ {0}
  /\ ScanCapacity \in Nat \ {0}
  /\ Batch \in Nat
  /\ MaxKeys \in Nat /\ MaxReads \in Nat
  /\ Services \subseteq ServiceKinds

VARIABLES
  keys,       \* key_queue, key_head, key_count
  scans,      \* scan_queue, scan_head, scan_count
  waiting,    \* waiting_keyboard_cpu # NULL
  irqActive,  \* keyboard_irq_active
  phase,      \* who has the task: "shell", "run" or "poll"
  exited,     \* supervisor state EXITED
  at,         \* what the program does next
  ax,         \* the key in AX
  inf,        \* the interrupt flag
  hooked,     \* vector 9 is not null
  stack,      \* the contexts its interrupt frames saved
  pressed,    \* keys typed so far
  batch,      \* keys of this poll
  got,        \* the keys the program read through the BIOS or DOS
  seen        \* the scan codes it read from port 60h

machine == <<keys, scans, waiting, irqActive>>
cpu == <<at, ax, inf, hooked, stack>>
history == <<pressed, batch, got, seen>>
vars == <<machine, cpu, history, phase, exited>>

Key == 1..MaxKeys
NoKey == 0
Code == -MaxKeys..MaxKeys

\* The program between two instructions of its own, about to use the key of a
\* read it has made, or in one of the steps of its IRQ1 handler.
Places == {"code", "read", "isr_in", "isr_eoi", "isr_ret"}
Unacknowledged == {"isr_in", "isr_eoi"}
Context == [at : Places, ax : Key \cup {NoKey}, inf : BOOLEAN]

-----------------------------------------------------------------------------
(* Sessions.                                                               *)

ResetKeepingScans ==                                          \* mutant of Reset
  /\ keys' = NewQueue(KeyCapacity, NoKey)
  /\ waiting' = FALSE
  /\ irqActive' = FALSE
  /\ UNCHANGED scans
Reset ==
  /\ keys' = NewQueue(KeyCapacity, NoKey)
  /\ scans' = NewQueue(ScanCapacity, 0)
  /\ waiting' = FALSE
  /\ irqActive' = FALSE

\* d2e_x86_clear_memory and d2e_x86_cpu_reset: vector 9 and the flags are zero.
ClearCpu ==
  /\ at' = "code"
  /\ ax' = NoKey
  /\ inf' = FALSE
  /\ hooked' = FALSE
  /\ stack' = << >>

Launch ==
  /\ phase = "shell"
  /\ Reset
  /\ ClearCpu
  /\ phase' = "run"
  /\ UNCHANGED <<history, exited>>

\* The loop of run_package ends after a poll; enter_shell tears the session down.
EnterShell ==
  /\ phase = "poll"
  /\ "end" \in Services
  /\ Reset
  /\ ClearCpu
  /\ phase' = "shell"
  /\ exited' = FALSE
  /\ batch' = 0
  /\ got' = << >>
  /\ seen' = << >>
  /\ UNCHANGED pressed

-----------------------------------------------------------------------------
(* The program: phase "run".                                               *)

\* keyboard_interrupt, AH = 0.  On an empty queue the run returns with
\* WAITING_INPUT, the program's IP already behind the INT instruction.
ReadWithoutPop ==                                             \* mutant of ReadKey
  /\ phase = "run" /\ at = "code"
  /\ keys.count # 0
  /\ ax' = Oldest(keys)
  /\ waiting' = FALSE
  /\ at' = "read"
  /\ UNCHANGED <<keys, scans, irqActive, inf, hooked, stack, history, phase, exited>>
ReadKey ==
  /\ phase = "run" /\ at = "code"
  /\ keys.count # 0
  /\ ax' = Oldest(keys)
  /\ keys' = Drop(keys, KeyCapacity)
  /\ waiting' = FALSE
  /\ at' = "read"
  /\ UNCHANGED <<scans, irqActive, inf, hooked, stack, history, phase, exited>>

WaitKey ==
  /\ phase = "run" /\ at = "code"
  /\ keys.count = 0
  /\ "wait" \in Services
  /\ waiting' = TRUE
  /\ ax' = NoKey
  /\ at' = "read"
  /\ phase' = "poll"
  /\ UNCHANGED <<keys, scans, irqActive, inf, hooked, stack, history, exited>>

\* AH = 1: AX shows the oldest key, which stays where it is.
PeekKey ==
  /\ phase = "run" /\ at = "code"
  /\ keys.count # 0
  /\ ax' = Oldest(keys)
  /\ UNCHANGED <<machine, at, inf, hooked, stack, history, phase, exited>>

\* dos_interrupt, AH = 06h, DL = FFh: as ReadKey, but waiting stays as it is.
DosRead ==
  /\ phase = "run" /\ at = "code"
  /\ keys.count # 0
  /\ ax' = Oldest(keys)
  /\ keys' = Drop(keys, KeyCapacity)
  /\ at' = "read"
  /\ UNCHANGED <<scans, waiting, irqActive, inf, hooked, stack, history, phase, exited>>

\* The instruction behind the read takes its key from AX.
UseKey ==
  /\ phase = "run" /\ at = "read"
  /\ Len(got) < MaxReads
  /\ got' = Append(got, ax)
  /\ at' = "code"
  /\ UNCHANGED <<machine, ax, inf, hooked, stack, pressed, batch, seen, phase, exited>>

\* IN AL, 60h, polled by the program or by its handler.
TakeScan ==
  IF scans.count = 0
    THEN UNCHANGED <<scans, seen>>
    ELSE /\ seen' = Append(seen, Oldest(scans))
         /\ scans' = Drop(scans, ScanCapacity)
PollScan ==
  /\ phase = "run" /\ at = "code"
  /\ scans.count # 0
  /\ TakeScan
  /\ UNCHANGED <<keys, waiting, irqActive, cpu, pressed, batch, got, phase, exited>>

HookVector ==
  /\ phase = "run" /\ at = "code"
  /\ hooked' = TRUE
  /\ UNCHANGED <<machine, at, ax, inf, stack, history, phase, exited>>

SetInterrupts(on) ==
  /\ phase = "run"
  /\ \/ at = "code" /\ (on \/ "cli" \in Services)
     \/ at \in Places \ {"code", "read"} /\ on /\ "sti_isr" \in Services
  /\ inf' = on
  /\ UNCHANGED <<machine, at, ax, hooked, stack, history, phase, exited>>

\* The program's IRQ1 handler: read the code, acknowledge, return.
HandlerReads ==
  /\ phase = "run" /\ at = "isr_in"
  /\ TakeScan
  /\ at' = "isr_eoi"
  /\ UNCHANGED <<keys, waiting, irqActive, ax, inf, hooked, stack, pressed, batch, got,
                 phase, exited>>
\* OUT 20h, 20h.
AcknowledgeIgnored ==                                         \* mutant of HandlerAcknowledges
  /\ phase = "run" /\ at = "isr_eoi"
  /\ at' = "isr_ret"
  /\ UNCHANGED <<machine, ax, inf, hooked, stack, history, phase, exited>>
HandlerAcknowledges ==
  /\ phase = "run" /\ at = "isr_eoi"
  /\ irqActive' = FALSE
  /\ at' = "isr_ret"
  /\ UNCHANGED <<keys, scans, waiting, ax, inf, hooked, stack, history, phase, exited>>
\* The handler restores AX, IRET the rest.
HandlerReturns ==
  /\ phase = "run" /\ at = "isr_ret"
  /\ LET saved == stack[Len(stack)] IN
       /\ at' = saved.at
       /\ ax' = saved.ax
       /\ inf' = saved.inf
  /\ stack' = SubSeq(stack, 1, Len(stack) - 1)
  /\ UNCHANGED <<machine, hooked, history, phase, exited>>

BudgetExhausted ==
  /\ phase = "run"
  /\ phase' = "poll"
  /\ UNCHANGED <<machine, cpu, history, exited>>

\* INT 20h, INT 21h/AH=4Ch: the frame still polls before the loop ends.
Exit ==
  /\ phase = "run" /\ at = "code"
  /\ "end" \in Services
  /\ phase' = "poll"
  /\ exited' = TRUE
  /\ UNCHANGED <<machine, cpu, history>>

-----------------------------------------------------------------------------
(* The poll: d2e_pc_at_enqueue_key for every key that has arrived, then     *)
(* d2e_pc_at_dispatch_keyboard_irq.                                        *)

EnqueueScanInLastCell(k) ==                                   \* mutant of EnqueueScan
  IF scans.count <= ScanCapacity - 1
    THEN scans' = Put(Put(scans, ScanCapacity, k), ScanCapacity, -k)
    ELSE UNCHANGED scans
EnqueueScanKeepingCell(k) ==                                  \* mutant of EnqueueScan
  IF scans.count < ScanCapacity - 2
    THEN scans' = Put(Put(scans, ScanCapacity, k), ScanCapacity, -k)
    ELSE UNCHANGED scans
EnqueueScan(k) ==
  IF scans.count <= ScanCapacity - 2
    THEN scans' = Put(Put(scans, ScanCapacity, k), ScanCapacity, -k)
    ELSE UNCHANGED scans

EnqueueOverOldest(k) ==                                       \* mutant of EnqueueKey
  /\ keys' = Put(keys, KeyCapacity, k)
  /\ UNCHANGED <<ax, waiting>>
EnqueueKeyKeepingCell(k) ==                                   \* mutant of EnqueueKey
  IF waiting
    THEN /\ ax' = k
         /\ waiting' = FALSE
         /\ UNCHANGED keys
    ELSE /\ IF keys.count < KeyCapacity - 1
              THEN keys' = Put(keys, KeyCapacity, k)
              ELSE UNCHANGED keys
         /\ UNCHANGED <<ax, waiting>>
EnqueueKeyTwice(k) ==                                         \* mutant of EnqueueKey
  /\ IF waiting
       THEN ax' = k /\ waiting' = FALSE
       ELSE UNCHANGED <<ax, waiting>>
  /\ IF keys.count < KeyCapacity
       THEN keys' = Put(keys, KeyCapacity, k)
       ELSE UNCHANGED keys
EnqueueKey(k) ==
  IF waiting
    THEN /\ ax' = k
         /\ waiting' = FALSE
         /\ UNCHANGED keys
    ELSE /\ IF keys.count < KeyCapacity
              THEN keys' = Put(keys, KeyCapacity, k)
              ELSE UNCHANGED keys
         /\ UNCHANGED <<ax, waiting>>

Press ==
  /\ phase = "poll"
  /\ pressed < MaxKeys
  /\ batch < Batch
  /\ pressed' = pressed + 1
  /\ batch' = batch + 1
  /\ EnqueueScan(pressed + 1)
  /\ EnqueueKey(pressed + 1)
  /\ UNCHANGED <<irqActive, at, inf, hooked, stack, got, seen, phase, exited>>

InterruptUnacknowledged == scans.count # 0 /\ inf /\ hooked   \* mutant of Interruptible
InterruptOnEmpty == ~irqActive /\ inf /\ hooked               \* mutant of Interruptible
Interruptible == scans.count # 0 /\ ~irqActive /\ inf /\ hooked

NextFrame ==
  /\ phase = "poll"
  /\ ~exited
  /\ phase' = "run"
  /\ batch' = 0
  /\ IF Interruptible
       THEN /\ stack' = Append(stack, [at |-> at, ax |-> ax, inf |-> inf])
            /\ inf' = FALSE
            /\ at' = "isr_in"
            /\ irqActive' = TRUE
       ELSE UNCHANGED <<stack, inf, at, irqActive>>
  /\ UNCHANGED <<keys, scans, waiting, ax, hooked, pressed, got, seen, exited>>

-----------------------------------------------------------------------------
Init ==
  /\ keys = NewQueue(KeyCapacity, NoKey)
  /\ scans = NewQueue(ScanCapacity, 0)
  /\ waiting = FALSE
  /\ irqActive = FALSE
  /\ phase = "shell"
  /\ exited = FALSE
  /\ at = "code"
  /\ ax = NoKey
  /\ inf = FALSE
  /\ hooked = FALSE
  /\ stack = << >>
  /\ pressed = 0
  /\ batch = 0
  /\ got = << >>
  /\ seen = << >>

Handler == HandlerReads \/ HandlerAcknowledges \/ HandlerReturns
AskingProgram ==
  \/ ReadKey \/ PeekKey \/ DosRead \/ UseKey
  \/ PollScan \/ HookVector
  \/ \E on \in BOOLEAN : SetInterrupts(on)
  \/ Handler
  \/ Exit
Program == AskingProgram \/ WaitKey

Next ==
  \/ Launch \/ EnterShell
  \/ Program \/ BudgetExhausted
  \/ Press \/ NextFrame

Spec == Init /\ [][Next]_vars

\* A program that asks with AH = 1 whether there is a key never waits for one.
AskingNext ==
  \/ Launch \/ EnterShell
  \/ AskingProgram \/ BudgetExhausted
  \/ Press \/ NextFrame

\* Every slice ends and every poll ends; every slice runs at least one block of
\* the program, so a handler that is entered again and again gets on.  A program
\* that has ended is left.
FairSpec ==
  /\ Init /\ [][AskingNext]_vars
  /\ WF_vars(BudgetExhausted)
  /\ WF_vars(NextFrame)
  /\ WF_vars(exited /\ EnterShell)
  /\ SF_vars(Handler)

-----------------------------------------------------------------------------
(* Properties.                                                             *)

TypeOK ==
  /\ keys \in Queue(KeyCapacity, Key \cup {NoKey})
  /\ scans \in Queue(ScanCapacity, Code)
  /\ waiting \in BOOLEAN /\ irqActive \in BOOLEAN
  /\ phase \in {"shell", "run", "poll"}
  /\ exited \in BOOLEAN
  /\ at \in Places
  /\ ax \in Key \cup {NoKey}
  /\ inf \in BOOLEAN /\ hooked \in BOOLEAN
  /\ stack \in Seq(Context)
  /\ pressed \in 0..MaxKeys
  /\ batch \in 0..Batch
  /\ got \in Seq(Key \cup {NoKey})
  /\ seen \in Seq(Code)

(* The key in transit between a read and the instruction that uses it, in   *)
(* AX or in the frame of the interrupt that came between.                   *)
Main == IF stack = << >> THEN [at |-> at, ax |-> ax] ELSE stack[1]
InTransit == IF Main.at = "read" THEN <<Main.ax>> ELSE << >>

KeyEvent(k) == <<k>>
ScanEvents(k) == <<k, -k>>
InSession == phase # "shell"
Typed == INSTANCE KeyStream WITH
  Capacity <- KeyCapacity, EventsOf <- KeyEvent, open <- InSession,
  queue <- Contents(keys, KeyCapacity), taken <- got \o InTransit, last <- pressed
Scanned == INSTANCE KeyStream WITH
  Capacity <- ScanCapacity, EventsOf <- ScanEvents, open <- InSession,
  queue <- Contents(scans, ScanCapacity), taken <- seen, last <- pressed

(* The BIOS queue gives a program that asks before it reads every key typed *)
(* in its session that found room, once, in order, and none of an earlier   *)
(* one, and there is room as long as fewer keys than it holds wait: the     *)
(* queue of enqueue_key, INT 16h and INT 21h implements KeyStream.          *)
KeysImplementStream == Typed!Spec

(* Port 60h does so for scan codes, whole make-break pairs, whoever polls   *)
(* it and whenever the interrupt comes: a pair is lost only when less than  *)
(* two codes fit.                                                           *)
ScansImplementStream == Scanned!Spec

(* keyboard_irq_active says exactly whether some handler, running or        *)
(* itself interrupted, has not acknowledged its interrupt, and there is at  *)
(* most one such handler: interrupts nest only behind an EOI.               *)
Pending(i) == IF i = 0 THEN at \in Unacknowledged ELSE stack[i].at \in Unacknowledged
OneUnacknowledged ==
  /\ irqActive <=> \E i \in 0..Len(stack) : Pending(i)
  /\ \A i, j \in 0..Len(stack) : Pending(i) /\ Pending(j) => i = j

(* An interrupt is never spurious: its handler finds the code it was raised *)
(* for in port 60h, although slices, polls and other readers of the port    *)
(* come between.                                                            *)
HandlerFindsCode == at = "isr_in" => scans.count # 0

(* No program, waiting or asking, reads a key twice, or a key behind one    *)
(* typed later: the keys it has read, the one in AX on its way to the       *)
(* instruction that uses it, and those still queued, are in the order they  *)
(* were typed.  A resumed wait that got no key is left out of the order.    *)
Ascending(s) ==
  \A i, j \in DOMAIN s : i < j /\ s[i] # NoKey /\ s[j] # NoKey => s[i] < s[j]
KeysInOrder == Ascending((got \o InTransit) \o Contents(keys, KeyCapacity))

(* A program that asked for a key goes on with a key.                       *)
ReadReturnsKey == \A i \in DOMAIN got : got[i] # NoKey

(* A program that keeps interrupts on and vector 9 hooked gets every scan   *)
(* code, one interrupt per frame at most, until none is left or it ends.    *)
ScansAreServed ==
  (hooked /\ inf /\ scans.count # 0) ~> scans.count = 0
=============================================================================
