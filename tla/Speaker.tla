------------------------------ MODULE Speaker ------------------------------
(***************************************************************************)
(* The PC speaker between two tasks: the machine's, which stamps and queues *)
(* every change of the speaker's control (update_speaker), and the audio   *)
(* task, which renders each sample with the control of its time, a fixed   *)
(* latency behind the present (speaker_task of pc_speaker_audio.c).        *)
(*                                                                         *)
(* A change is known by its number; what the ports make of it is left out. *)
(* Time is counted in units, and kept relative to the present: the time a  *)
(* stamp lies back is its age, and how far the audio task runs ahead of    *)
(* the latency is its lead.                                                *)
(***************************************************************************)
EXTENDS Integers, Sequences

CONSTANTS
  Capacity,   \* SPEAKER_EVENT_CAPACITY
  Latency,    \* SPEAKER_EVENT_LATENCY_US
  Block,      \* SPEAKER_RENDER_SAMPLES, a unit each
  TickPeriod, \* of the FreeRTOS tick
  Early,      \* the lead below which the task does not wait
  MaxLag,     \* how late the scheduler may make the audio task
  MaxDelay,   \* how long the machine's task may be held before it queues
  MaxChanges  \* bound on the changes

ASSUME SpeakerAssumption ==
  /\ Capacity \in Nat \ {0} /\ Block \in Nat \ {0} /\ TickPeriod \in Nat \ {0}
  /\ Latency \in Nat /\ Early \in Nat /\ MaxLag \in Nat /\ MaxDelay \in Nat
  /\ MaxChanges \in Nat \ {0}

VARIABLES
  age,        \* of every change so far: its timestamp_us
  stamped,    \* the change that has a stamp and is not queued yet
  queue,      \* speaker_events, from head on
  overrun,    \* speaker_queue_overruns # 0
  pc,         \* where speaker_task is
  next,       \* next_event
  control,    \* the control samples are rendered with
  samples, offset,  \* the block, and how much of it is written
  lead,       \* render_time_us + latency - now
  sleep,      \* ticks left of vTaskDelay
  phase,      \* time since the last tick
  heard       \* the control of the last sample the DAC has

machine == <<age, stamped, overrun>>
audio == <<pc, next, control, samples, offset, sleep, heard>>
clock == <<lead, phase>>
vars == <<machine, queue, audio, clock>>

None == 0                                  \* no event; the control at power-on
Changes == Len(age)
AgeCap == Latency + MaxLag + 2 * Block + 1 \* an older stamp is as good as this

-----------------------------------------------------------------------------
(* The machine's task.                                                     *)

\* notify_speaker, up to the timestamp.
Stamp ==
  /\ stamped = None /\ Changes < MaxChanges
  /\ age' = Append(age, 0)
  /\ stamped' = Changes + 1
  /\ UNCHANGED <<overrun, queue, audio, clock>>

\* The critical section of update_speaker: a full ring loses its oldest event.
EnqueueOverHead ==                                       \* mutant of Enqueue
  /\ stamped # None
  /\ overrun' = (overrun \/ Len(queue) = Capacity)
  /\ queue' = IF Len(queue) = Capacity THEN <<stamped>> \o Tail(queue) ELSE Append(queue, stamped)
  /\ stamped' = None
  /\ UNCHANGED <<age, audio, clock>>
Enqueue ==
  /\ stamped # None
  /\ overrun' = (overrun \/ Len(queue) = Capacity)
  /\ queue' = Append(IF Len(queue) = Capacity THEN Tail(queue) ELSE queue, stamped)
  /\ stamped' = None
  /\ UNCHANGED <<age, audio, clock>>

-----------------------------------------------------------------------------
(* The audio task.                                                         *)

\* dequeue_speaker_event, a critical section of its own.
Dequeue ==
  /\ next' = IF queue = << >> THEN None ELSE Head(queue)
  /\ queue' = IF queue = << >> THEN queue ELSE Tail(queue)

\* vTaskDelay is given whole ticks, rounded down.
WaitTooShort ==                                         \* mutant of WaitAhead
  /\ pc = "wait"
  /\ sleep' = IF lead >= 2 * TickPeriod THEN (lead \div TickPeriod) - 1 ELSE 0
  /\ pc' = "fetch"
  /\ UNCHANGED <<machine, queue, next, control, samples, offset, heard, clock>>
WaitAhead ==
  /\ pc = "wait"
  /\ sleep' = IF lead > Early THEN lead \div TickPeriod ELSE 0
  /\ pc' = "fetch"
  /\ UNCHANGED <<machine, queue, next, control, samples, offset, heard, clock>>

FetchNever ==                                          \* mutant of FetchEvent
  /\ pc = "fetch" /\ sleep = 0
  /\ UNCHANGED <<next, queue>>
  /\ pc' = "render" /\ samples' = << >>
  /\ UNCHANGED <<machine, control, offset, sleep, heard, clock>>
FetchEvent ==
  /\ pc = "fetch" /\ sleep = 0
  /\ IF next = None THEN Dequeue ELSE UNCHANGED <<next, queue>>
  /\ pc' = "render" /\ samples' = << >>
  /\ UNCHANGED <<machine, control, offset, sleep, heard, clock>>

\* timestamp_us <= sample_time_us, which lies behind the present already.
PastTwice(c) == age[c] >= 2 * Latency - lead             \* mutant of Past
Past(c) == age[c] >= Latency - lead
Due == next # None /\ Past(next)

ApplyEvent ==
  /\ pc = "render" /\ Len(samples) < Block /\ Due
  /\ control' = next
  /\ Dequeue
  /\ UNCHANGED <<machine, pc, samples, offset, sleep, heard, clock>>

RenderSample ==
  /\ pc = "render" /\ Len(samples) < Block /\ ~Due
  /\ samples' = Append(samples, control)
  /\ lead' = lead + 1
  /\ UNCHANGED <<machine, queue, pc, next, control, offset, sleep, heard, phase>>

BlockDone ==
  /\ pc = "render" /\ Len(samples) = Block
  /\ pc' = "write" /\ offset' = 0
  /\ UNCHANGED <<machine, queue, next, control, samples, sleep, heard, clock>>

\* dac_continuous_write takes some of the samples; an error is tried again.
WriteDac ==
  /\ pc = "write"
  /\ \E written \in 1..(Block - offset) :
       /\ offset' = offset + written
       /\ heard' = samples[offset']
  /\ pc' = IF offset' = Block THEN "wait" ELSE "write"
  /\ UNCHANGED <<machine, queue, next, control, samples, sleep, clock>>

-----------------------------------------------------------------------------
(* Time.  Neither task is held for longer than the bounds say.             *)

Advance ==
  /\ lead > -MaxLag
  /\ stamped # None => age[stamped] < MaxDelay
  /\ age' = [c \in DOMAIN age |-> IF age[c] < AgeCap THEN age[c] + 1 ELSE AgeCap]
  /\ lead' = lead - 1
  /\ phase' = (phase + 1) % TickPeriod
  /\ sleep' = IF phase' = 0 /\ sleep > 0 THEN sleep - 1 ELSE sleep
  /\ UNCHANGED <<stamped, overrun, queue, pc, next, control, samples, offset, heard>>

-----------------------------------------------------------------------------
\* pc_speaker_audio_init sets the callback, which queues the first control, and
\* starts the task, which fetches it.
Init ==
  /\ age = <<0>> /\ stamped = None /\ queue = << >> /\ overrun = FALSE
  /\ pc = "wait" /\ next = 1 /\ control = None /\ heard = None
  /\ samples = << >> /\ offset = 0
  /\ lead = 0 /\ sleep = 0 /\ phase \in 0..(TickPeriod - 1)

Machine == Stamp \/ Enqueue
Audio == WaitAhead \/ FetchEvent \/ ApplyEvent \/ RenderSample \/ BlockDone \/ WriteDac
Next == Machine \/ Audio \/ Advance

Spec == Init /\ [][Next]_vars

\* Both tasks are scheduled and time passes; the DAC takes samples as it plays.
FairSpec == Spec /\ WF_vars(Enqueue) /\ WF_vars(Audio) /\ WF_vars(Advance)

-----------------------------------------------------------------------------
(* Properties.                                                             *)

TypeOK ==
  /\ age \in Seq(0..AgeCap) /\ Changes \in 1..MaxChanges
  /\ stamped \in 0..MaxChanges
  /\ queue \in Seq(1..MaxChanges) /\ Len(queue) <= Capacity
  /\ overrun \in BOOLEAN
  /\ pc \in {"wait", "fetch", "render", "write"}
  /\ next \in 0..MaxChanges /\ control \in 0..MaxChanges /\ heard \in 0..MaxChanges
  /\ samples \in Seq(0..MaxChanges) /\ Len(samples) <= Block
  /\ offset \in 0..Block
  /\ lead \in Int /\ lead >= -MaxLag
  /\ sleep \in Nat /\ phase \in 0..(TickPeriod - 1)

\* The last change whose stamp is not after the sample about to be rendered.
InForce ==
  LET past == {c \in 1..Changes : Past(c)}
  IN  IF past = {} THEN None ELSE CHOOSE c \in past : \A d \in past : d <= c

(* A sample sounds as the ports stood at its time: every change is applied  *)
(* at its own sample position, however the tasks interleave and although the *)
(* audio task runs up to two ticks ahead (docs/VALIDATION.md:370-373).      *)
SampleHearsItsTime ==
  pc = "render" /\ Len(samples) < Block /\ ~Due /\ ~overrun => control = InForce

(* The sound never goes back to a control that was replaced, also when the  *)
(* ring has lost events.                                                    *)
HeardInOrder == [][control <= control' /\ heard <= heard']_vars

(* The ring loses an event only in a burst: one that has waited longer than *)
(* the latency, the lag and a block has been applied.                       *)
LossOnlyInBursts ==
  [][Enqueue /\ Len(queue) = Capacity => age[Head(queue)] <= Latency + MaxLag + Block]_vars

(* What a program leaves the speaker at is what is heard in the end, also   *)
(* when the ring ran over: a machine that is reset falls silent             *)
(* (docs/D2E_SHELL.md:28).                                                  *)
LastChangeHeard == \A c \in 1..MaxChanges : <>[](Changes = c) => <>[](heard = c)
=============================================================================
