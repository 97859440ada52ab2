--------------------------- MODULE SpeakerProofs ---------------------------
(***************************************************************************)
(* Proofs about Speaker: type correctness and the order of what is heard,  *)
(* for every choice of the constants, and that every sample hears its time *)
(* for every latency that covers what the tasks may be early and late.     *)
(***************************************************************************)
EXTENDS Speaker, TLAPS

USE SpeakerAssumption

\* How far ahead of the latency a wait may leave the audio task: it is given
\* whole ticks, and the first of them may end at once.
MaxAhead == IF 2 * TickPeriod - 2 > Early THEN 2 * TickPeriod - 2 ELSE Early

\* The latency covers a change that is queued as late as possible and a block
\* that is rendered as early as possible.
OnTime == Latency >= MaxDelay + MaxAhead + Block

-----------------------------------------------------------------------------
(* The parts of the inductive invariant.                                   *)

\* The changes on their way: those queued, the one fetched, the one applied.
OrderInv ==
  /\ stamped # None => stamped = Changes
  /\ control <= Changes /\ (stamped # None => control < stamped)
  /\ next # None => control < next /\ next <= Changes /\ (stamped # None => next < stamped)
  /\ \A i \in 1..Len(queue) : /\ control < queue[i] /\ next < queue[i]
                              /\ queue[i] <= Changes /\ (stamped # None => queue[i] < stamped)
  /\ \A i, j \in 1..Len(queue) : i < j => queue[i] < queue[j]

\* The block on its way to the DAC.
SoundInv ==
  /\ heard <= control
  /\ pc \in {"render", "write"} => \A i \in 1..Len(samples) : samples[i] <= control
  /\ pc = "render" => \A i \in 1..Len(samples) : heard <= samples[i]
  /\ pc \in {"render", "write"} =>
       \A i, j \in 1..Len(samples) : i <= j => samples[i] <= samples[j]
  /\ pc = "write" => /\ Len(samples) = Block /\ offset < Block
                     /\ \A i \in (offset + 1)..Block : heard <= samples[i]

\* Where the audio task is ahead of its latency, and how far.
LeadInv ==
  /\ pc # "fetch" => sleep = 0
  /\ pc = "fetch" /\ sleep = 0 => lead <= MaxAhead
  /\ pc = "fetch" /\ sleep # 0 => lead <= MaxAhead + sleep * TickPeriod - phase
  /\ pc = "render" => lead <= MaxAhead + Len(samples)
  /\ pc \in {"write", "wait"} => lead <= MaxAhead + Block

\* Stamps are taken in order, and the one not queued yet is recent.
AgeInv ==
  /\ \A c, d \in 1..Changes : c <= d => age[d] <= age[c]
  /\ stamped # None => age[stamped] <= MaxDelay

\* The change behind which the queue starts.
Base == IF next = None THEN control ELSE next

\* As long as no event is lost, nothing is missing between them, and what has
\* not been fetched is later than the rest of the block.
NoLossInv ==
  ~overrun =>
    /\ next # None => next = control + 1
    /\ \A i \in 1..Len(queue) : queue[i] = Base + i
    /\ Base + Len(queue) = IF stamped = None THEN Changes ELSE Changes - 1
    /\ control # None => Past(control)
    /\ pc = "render" /\ next = None =>
         \A c \in 1..Changes : c > control => age[c] + lead <= MaxDelay + MaxAhead + Len(samples)

OrderIInv == TypeOK /\ OrderInv /\ SoundInv
TimeIInv == TypeOK /\ OrderInv /\ LeadInv /\ AgeInv /\ NoLossInv

-----------------------------------------------------------------------------
(* Sequences.                                                              *)

LEMMA Appended ==
  ASSUME NEW X, NEW s \in Seq(X), NEW e \in X
  PROVE  /\ Append(s, e) \in Seq(X)
         /\ Len(Append(s, e)) = Len(s) + 1
         /\ \A i \in 1..Len(s) : Append(s, e)[i] = s[i]
         /\ Append(s, e)[Len(s) + 1] = e
  OBVIOUS

LEMMA Rest ==
  ASSUME NEW X, NEW s \in Seq(X), s # << >>
  PROVE  /\ Tail(s) \in Seq(X) /\ Len(s) \in Nat \ {0}
         /\ Len(Tail(s)) = Len(s) - 1
         /\ Head(s) = s[1] /\ s[1] \in X
         /\ \A i \in 1..Len(Tail(s)) : Tail(s)[i] = s[i + 1]
  OBVIOUS

LEMMA Entries ==
  ASSUME NEW X, NEW s \in Seq(X)
  PROVE  Len(s) \in Nat /\ DOMAIN s = 1..Len(s) /\ \A i \in 1..Len(s) : s[i] \in X
  OBVIOUS

LEMMA FromFunction ==
  ASSUME NEW X, NEW n \in Nat, NEW f \in [1..n -> X]
  PROVE  f \in Seq(X) /\ Len(f) = n
  OBVIOUS

LEMMA EmptySeq ==
  ASSUME NEW X
  PROVE  << >> \in Seq(X) /\ Len(<< >>) = 0
  OBVIOUS

-----------------------------------------------------------------------------
(* Types.                                                                  *)

(* The ages after time has passed.                                          *)
LEMMA Older ==
  ASSUME TypeOK, Advance
  PROVE  /\ age' \in Seq(0..AgeCap) /\ Changes' = Changes
         /\ \A c \in 1..Changes : age'[c] = IF age[c] < AgeCap THEN age[c] + 1 ELSE AgeCap
<1>1. AgeCap \in Nat
  BY DEF AgeCap
<1>2. age \in Seq(0..AgeCap) /\ DOMAIN age = 1..Len(age) /\ Len(age) \in Nat
  BY DEF TypeOK
<1>3. age' = [c \in 1..Len(age) |-> IF age[c] < AgeCap THEN age[c] + 1 ELSE AgeCap]
  BY <1>2 DEF Advance
<1>4. \A c \in 1..Len(age) : age[c] \in 0..AgeCap
  BY <1>2, Entries
<1>5. age' \in [1..Len(age) -> 0..AgeCap]
  BY <1>1, <1>3, <1>4
<1>6. age' \in Seq(0..AgeCap) /\ Len(age') = Len(age)
  BY <1>2, <1>5, FromFunction
<1> QED  BY <1>3, <1>6 DEF Changes

(* What Dequeue leaves.                                                     *)
LEMMA Dequeued ==
  ASSUME TypeOK, Dequeue
  PROVE  /\ next' \in 0..MaxChanges
         /\ queue' \in Seq(1..MaxChanges) /\ Len(queue') <= Capacity
         /\ queue = << >> => next' = None /\ queue' = queue
         /\ queue # << >> => /\ Len(queue) \in Nat \ {0} /\ Len(queue') = Len(queue) - 1
                            /\ next' = queue[1] /\ next' # None
                            /\ \A i \in 1..Len(queue') : queue'[i] = queue[i + 1]
<1>1. queue \in Seq(1..MaxChanges) /\ Len(queue) <= Capacity
  BY DEF TypeOK
<1>2. CASE queue = << >>
  BY <1>1, <1>2 DEF Dequeue, None
<1>3. CASE queue # << >>
  <2>1. next' = Head(queue) /\ queue' = Tail(queue)
    BY <1>3 DEF Dequeue
  <2>2. /\ Tail(queue) \in Seq(1..MaxChanges) /\ Len(queue) \in Nat \ {0}
        /\ Len(Tail(queue)) = Len(queue) - 1
        /\ Head(queue) = queue[1] /\ queue[1] \in 1..MaxChanges
        /\ \A i \in 1..Len(Tail(queue)) : Tail(queue)[i] = queue[i + 1]
    BY <1>1, <1>3, Rest
  <2>3. next' \in 0..MaxChanges /\ next' # None
    BY <2>1, <2>2 DEF None
  <2>4. Len(queue') = Len(queue) - 1 /\ Len(queue') <= Capacity
    BY <1>1, <2>1, <2>2
  <2>5. \A i \in 1..Len(queue') : queue'[i] = queue[i + 1]
    BY <2>1, <2>2
  <2> QED  BY <1>3, <2>1, <2>2, <2>3, <2>4, <2>5
<1> QED  BY <1>2, <1>3

(* What Enqueue leaves: the queue, or the rest of a full one, and the change *)
(* behind it.                                                               *)
LEMMA Enqueued ==
  ASSUME TypeOK, Enqueue
  PROVE  /\ stamped \in 1..MaxChanges
         /\ queue' \in Seq(1..MaxChanges) /\ Len(queue') <= Capacity
         /\ Len(queue) \in Nat
         /\ Len(queue) # Capacity =>
              /\ overrun' = overrun /\ Len(queue') = Len(queue) + 1
              /\ \A i \in 1..Len(queue) : queue'[i] = queue[i]
              /\ queue'[Len(queue) + 1] = stamped
         /\ Len(queue) = Capacity =>
              /\ overrun' /\ Len(queue') = Len(queue)
              /\ \A i \in 1..(Len(queue) - 1) : queue'[i] = queue[i + 1]
              /\ queue'[Len(queue)] = stamped
<1>1. queue \in Seq(1..MaxChanges) /\ Len(queue) <= Capacity /\ Len(queue) \in Nat
  BY DEF TypeOK
<1>2. stamped \in 1..MaxChanges /\ overrun \in BOOLEAN
  BY DEF TypeOK, Enqueue, None
<1>3. CASE Len(queue) # Capacity
  <2>1. queue' = Append(queue, stamped) /\ overrun' = overrun
    BY <1>2, <1>3 DEF Enqueue
  <2>2. /\ Append(queue, stamped) \in Seq(1..MaxChanges)
        /\ Len(Append(queue, stamped)) = Len(queue) + 1
        /\ \A i \in 1..Len(queue) : Append(queue, stamped)[i] = queue[i]
        /\ Append(queue, stamped)[Len(queue) + 1] = stamped
    BY <1>1, <1>2, Appended
  <2> QED  BY <1>1, <1>2, <1>3, <2>1, <2>2
<1>4. CASE Len(queue) = Capacity
  <2> DEFINE rest == Tail(queue)
  <2>1. queue' = Append(rest, stamped) /\ overrun'
    BY <1>4 DEF Enqueue
  <2>2. queue # << >>
    BY <1>1, <1>4
  <2>3. /\ rest \in Seq(1..MaxChanges) /\ Len(rest) = Len(queue) - 1
        /\ \A i \in 1..Len(rest) : rest[i] = queue[i + 1]
    BY <1>1, <2>2, Rest
  <2>4. /\ Append(rest, stamped) \in Seq(1..MaxChanges)
        /\ Len(Append(rest, stamped)) = Len(rest) + 1
        /\ \A i \in 1..Len(rest) : Append(rest, stamped)[i] = rest[i]
        /\ Append(rest, stamped)[Len(rest) + 1] = stamped
    <3> HIDE DEF rest
    <3> QED  BY <1>2, <2>3, Appended
  <2> HIDE DEF rest
  <2> QED  BY <1>1, <1>2, <1>4, <2>1, <2>3, <2>4
<1> QED  BY <1>3, <1>4

LEMMA TypeInit == Init => TypeOK
<1> SUFFICES ASSUME Init PROVE TypeOK
  OBVIOUS
<1>1. AgeCap \in Nat
  BY DEF AgeCap
<1>2. age \in Seq(0..AgeCap) /\ Len(age) = 1
  BY <1>1 DEF Init
<1>3. queue \in Seq(1..MaxChanges) /\ Len(queue) = 0
  BY EmptySeq DEF Init
<1>4. samples \in Seq(0..MaxChanges) /\ Len(samples) = 0
  BY EmptySeq DEF Init
<1>5. Changes \in 1..MaxChanges
  BY <1>2 DEF Changes
<1>6. /\ stamped \in 0..MaxChanges /\ next \in 0..MaxChanges
      /\ control \in 0..MaxChanges /\ heard \in 0..MaxChanges
  BY DEF Init, None
<1>7. lead \in Int /\ lead >= -MaxLag /\ sleep \in Nat /\ offset \in 0..Block
  BY DEF Init
<1>8. /\ pc \in {"wait", "fetch", "render", "write"} /\ overrun \in BOOLEAN
      /\ phase \in 0..(TickPeriod - 1)
  BY DEF Init
<1>9. Len(queue) <= Capacity /\ Len(samples) <= Block
  BY <1>3, <1>4
<1> QED  BY <1>2, <1>3, <1>4, <1>5, <1>6, <1>7, <1>8, <1>9 DEF TypeOK

LEMMA TypeStep == TypeOK /\ SoundInv /\ [Next]_vars => TypeOK'
<1> SUFFICES ASSUME TypeOK, SoundInv, [Next]_vars PROVE TypeOK'
  OBVIOUS
<1> USE DEF TypeOK, None
<1>1. CASE Stamp
  <2>1. AgeCap \in Nat
    BY DEF AgeCap
  <2>2. Append(age, 0) \in Seq(0..AgeCap) /\ Len(Append(age, 0)) = Len(age) + 1
    BY <2>1, Appended
  <2> QED  BY <1>1, <2>2 DEF Stamp, Changes, audio, clock
<1>2. CASE Enqueue
  <2>1. queue' \in Seq(1..MaxChanges) /\ Len(queue') <= Capacity
    BY <1>2, Enqueued
  <2>2. overrun' \in BOOLEAN
    BY <1>2 DEF Enqueue
  <2> QED  BY <1>2, <2>1, <2>2 DEF Enqueue, Changes, audio, clock
<1>3. CASE WaitAhead
  <2>1. lead > Early => lead \div TickPeriod \in Nat
    BY SMT
  <2>2. sleep' \in Nat
    BY <1>3, <2>1 DEF WaitAhead
  <2> QED  BY <1>3, <2>2 DEF WaitAhead, Changes, machine, clock
<1>4. CASE FetchEvent
  <2>1. next' \in 0..MaxChanges /\ queue' \in Seq(1..MaxChanges) /\ Len(queue') <= Capacity
    BY <1>4, Dequeued DEF FetchEvent
  <2>2. samples' \in Seq(0..MaxChanges) /\ Len(samples') = 0
    BY <1>4, EmptySeq DEF FetchEvent
  <2> QED  BY <1>4, <2>1, <2>2 DEF FetchEvent, Changes, machine, clock
<1>5. CASE ApplyEvent
  <2>1. next' \in 0..MaxChanges /\ queue' \in Seq(1..MaxChanges) /\ Len(queue') <= Capacity
    BY <1>5, Dequeued DEF ApplyEvent
  <2> QED  BY <1>5, <2>1 DEF ApplyEvent, Changes, machine, clock
<1>6. CASE RenderSample
  <2>1. Append(samples, control) \in Seq(0..MaxChanges)
        /\ Len(Append(samples, control)) = Len(samples) + 1
    BY Appended
  <2> QED  BY <1>6, <2>1 DEF RenderSample, Changes, machine
<1>7. CASE BlockDone
  BY <1>7 DEF BlockDone, Changes, machine, clock
<1>8. CASE WriteDac
  <2>1. PICK written \in 1..(Block - offset) : offset' = offset + written /\ heard' = samples[offset']
    BY <1>8 DEF WriteDac
  <2>2. offset' \in 1..Block
    BY <2>1
  <2>3. Len(samples) = Block
    BY <1>8 DEF SoundInv, WriteDac
  <2>4. heard' \in 0..MaxChanges
    BY <2>1, <2>2, <2>3, Entries
  <2> QED  BY <1>8, <2>2, <2>4 DEF WriteDac, Changes, machine, clock
<1>9. CASE Advance
  <2>1. age' \in Seq(0..AgeCap) /\ Changes' = Changes
    BY <1>9, Older
  <2>2. phase' \in 0..(TickPeriod - 1)
    BY <1>9, SMT DEF Advance
  <2> QED  BY <1>9, <2>1, <2>2 DEF Advance
<1>10. CASE UNCHANGED vars
  BY <1>10 DEF vars, machine, audio, clock, Changes
<1> QED
  BY <1>1, <1>2, <1>3, <1>4, <1>5, <1>6, <1>7, <1>8, <1>9, <1>10 DEF Next, Machine, Audio

-----------------------------------------------------------------------------
(* The order of what is heard.                                             *)

LEMMA OrderInit == Init => OrderInv /\ SoundInv
<1> SUFFICES ASSUME Init PROVE OrderInv /\ SoundInv
  OBVIOUS
<1>1. Len(queue) = 0 /\ Len(samples) = 0 /\ Changes = 1
  BY EmptySeq DEF Init, Changes
<1> QED  BY <1>1 DEF Init, OrderInv, SoundInv, None

(* The first of the queued changes is behind the one fetched, the rest behind *)
(* the first.                                                               *)
LEMMA FirstTaken ==
  ASSUME TypeOK, OrderInv, Dequeue, queue # << >>
  PROVE  /\ next' \in Nat \ {0} /\ next' = queue[1] /\ Len(queue') \in Nat
         /\ control < next' /\ next < next' /\ next' <= Changes
         /\ (stamped # None => next' < stamped)
         /\ \A i \in 1..Len(queue') : /\ next' < queue'[i] /\ queue'[i] <= Changes
                                      /\ control < queue'[i] /\ next < queue'[i]
                                      /\ (stamped # None => queue'[i] < stamped)
         /\ \A i, j \in 1..Len(queue') : i < j => queue'[i] < queue'[j]
<1>0. Len(queue) \in Nat /\ \A i \in 1..Len(queue) : queue[i] \in Nat \ {0}
  BY Entries DEF TypeOK
<1>1. /\ Len(queue) \in Nat \ {0} /\ Len(queue') = Len(queue) - 1
      /\ next' = queue[1]
      /\ \A i \in 1..Len(queue') : queue'[i] = queue[i + 1]
  BY Dequeued
<1>2. \A i \in 1..Len(queue') : /\ i + 1 \in 1..Len(queue) /\ queue'[i] = queue[i + 1]
                                /\ 1 < i + 1 /\ 1 \in 1..Len(queue)
  BY <1>1
<1>3. ASSUME NEW i \in 1..Len(queue')
      PROVE  /\ next' < queue'[i] /\ queue'[i] <= Changes
             /\ control < queue'[i] /\ next < queue'[i]
             /\ (stamped # None => queue'[i] < stamped)
  <2>1. queue[1] < queue[i + 1]
    BY <1>2 DEF OrderInv
  <2> QED  BY <1>1, <1>2, <2>1 DEF OrderInv
<1>4. ASSUME NEW i \in 1..Len(queue'), NEW j \in 1..Len(queue'), i < j
      PROVE  queue'[i] < queue'[j]
  <2>1. i + 1 \in 1..Len(queue) /\ j + 1 \in 1..Len(queue) /\ i + 1 < j + 1
    BY <1>2, <1>4
  <2>2. queue[i + 1] < queue[j + 1]
    BY <2>1 DEF OrderInv
  <2> QED  BY <1>2, <2>2
<1>5. 1 \in 1..Len(queue)
  BY <1>1
<1>6. control < next' /\ next < next' /\ next' <= Changes /\ (stamped # None => next' < stamped)
  BY <1>1, <1>5 DEF OrderInv
<1>7. next' \in Nat \ {0} /\ Len(queue') \in Nat
  BY <1>0, <1>1, <1>5
<1> QED  BY <1>1, <1>3, <1>4, <1>6, <1>7

LEMMA OrderStep == TypeOK /\ OrderInv /\ [Next]_vars => OrderInv'
<1> SUFFICES ASSUME TypeOK, OrderInv, [Next]_vars PROVE OrderInv'
  OBVIOUS
<1>0. /\ Changes \in Nat /\ control \in Nat /\ next \in Nat /\ stamped \in Nat
      /\ Len(queue) \in Nat /\ \A i \in 1..Len(queue) : queue[i] \in Nat \ {0}
  BY Entries DEF TypeOK
<1>a. ASSUME UNCHANGED <<stamped, queue, next, control>>, Changes' = Changes PROVE OrderInv'
  BY <1>a DEF OrderInv
<1>1. CASE Stamp
  <2>1. Changes' = Changes + 1 /\ stamped' = Changes' /\ stamped = None
    <3>1. AgeCap \in Nat  BY DEF AgeCap
    <3>2. Len(Append(age, 0)) = Len(age) + 1
      BY <3>1, Appended DEF TypeOK
    <3> QED  BY <1>1, <3>2 DEF Stamp, Changes
  <2>2. UNCHANGED <<queue, next, control>>
    BY <1>1 DEF Stamp, audio
  <2> QED  BY <1>0, <2>1, <2>2 DEF OrderInv
<1>2. CASE Enqueue
  <2>1. UNCHANGED <<next, control>> /\ stamped # None /\ stamped' = None /\ Changes' = Changes
    BY <1>2 DEF Enqueue, audio, Changes
  <2>2. stamped = Changes /\ control < stamped /\ next < stamped
    BY <1>0, <2>1 DEF OrderInv, None
  <2>3. CASE Len(queue) # Capacity
    <3>1. /\ Len(queue') = Len(queue) + 1
          /\ \A i \in 1..Len(queue) : queue'[i] = queue[i]
          /\ queue'[Len(queue) + 1] = stamped
      BY <1>2, <2>3, Enqueued
    <3>2. \A i \in 1..Len(queue') : i \in 1..Len(queue) \/ i = Len(queue) + 1
      BY <1>0, <3>1
    <3>3. \A i \in 1..Len(queue) : /\ queue'[i] = queue[i]
                                   /\ control < queue[i] /\ next < queue[i]
                                   /\ queue[i] <= Changes /\ queue[i] < stamped
      BY <2>1, <3>1 DEF OrderInv
    <3>4. \A i \in 1..Len(queue') : control < queue'[i] /\ next < queue'[i] /\ queue'[i] <= Changes
      BY <1>0, <2>2, <3>1, <3>2, <3>3
    <3>5. \A i, j \in 1..Len(queue') : i < j => queue'[i] < queue'[j]
      <4> SUFFICES ASSUME NEW i \in 1..Len(queue'), NEW j \in 1..Len(queue'), i < j
                   PROVE  queue'[i] < queue'[j]
        OBVIOUS
      <4>1. i \in 1..Len(queue)
        BY <1>0, <3>1
      <4>2. CASE j \in 1..Len(queue)
        BY <1>0, <3>3, <4>1, <4>2 DEF OrderInv
      <4>3. CASE j = Len(queue) + 1
        BY <3>1, <3>3, <4>1, <4>3
      <4> QED  BY <3>2, <4>2, <4>3
    <3> QED  BY <1>0, <2>1, <2>2, <3>4, <3>5 DEF OrderInv
  <2>4. CASE Len(queue) = Capacity
    <3>1. /\ Len(queue') = Len(queue)
          /\ \A i \in 1..(Len(queue) - 1) : queue'[i] = queue[i + 1]
          /\ queue'[Len(queue)] = stamped
      BY <1>2, <2>4, Enqueued
    <3>2. \A i \in 1..(Len(queue) - 1) : i + 1 \in 1..Len(queue) /\ queue'[i] = queue[i + 1]
      BY <1>0, <3>1
    <3>3. \A i \in 1..Len(queue') : i \in 1..(Len(queue) - 1) \/ i = Len(queue)
      BY <1>0, <3>1
    <3>4. \A i \in 1..Len(queue) : /\ control < queue[i] /\ next < queue[i]
                                   /\ queue[i] <= Changes /\ queue[i] < stamped
      BY <2>1 DEF OrderInv
    <3>5. \A i \in 1..Len(queue') : control < queue'[i] /\ next < queue'[i] /\ queue'[i] <= Changes
      BY <1>0, <2>2, <3>1, <3>2, <3>3, <3>4
    <3>6. \A i, j \in 1..Len(queue') : i < j => queue'[i] < queue'[j]
      <4> SUFFICES ASSUME NEW i \in 1..Len(queue'), NEW j \in 1..Len(queue'), i < j
                   PROVE  queue'[i] < queue'[j]
        OBVIOUS
      <4>1. i \in 1..(Len(queue) - 1)
        BY <1>0, <3>1
      <4>2. CASE j \in 1..(Len(queue) - 1)
        <5>1. queue[i + 1] < queue[j + 1]
          BY <1>0, <3>2, <4>1, <4>2 DEF OrderInv
        <5> QED  BY <3>2, <4>1, <4>2, <5>1
      <4>3. CASE j = Len(queue)
        BY <3>1, <3>2, <3>4, <4>1, <4>3
      <4> QED  BY <3>3, <4>2, <4>3
    <3> QED  BY <1>0, <2>1, <2>2, <3>5, <3>6 DEF OrderInv
  <2> QED  BY <2>3, <2>4
<1>3. CASE WaitAhead
  BY <1>3, <1>a DEF WaitAhead, machine, Changes
<1>4. CASE FetchEvent
  <2>1. UNCHANGED <<stamped, control>> /\ Changes' = Changes
    BY <1>4 DEF FetchEvent, machine, Changes
  <2>2. CASE next # None \/ queue = << >>
    <3>1. UNCHANGED <<next, queue>>
      BY <1>4, <2>2, Dequeued DEF FetchEvent
    <3> QED  BY <1>a, <2>1, <3>1
  <2>3. CASE next = None /\ queue # << >>
    <3>1. Dequeue /\ queue # << >>
      BY <1>4, <2>3 DEF FetchEvent
    <3> QED  BY <1>0, <2>1, <3>1, FirstTaken DEF OrderInv
  <2> QED  BY <2>2, <2>3
<1>5. CASE ApplyEvent
  <2>1. UNCHANGED stamped /\ Changes' = Changes /\ control' = next /\ next # None /\ Dequeue
    BY <1>5 DEF ApplyEvent, machine, Changes, Due
  <2>2. CASE queue = << >>
    <3>1. next' = None /\ Len(queue') = 0 /\ None = 0
      BY <2>1, <2>2, Dequeued DEF None
    <3> QED  BY <1>0, <2>1, <3>1 DEF OrderInv
  <2>3. CASE queue # << >>
    <3>1. Dequeue /\ queue # << >>
      BY <2>1, <2>3
    <3> QED  BY <1>0, <2>1, <3>1, FirstTaken DEF OrderInv
  <2> QED  BY <2>2, <2>3
<1>6. CASE RenderSample \/ BlockDone \/ WriteDac
  BY <1>6, <1>a DEF RenderSample, BlockDone, WriteDac, machine, Changes
<1>7. CASE Advance
  BY <1>7, <1>a, Older DEF Advance
<1>8. CASE UNCHANGED vars
  BY <1>8, <1>a DEF vars, machine, audio, Changes
<1> QED
  BY <1>1, <1>2, <1>3, <1>4, <1>5, <1>6, <1>7, <1>8 DEF Next, Machine, Audio

LEMMA SoundStep == TypeOK /\ OrderInv /\ SoundInv /\ [Next]_vars => SoundInv'
<1> SUFFICES ASSUME TypeOK, OrderInv, SoundInv, [Next]_vars PROVE SoundInv'
  OBVIOUS
<1>0. /\ heard \in Nat /\ control \in Nat /\ next \in Nat /\ offset \in Nat
      /\ Len(samples) \in Nat /\ \A i \in 1..Len(samples) : samples[i] \in Nat
  BY Entries DEF TypeOK
<1>a. ASSUME UNCHANGED <<pc, control, samples, offset, heard>> PROVE SoundInv'
  BY <1>a DEF SoundInv
<1>1. CASE Machine \/ Advance \/ UNCHANGED vars
  BY <1>1, <1>a DEF Machine, Stamp, Enqueue, Advance, vars, audio
<1>2. CASE WaitAhead
  BY <1>2 DEF WaitAhead, SoundInv
<1>3. CASE FetchEvent
  <2>1. Len(samples') = 0 /\ pc' = "render" /\ UNCHANGED <<heard, control>>
    BY <1>3, EmptySeq DEF FetchEvent
  <2> QED  BY <2>1 DEF SoundInv
<1>4. CASE ApplyEvent
  <2>1. control' = next /\ control < next /\ pc = "render" /\ UNCHANGED <<pc, samples, offset, heard>>
    BY <1>4 DEF ApplyEvent, Due, OrderInv
  <2> QED  BY <1>0, <2>1 DEF SoundInv
<1>5. CASE RenderSample
  <2>1. /\ Len(samples') = Len(samples) + 1
        /\ \A i \in 1..Len(samples) : samples'[i] = samples[i]
        /\ samples'[Len(samples) + 1] = control
    BY <1>5, Appended DEF RenderSample, TypeOK
  <2>2. pc = "render" /\ UNCHANGED <<pc, control, heard>>
    BY <1>5 DEF RenderSample
  <2> QED  BY <1>0, <2>1, <2>2 DEF SoundInv
<1>6. CASE BlockDone
  <2>1. pc = "render" /\ Len(samples) = Block /\ pc' = "write" /\ offset' = 0
        /\ UNCHANGED <<control, samples, heard>>
    BY <1>6 DEF BlockDone
  <2> QED  BY <2>1 DEF SoundInv
<1>7. CASE WriteDac
  <2>1. PICK written \in 1..(Block - offset) : offset' = offset + written /\ heard' = samples[offset']
    BY <1>7 DEF WriteDac
  <2>2. /\ pc = "write" /\ pc' = (IF offset' = Block THEN "wait" ELSE "write")
        /\ UNCHANGED <<control, samples>>
    BY <1>7 DEF WriteDac
  <2>3. offset' \in 1..Block /\ Len(samples) = Block
    BY <1>0, <2>1, <2>2 DEF SoundInv
  <2> QED  BY <1>0, <2>1, <2>2, <2>3 DEF SoundInv
<1> QED
  BY <1>1, <1>2, <1>3, <1>4, <1>5, <1>6, <1>7 DEF Next, Audio

THEOREM OrderInductive == Spec => []OrderIInv
<1>1. Init => OrderIInv
  BY TypeInit, OrderInit DEF OrderIInv
<1>2. OrderIInv /\ [Next]_vars => OrderIInv'
  BY TypeStep, OrderStep, SoundStep DEF OrderIInv
<1> QED  BY <1>1, <1>2, PTL DEF Spec

(* Every variable of the two tasks keeps its type, for every size of the ring *)
(* and every timing: the ring never holds more than it has room for.        *)
THEOREM TypeCorrect == Spec => []TypeOK
<1>1. OrderIInv => TypeOK
  BY DEF OrderIInv
<1> QED  BY <1>1, OrderInductive, PTL

(* The sound never goes back to a control that was replaced, whatever the   *)
(* timing and however many events the ring has lost.                        *)
THEOREM NothingHeardTwice == Spec => HeardInOrder
<1>1. OrderIInv /\ OrderIInv' /\ [Next]_vars => [control <= control' /\ heard <= heard']_vars
  <2> SUFFICES ASSUME OrderIInv, OrderIInv', Next
               PROVE  control <= control' /\ heard <= heard'
    OBVIOUS
  <2>0. heard \in Nat /\ control \in Nat /\ next \in Nat /\ offset \in Nat
    BY DEF OrderIInv, TypeOK
  <2>1. CASE ApplyEvent
    <3>1. control' = next /\ control < next /\ heard' = heard
      BY <2>1 DEF ApplyEvent, Due, OrderIInv, OrderInv
    <3> QED  BY <2>0, <3>1
  <2>2. CASE WriteDac
    <3>1. PICK written \in 1..(Block - offset) : offset' = offset + written /\ heard' = samples[offset']
      BY <2>2 DEF WriteDac
    <3>2. \A i \in (offset + 1)..Block : heard <= samples[i]
      BY <2>2 DEF WriteDac, OrderIInv, SoundInv
    <3>3. control' = control
      BY <2>2 DEF WriteDac
    <3> QED  BY <2>0, <3>1, <3>2, <3>3
  <2>3. CASE Machine \/ WaitAhead \/ FetchEvent \/ RenderSample \/ BlockDone \/ Advance
    <3>1. UNCHANGED <<control, heard>>
      BY <2>3 DEF Machine, Stamp, Enqueue, WaitAhead, FetchEvent, RenderSample, BlockDone, Advance, audio
    <3> QED  BY <2>0, <3>1
  <2> QED  BY <2>1, <2>2, <2>3 DEF Next, Audio
<1> QED  BY <1>1, OrderInductive, PTL DEF Spec, HeardInOrder

-----------------------------------------------------------------------------
(* How far ahead the audio task renders.                                   *)

LEMMA LeadInit == Init => LeadInv
<1>1. MaxAhead \in Nat
  BY DEF MaxAhead
<1> QED  BY <1>1 DEF Init, LeadInv

(* The first of the ticks waited for may end at once, the rest take a whole *)
(* period each.                                                             *)
LEMMA WholeTicks ==
  ASSUME NEW w \in Nat, NEW p \in 0..(TickPeriod - 1)
  PROVE  /\ w \div TickPeriod \in Nat
         /\ w \div TickPeriod = 0 => w <= MaxAhead
         /\ w <= MaxAhead + (w \div TickPeriod) * TickPeriod - p
<1>1. /\ w \div TickPeriod \in Nat
      /\ w <= (w \div TickPeriod) * TickPeriod + TickPeriod - 1
  BY SMT
<1>2. 2 * TickPeriod - 2 <= MaxAhead /\ MaxAhead \in Nat
  BY DEF MaxAhead
<1> DEFINE n == (w \div TickPeriod) * TickPeriod
<1>3. n \in Nat /\ (w \div TickPeriod = 0 => n = 0)
  BY <1>1
<1> HIDE DEF n
<1> QED  BY <1>1, <1>2, <1>3 DEF n

(* Time passes for the sleeper as for everybody.                            *)
LEMMA TickCounted ==
  ASSUME NEW n \in Nat, n # 0
  PROVE  (n - 1) * TickPeriod = n * TickPeriod - TickPeriod /\ n * TickPeriod \in Nat
  BY SMT

LEMMA LeadStep == TypeOK /\ LeadInv /\ [Next]_vars => LeadInv'
<1> SUFFICES ASSUME TypeOK, LeadInv, [Next]_vars PROVE LeadInv'
  OBVIOUS
<1>0. /\ MaxAhead \in Nat /\ lead \in Int /\ sleep \in Nat /\ phase \in 0..(TickPeriod - 1)
      /\ Len(samples) \in Nat /\ Len(samples) <= Block
  BY DEF MaxAhead, TypeOK
<1>1. CASE Machine \/ UNCHANGED vars
  BY <1>1 DEF Machine, Stamp, Enqueue, vars, audio, clock, LeadInv
<1>2. CASE WaitAhead
  <2>1. pc' = "fetch" /\ UNCHANGED <<lead, phase>>
    BY <1>2 DEF WaitAhead, clock
  <2>2. CASE lead > Early
    <3>1. sleep' = lead \div TickPeriod
      BY <1>2, <2>2 DEF WaitAhead
    <3>2. lead \in Nat
      BY <1>0, <2>2
    <3> QED  BY <1>0, <2>1, <3>1, <3>2, WholeTicks DEF LeadInv
  <2>3. CASE ~(lead > Early)
    <3>1. sleep' = 0
      BY <1>2, <2>3 DEF WaitAhead
    <3>2. lead <= MaxAhead
      BY <1>0, <2>3 DEF MaxAhead
    <3> QED  BY <2>1, <3>1, <3>2 DEF LeadInv, MaxAhead
  <2> QED  BY <2>2, <2>3
<1>3. CASE FetchEvent
  <2>1. Len(samples') = 0
    BY <1>3, EmptySeq DEF FetchEvent
  <2> QED  BY <1>0, <1>3, <2>1 DEF FetchEvent, clock, LeadInv, MaxAhead
<1>4. CASE ApplyEvent
  BY <1>4 DEF ApplyEvent, clock, LeadInv, MaxAhead
<1>5. CASE RenderSample
  <2>1. Len(samples') = Len(samples) + 1
    BY <1>5, Appended DEF RenderSample, TypeOK
  <2> QED  BY <1>0, <1>5, <2>1 DEF RenderSample, LeadInv, MaxAhead
<1>6. CASE BlockDone
  BY <1>6 DEF BlockDone, clock, LeadInv, MaxAhead
<1>7. CASE WriteDac
  BY <1>7 DEF WriteDac, clock, LeadInv, MaxAhead
<1>8. CASE Advance
  <2>1. lead' = lead - 1 /\ UNCHANGED <<pc, samples>>
    BY <1>8 DEF Advance
  <2>2. phase' = IF phase + 1 < TickPeriod THEN phase + 1 ELSE 0
    BY <1>0, <1>8, SMT DEF Advance
  <2>3. sleep' = IF phase' = 0 /\ sleep > 0 THEN sleep - 1 ELSE sleep
    BY <1>8 DEF Advance
  <2>4. CASE sleep = 0
    <3>1. sleep' = 0
      BY <2>3, <2>4
    <3> QED  BY <1>0, <2>1, <2>4, <3>1 DEF LeadInv, MaxAhead
  <2>5. CASE sleep # 0
    <3>1. pc = "fetch" /\ lead <= MaxAhead + sleep * TickPeriod - phase
      BY <1>0, <2>5 DEF LeadInv
    <3>2. (sleep - 1) * TickPeriod = sleep * TickPeriod - TickPeriod /\ sleep * TickPeriod \in Nat
      BY <1>0, <2>5, TickCounted
    <3> DEFINE n == sleep * TickPeriod
    <3>3. CASE phase + 1 < TickPeriod
      <4>1. sleep' = sleep /\ phase' = phase + 1
        BY <1>0, <2>2, <2>3, <3>3
      <4>2. lead' <= MaxAhead + n - phase'
        <5> HIDE DEF n
        <5> QED  BY <1>0, <2>1, <3>1, <3>2, <4>1 DEF n
      <4> QED  BY <2>1, <2>5, <3>1, <4>1, <4>2 DEF LeadInv, MaxAhead
    <3>4. CASE ~(phase + 1 < TickPeriod)
      <4>1. sleep' = sleep - 1 /\ phase' = 0 /\ phase = TickPeriod - 1
        BY <1>0, <2>2, <2>3, <2>5, <3>4
      <4>2. lead' <= MaxAhead + (sleep - 1) * TickPeriod - phase'
        <5>1. lead' <= MaxAhead + (n - TickPeriod)
          <6>1. n \in Nat /\ lead <= MaxAhead + n - phase
            BY <3>1, <3>2
          <6> HIDE DEF n
          <6> QED  BY <1>0, <2>1, <4>1, <6>1
        <5> QED  BY <3>2, <4>1, <5>1
      <4>3. sleep - 1 = 0 => (sleep - 1) * TickPeriod = 0
        OBVIOUS
      <4> QED  BY <1>0, <2>1, <3>1, <4>1, <4>2, <4>3 DEF LeadInv, MaxAhead
    <3> QED  BY <3>3, <3>4
  <2> QED  BY <2>4, <2>5
<1> QED
  BY <1>1, <1>2, <1>3, <1>4, <1>5, <1>6, <1>7, <1>8 DEF Next, Audio

-----------------------------------------------------------------------------
(* Stamps.                                                                 *)

LEMMA AgeTyped == TypeOK => /\ AgeCap \in Nat /\ Changes \in Nat \ {0}
                            /\ \A c \in 1..Changes : age[c] \in 0..AgeCap
<1> SUFFICES ASSUME TypeOK
             PROVE  /\ AgeCap \in Nat /\ Changes \in Nat \ {0}
                    /\ \A c \in 1..Changes : age[c] \in 0..AgeCap
  OBVIOUS
<1>1. AgeCap \in Nat
  BY DEF AgeCap
<1>2. age \in Seq(0..AgeCap) /\ Changes \in Nat \ {0}
  BY DEF TypeOK
<1>3. \A c \in 1..Len(age) : age[c] \in 0..AgeCap
  BY <1>2, Entries
<1> QED  BY <1>1, <1>2, <1>3 DEF Changes

(* The ages after one more change has been stamped.                         *)
LEMMA Stamped ==
  ASSUME TypeOK, Stamp
  PROVE  /\ Changes' = Changes + 1 /\ stamped' = Changes + 1 /\ stamped = None
         /\ \A c \in 1..Changes : age'[c] = age[c]
         /\ age'[Changes + 1] = 0
<1>1. age \in Seq(0..AgeCap) /\ 0 \in 0..AgeCap
  BY DEF TypeOK, AgeCap
<1>2. /\ Len(Append(age, 0)) = Len(age) + 1
      /\ \A c \in 1..Len(age) : Append(age, 0)[c] = age[c]
      /\ Append(age, 0)[Len(age) + 1] = 0
  BY <1>1, Appended
<1> QED  BY <1>2 DEF Stamp, Changes

LEMMA AgeInit == Init => AgeInv
<1> SUFFICES ASSUME Init PROVE AgeInv
  OBVIOUS
<1>1. age = <<0>> /\ stamped = None /\ Changes = 1
  BY DEF Init, Changes
<1>2. \A c \in 1..Changes : age[c] = 0
  BY <1>1
<1> QED  BY <1>1, <1>2 DEF AgeInv

LEMMA AgeStep == TypeOK /\ OrderInv /\ AgeInv /\ [Next]_vars => AgeInv'
<1> SUFFICES ASSUME TypeOK, OrderInv, AgeInv, [Next]_vars PROVE AgeInv'
  OBVIOUS
<1>0. /\ AgeCap \in Nat /\ Changes \in Nat \ {0}
      /\ \A c \in 1..Changes : age[c] \in 0..AgeCap
  BY AgeTyped
<1>1. CASE Stamp
  <2>1. /\ Changes' = Changes + 1 /\ stamped' = Changes + 1
        /\ \A c \in 1..Changes : age'[c] = age[c]
        /\ age'[Changes + 1] = 0
    BY <1>1, Stamped
  <2>2. \A c \in 1..Changes' : c \in 1..Changes \/ c = Changes + 1
    BY <1>0, <2>1
  <2> QED  BY <1>0, <2>1, <2>2 DEF AgeInv
<1>2. CASE Advance
  <2>1. /\ Changes' = Changes /\ stamped' = stamped
        /\ \A c \in 1..Changes : age'[c] = IF age[c] < AgeCap THEN age[c] + 1 ELSE AgeCap
    BY <1>2, Older DEF Advance
  <2>2. stamped # None => age'[stamped] <= MaxDelay
    <3> SUFFICES ASSUME stamped # None PROVE age'[stamped] <= MaxDelay
      OBVIOUS
    <3>1. stamped \in 1..Changes
      BY <1>0 DEF OrderInv
    <3>2. age[stamped] < MaxDelay
      BY <1>2 DEF Advance
    <3> QED  BY <1>0, <2>1, <3>1, <3>2
  <2>3. ASSUME NEW c \in 1..Changes, NEW d \in 1..Changes, c <= d PROVE age'[d] <= age'[c]
    <3>1. age[d] <= age[c]
      BY <2>3 DEF AgeInv
    <3> QED  BY <1>0, <2>1, <3>1
  <2> QED  BY <2>1, <2>2, <2>3 DEF AgeInv
<1>3. CASE Enqueue
  BY <1>3 DEF Enqueue, AgeInv, Changes
<1>4. CASE Audio \/ UNCHANGED vars
  <2>1. UNCHANGED <<age, stamped>>
    BY <1>4 DEF Audio, WaitAhead, FetchEvent, ApplyEvent, RenderSample, BlockDone, WriteDac, vars, machine
  <2> QED  BY <2>1 DEF AgeInv, Changes
<1> QED  BY <1>1, <1>2, <1>3, <1>4 DEF Next, Machine

-----------------------------------------------------------------------------
(* Nothing is missing between what is applied and what is stamped.         *)

LEMMA NoLossInit == Init => NoLossInv
<1> SUFFICES ASSUME Init PROVE NoLossInv
  OBVIOUS
<1>1. Len(queue) = 0 /\ Changes = 1
  BY EmptySeq DEF Init, Changes
<1> QED  BY <1>1 DEF Init, NoLossInv, Base, None

(* A change that is past stays past, and one that is ahead of the block stays *)
(* ahead: an age grows as the lead shrinks.                                 *)
LEMMA PastStays ==
  ASSUME TypeOK, Advance, NEW c \in 1..Changes
  PROVE  /\ Past(c) => Past(c)'
         /\ age'[c] + lead' <= age[c] + lead
<1>1. AgeCap \in Nat /\ age[c] \in 0..AgeCap
  BY AgeTyped
<1>2. age'[c] = IF age[c] < AgeCap THEN age[c] + 1 ELSE AgeCap
  BY Older
<1>3. lead' = lead - 1 /\ lead \in Int /\ lead > -MaxLag
  BY DEF Advance, TypeOK
<1>4. Latency - lead' <= AgeCap
  BY <1>3 DEF AgeCap
<1> QED  BY <1>1, <1>2, <1>3, <1>4 DEF Past

LEMMA NoLossStep == TypeOK /\ OrderInv /\ LeadInv /\ AgeInv /\ NoLossInv /\ [Next]_vars => NoLossInv'
<1> SUFFICES ASSUME TypeOK, OrderInv, LeadInv, AgeInv, NoLossInv, [Next]_vars, ~overrun'
             PROVE  NoLossInv'
  BY DEF NoLossInv
<1>0. /\ Changes \in Nat \ {0} /\ control \in Nat /\ next \in Nat /\ stamped \in Nat
      /\ Len(queue) \in Nat /\ lead \in Int /\ Len(samples) \in Nat
      /\ \A i \in 1..Len(queue) : queue[i] \in Nat \ {0}
      /\ \A c \in 1..Changes : age[c] \in Nat
      /\ MaxAhead \in Nat
  BY Entries, AgeTyped DEF TypeOK, MaxAhead
<1>b. ~overrun
  BY DEF Next, Machine, Audio, Stamp, Enqueue, WaitAhead, FetchEvent, ApplyEvent, RenderSample,
         BlockDone, WriteDac, Advance, vars, machine
<1>c. /\ next # None => next = control + 1
      /\ \A i \in 1..Len(queue) : queue[i] = Base + i
      /\ Base + Len(queue) = IF stamped = None THEN Changes ELSE Changes - 1
      /\ control # None => Past(control) /\ control \in 1..Changes
      /\ pc = "render" /\ next = None =>
           \A c \in 1..Changes : c > control => age[c] + lead <= MaxDelay + MaxAhead + Len(samples)
  BY <1>0, <1>b DEF NoLossInv, OrderInv, None
<1>a. ASSUME UNCHANGED <<age, stamped, queue, next, control, lead>>,
             pc' = "render" /\ next = None => pc = "render" /\ samples' = samples
      PROVE  NoLossInv'
  BY <1>b, <1>a DEF NoLossInv, Base, Changes, Past
<1>1. CASE Stamp
  <2>1. /\ Changes' = Changes + 1 /\ stamped' = Changes + 1 /\ stamped = None
        /\ \A c \in 1..Changes : age'[c] = age[c]
        /\ age'[Changes + 1] = 0
    BY <1>1, Stamped
  <2>2. UNCHANGED <<queue, next, control, samples, pc, lead>>
    BY <1>1 DEF Stamp, audio, clock
  <2>3. Base' = Base
    BY <2>2 DEF Base
  <2>4. control # None => Past(control)'
    BY <1>c, <2>1, <2>2 DEF Past
  <2>5. ASSUME pc = "render", next = None, NEW c \in 1..Changes', c > control
        PROVE  age'[c] + lead <= MaxDelay + MaxAhead + Len(samples)
    <3>1. CASE c \in 1..Changes
      BY <1>c, <2>1, <2>5, <3>1
    <3>2. CASE c = Changes + 1
      <4>1. lead <= MaxAhead + Len(samples)
        BY <2>5 DEF LeadInv
      <4> QED  BY <1>0, <2>1, <3>2, <4>1
    <3> QED  BY <1>0, <2>1, <3>1, <3>2
  <2>6. Base + Len(queue) = Changes' - 1 /\ stamped' # None
    BY <1>0, <1>c, <2>1 DEF None
  <2> QED  BY <1>c, <2>2, <2>3, <2>4, <2>5, <2>6 DEF NoLossInv
<1>2. CASE Enqueue
  <2>1. UNCHANGED <<age, next, control, samples, pc, lead>> /\ stamped' = None /\ stamped # None
        /\ Changes' = Changes /\ Base' = Base
    BY <1>2 DEF Enqueue, audio, clock, Changes, Base
  <2>2. stamped = Changes /\ Base + Len(queue) = Changes - 1
    BY <1>c, <2>1 DEF OrderInv
  <2>3. Len(queue) # Capacity
    BY <1>2, Enqueued
  <2>4. /\ Len(queue') = Len(queue) + 1
        /\ \A i \in 1..Len(queue) : queue'[i] = queue[i]
        /\ queue'[Len(queue) + 1] = stamped
    BY <1>2, <2>3, Enqueued
  <2>5. Base \in Nat
    BY <1>0 DEF Base
  <2>6. \A i \in 1..Len(queue') : queue'[i] = Base + i
    <3>1. \A i \in 1..Len(queue') : i \in 1..Len(queue) \/ i = Len(queue) + 1
      BY <1>0, <2>4
    <3>2. stamped = Base + (Len(queue) + 1)
      BY <1>0, <2>2, <2>5
    <3> QED  BY <1>c, <2>4, <3>1, <3>2
  <2>7. Base + Len(queue') = Changes
    BY <1>0, <2>2, <2>4, <2>5
  <2>8. control # None => Past(control)'
    BY <1>c, <2>1 DEF Past
  <2> QED  BY <1>c, <2>1, <2>6, <2>7, <2>8 DEF NoLossInv
<1>3. CASE WaitAhead \/ BlockDone \/ WriteDac \/ UNCHANGED vars
  BY <1>3, <1>a DEF WaitAhead, BlockDone, WriteDac, vars, machine, audio, clock
<1>4. CASE RenderSample
  <2>1. Len(samples') = Len(samples) + 1
    BY <1>4, Appended DEF RenderSample, TypeOK
  <2>2. UNCHANGED <<age, stamped, queue, next, control, pc>> /\ lead' = lead + 1
        /\ Changes' = Changes /\ Base' = Base
    BY <1>4 DEF RenderSample, machine, Changes, Base
  <2>3. control # None => Past(control)'
    BY <1>0, <1>c, <2>2 DEF Past
  <2> QED  BY <1>0, <1>c, <2>1, <2>2, <2>3 DEF NoLossInv
<1>5. CASE Advance
  <2>1. UNCHANGED <<stamped, queue, next, control, pc, samples>> /\ Changes' = Changes /\ Base' = Base
    BY <1>5, Older DEF Advance, Base
  <2>2. control # None => Past(control)'
    BY <1>5, <1>c, <2>1, PastStays DEF Past
  <2>3. \A c \in 1..Changes : age'[c] + lead' <= age[c] + lead /\ age'[c] + lead' \in Int
    <3>1. AgeCap \in Nat /\ \A c \in 1..Changes : age'[c] \in Int
      BY <1>0, <1>5, AgeTyped, Older
    <3>2. lead' \in Int
      BY <1>0, <1>5 DEF Advance
    <3> QED  BY <1>5, <3>1, <3>2, PastStays
  <2>4. ASSUME pc = "render", next = None, NEW c \in 1..Changes, c > control
        PROVE  age'[c] + lead' <= MaxDelay + MaxAhead + Len(samples)
    <3>1. age[c] + lead <= MaxDelay + MaxAhead + Len(samples)
      BY <1>c, <2>4
    <3> QED  BY <1>0, <2>3, <3>1
  <2> QED  BY <1>c, <2>1, <2>2, <2>4 DEF NoLossInv
<1>6. CASE FetchEvent
  <2>1. UNCHANGED <<age, stamped, control, lead>> /\ Changes' = Changes /\ samples' = << >>
        /\ pc = "fetch" /\ sleep = 0
    BY <1>6 DEF FetchEvent, machine, clock, Changes
  <2>2. control # None => Past(control)'
    BY <1>c, <2>1 DEF Past
  <2>3. CASE next # None
    <3>1. UNCHANGED <<next, queue>> /\ Base' = Base
      BY <1>6, <2>1, <2>3 DEF FetchEvent, Base
    <3> QED  BY <1>c, <2>1, <2>2, <2>3, <3>1 DEF NoLossInv
  <2>4. CASE next = None /\ queue # << >>
    <3>1. /\ Len(queue) \in Nat \ {0} /\ Len(queue') = Len(queue) - 1
          /\ next' = queue[1] /\ next' # None
          /\ \A i \in 1..Len(queue') : queue'[i] = queue[i + 1]
      BY <1>6, <2>4, Dequeued DEF FetchEvent
    <3>2. Base = control
      BY <2>4 DEF Base
    <3>3. next' = control + 1 /\ Base' = control + 1
      BY <1>c, <2>1, <3>1, <3>2 DEF Base
    <3>4. \A i \in 1..Len(queue') : queue'[i] = Base' + i
      BY <1>0, <1>c, <3>1, <3>2, <3>3
    <3>5. Base' + Len(queue') = Base + Len(queue)
      BY <1>0, <3>1, <3>2, <3>3
    <3> QED  BY <1>c, <2>1, <2>2, <3>1, <3>3, <3>4, <3>5 DEF NoLossInv
  <2>5. CASE next = None /\ queue = << >>
    <3>1. UNCHANGED <<next, queue>> /\ Base' = Base /\ Base = control /\ Len(queue) = 0
      BY <1>6, <2>1, <2>5, Dequeued, EmptySeq DEF FetchEvent, Base
    <3>2. ASSUME NEW c \in 1..Changes, c > control
          PROVE  age[c] + lead <= MaxDelay + MaxAhead
      <4>1. stamped # None /\ c = stamped
        BY <1>0, <1>c, <3>1, <3>2 DEF OrderInv
      <4>2. age[c] <= MaxDelay /\ lead <= MaxAhead
        BY <2>1, <4>1 DEF AgeInv, LeadInv
      <4> QED  BY <1>0, <4>2
    <3>3. Len(samples') = 0
      BY <2>1, EmptySeq
    <3>4. \A c \in 1..Changes : c > control => age[c] + lead <= MaxDelay + MaxAhead + Len(samples')
      BY <1>0, <3>2, <3>3
    <3> QED  BY <1>c, <2>1, <2>2, <2>5, <3>1, <3>4 DEF NoLossInv
  <2> QED  BY <2>3, <2>4, <2>5
<1>7. CASE ApplyEvent
  <2>1. UNCHANGED <<age, stamped, lead, samples, pc>> /\ Changes' = Changes /\ control' = next
        /\ pc = "render" /\ Dequeue /\ next # None /\ Past(next) /\ Base = next
    BY <1>7 DEF ApplyEvent, machine, clock, Changes, Due, Base
  <2>2. Past(control)' /\ control' \in Nat
    BY <1>0, <2>1 DEF Past
  <2>3. CASE queue # << >>
    <3>1. /\ Len(queue) \in Nat \ {0} /\ Len(queue') = Len(queue) - 1
          /\ next' = queue[1] /\ next' # None
          /\ \A i \in 1..Len(queue') : queue'[i] = queue[i + 1]
      BY <2>1, <2>3, Dequeued
    <3>2. next' = control' + 1 /\ Base' = next + 1
      BY <1>c, <2>1, <3>1 DEF Base
    <3>3. \A i \in 1..Len(queue') : queue'[i] = Base' + i
      BY <1>0, <1>c, <2>1, <3>1, <3>2
    <3>4. Base' + Len(queue') = Base + Len(queue)
      BY <1>0, <2>1, <3>1, <3>2
    <3> QED  BY <1>c, <2>1, <2>2, <3>1, <3>2, <3>3, <3>4 DEF NoLossInv
  <2>4. CASE queue = << >>
    <3>1. next' = None /\ queue' = queue /\ Len(queue) = 0 /\ Base' = next
      BY <2>1, <2>4, Dequeued, EmptySeq DEF Base
    <3>2. ASSUME NEW c \in 1..Changes, c > next
          PROVE  age[c] + lead <= MaxDelay + MaxAhead + Len(samples)
      <4>1. stamped # None /\ c = stamped
        BY <1>0, <1>c, <2>1, <3>1, <3>2 DEF OrderInv
      <4>2. age[c] <= MaxDelay /\ lead <= MaxAhead + Len(samples)
        BY <2>1, <4>1 DEF AgeInv, LeadInv
      <4> QED  BY <1>0, <4>2
    <3> QED  BY <1>c, <2>1, <2>2, <3>1, <3>2 DEF NoLossInv
  <2> QED  BY <2>3, <2>4
<1> QED
  BY <1>1, <1>2, <1>3, <1>4, <1>5, <1>6, <1>7 DEF Next, Machine, Audio

THEOREM TimeInductive == Spec => []TimeIInv
<1>1. Init => TimeIInv
  BY TypeInit, OrderInit, LeadInit, AgeInit, NoLossInit DEF TimeIInv
<1>2. TimeIInv /\ SoundInv /\ [Next]_vars => TimeIInv'
  BY TypeStep, OrderStep, LeadStep, AgeStep, NoLossStep DEF TimeIInv
<1>3. OrderIInv => SoundInv
  BY DEF OrderIInv
<1> QED  BY <1>1, <1>2, <1>3, OrderInductive, PTL DEF Spec

(* As long as the ring has lost nothing, every sample is rendered with the  *)
(* control of its time: for every latency that covers the longest delay of  *)
(* the machine's task, two ticks and a block.                               *)
THEOREM EverySampleHearsItsTime ==
  ASSUME OnTime
  PROVE  Spec => []SampleHearsItsTime
<1>1. TimeIInv => SampleHearsItsTime
  <2> SUFFICES ASSUME TimeIInv, pc = "render", Len(samples) < Block, ~Due, ~overrun
               PROVE  control = InForce
    BY DEF SampleHearsItsTime
  <2>0. /\ Changes \in Nat \ {0} /\ control \in Nat /\ next \in Nat /\ lead \in Int
        /\ Len(samples) \in Nat /\ MaxAhead \in Nat
        /\ \A c \in 1..Changes : age[c] \in Nat
    BY Entries, AgeTyped DEF TimeIInv, TypeOK, MaxAhead
  <2>1. ASSUME NEW c \in 1..Changes, c <= control PROVE Past(c)
    <3>1. control \in 1..Changes /\ Past(control)
      BY <2>0, <2>1 DEF TimeIInv, NoLossInv, OrderInv, None
    <3>2. age[control] <= age[c]
      BY <2>1, <3>1 DEF TimeIInv, AgeInv
    <3> QED  BY <2>0, <3>1, <3>2 DEF Past
  <2>2. ASSUME NEW c \in 1..Changes, c > control PROVE ~Past(c)
    <3>1. CASE next # None
      <4>1. ~Past(next) /\ next = control + 1 /\ next \in 1..Changes
        BY <2>0, <3>1 DEF Due, TimeIInv, NoLossInv, OrderInv
      <4>2. age[c] <= age[next]
        BY <2>0, <2>2, <4>1 DEF TimeIInv, AgeInv
      <4> QED  BY <2>0, <4>1, <4>2 DEF Past
    <3>2. CASE next = None
      <4>1. age[c] + lead <= MaxDelay + MaxAhead + Len(samples)
        BY <2>2, <3>2 DEF TimeIInv, NoLossInv
      <4> QED  BY <2>0, <4>1 DEF Past, OnTime
    <3> QED  BY <3>1, <3>2
  <2> DEFINE past == {c \in 1..Changes : Past(c)}
  <2>3. \A c \in 1..Changes : c \in past <=> c <= control
    BY <2>0, <2>1, <2>2
  <2>4. InForce = IF past = {} THEN None ELSE CHOOSE c \in past : \A d \in past : d <= c
    BY DEF InForce
  <2>5. control <= Changes
    BY DEF TimeIInv, OrderInv
  <2>6. CASE control = 0
    <3>1. past = {}
      BY <2>0, <2>3, <2>6
    <3> QED  BY <2>4, <2>6, <3>1 DEF None
  <2>7. CASE control # 0
    <3>1. control \in past /\ \A d \in past : d <= control
      BY <2>0, <2>3, <2>5, <2>7
    <3>2. \A c \in past : (\A d \in past : d <= c) => c = control
      BY <2>0, <3>1
    <3> HIDE DEF past
    <3> QED  BY <2>4, <3>1, <3>2
  <2> QED  BY <2>6, <2>7
<1> QED  BY <1>1, TimeInductive, PTL

-----------------------------------------------------------------------------
(* Events are lost only in a burst.                                        *)

\* The changes between their stamp and the audio task.
Waiting == {c \in 1..Changes : c = stamped \/ \E i \in 1..Len(queue) : c = queue[i]}

\* How much of the block has been rendered; a block that is done counts as a whole.
Rendered == IF pc = "render" THEN Len(samples) ELSE Block

\* The change fetched is not behind its time, and what waits while none is
\* fetched was stamped no longer ago than the block under way.
BurstInv ==
  /\ pc = "fetch" => lead <= MaxAhead + Block
  /\ next # None => age[next] + lead <= Latency
  /\ next = None => \A c \in Waiting : age[c] + lead <= MaxDelay + MaxAhead + Rendered

LEMMA BurstTypes ==
  TypeOK => /\ Changes \in Nat \ {0} /\ lead \in Int /\ MaxAhead \in Nat /\ Rendered \in Nat
            /\ next \in Nat /\ stamped \in Nat /\ control \in Nat
            /\ Len(samples) \in Nat /\ Len(samples) <= Block /\ Len(queue) \in Nat
            /\ \A c \in 1..Changes : age[c] \in Nat
            /\ \A i \in 1..Len(queue) : queue[i] \in Nat \ {0}
  BY Entries, AgeTyped DEF TypeOK, MaxAhead, Rendered

LEMMA BurstInit == Init => BurstInv
<1> SUFFICES ASSUME Init PROVE BurstInv
  OBVIOUS
<1>1. next = 1 /\ next # None /\ pc = "wait" /\ lead = 0 /\ age = <<0>>
  BY DEF Init, None
<1>2. age[next] = 0
  BY <1>1
<1> QED  BY <1>1, <1>2 DEF BurstInv

\* A change that waits while the audio task looks at an empty ring has only just
\* been stamped.
LEMMA OnlyStamped ==
  ASSUME TypeOK, AgeInv, Len(queue) = 0, NEW c \in Waiting
  PROVE  age[c] <= MaxDelay
<1>1. c \in Nat \ {0} /\ c = stamped
  BY BurstTypes DEF Waiting
<1> QED  BY <1>1 DEF AgeInv, None

LEMMA BurstStep ==
  ASSUME OnTime, TypeOK, OrderInv, LeadInv, AgeInv, BurstInv, [Next]_vars
  PROVE  BurstInv'
<1>0. /\ Changes \in Nat \ {0} /\ lead \in Int /\ MaxAhead \in Nat /\ Rendered \in Nat
      /\ next \in Nat /\ stamped \in Nat /\ control \in Nat
      /\ Len(samples) \in Nat /\ Len(samples) <= Block /\ Len(queue) \in Nat
      /\ \A c \in 1..Changes : age[c] \in Nat
      /\ \A i \in 1..Len(queue) : queue[i] \in Nat \ {0}
  BY BurstTypes
<1>n. next # None => next \in 1..Changes
  BY <1>0 DEF OrderInv, None
<1>w. \A c \in Waiting : c \in 1..Changes
  BY DEF Waiting
<1>1. CASE Stamp
  <2>1. /\ Changes' = Changes + 1 /\ stamped' = Changes + 1 /\ stamped = None
        /\ \A c \in 1..Changes : age'[c] = age[c]
        /\ age'[Changes + 1] = 0
    BY <1>1, Stamped
  <2>2. UNCHANGED <<queue, next, samples, pc, lead, sleep>> /\ Rendered' = Rendered
    BY <1>1 DEF Stamp, audio, clock, Rendered
  <2>3. lead <= MaxAhead + Rendered
    BY <1>0 DEF LeadInv, BurstInv, Rendered, TypeOK
  <2>4. ASSUME next = None, NEW c \in Waiting'
        PROVE  age'[c] + lead <= MaxDelay + MaxAhead + Rendered
    <3>1. CASE c = Changes + 1
      BY <1>0, <2>1, <2>3, <3>1
    <3>2. CASE c # Changes + 1
      <4>1. c \in Waiting /\ age'[c] = age[c]
        BY <1>0, <2>1, <2>2, <2>4, <3>2 DEF Waiting
      <4> QED  BY <2>4, <4>1 DEF BurstInv
    <3> QED  BY <3>1, <3>2
  <2>5. next # None => age'[next] + lead <= Latency
    BY <1>n, <2>1 DEF BurstInv
  <2> QED  BY <2>2, <2>4, <2>5 DEF BurstInv
<1>2. CASE Enqueue
  <2>1. UNCHANGED <<age, next, samples, pc, lead>> /\ Changes' = Changes /\ Rendered' = Rendered
        /\ stamped' = None /\ stamped # None
    BY <1>2 DEF Enqueue, audio, clock, Changes, Rendered
  <2>2. ASSUME NEW c \in Waiting' PROVE c \in Waiting
    <3>1. c \in 1..Changes /\ c # 0
      BY <1>0, <2>1 DEF Waiting
    <3>2. PICK i \in 1..Len(queue') : c = queue'[i]
      BY <2>1, <3>1 DEF Waiting, None
    <3>3. CASE Len(queue) # Capacity
      <4>1. /\ Len(queue') = Len(queue) + 1
            /\ \A k \in 1..Len(queue) : queue'[k] = queue[k]
            /\ queue'[Len(queue) + 1] = stamped
        BY <1>2, <3>3, Enqueued
      <4>2. i \in 1..Len(queue) \/ i = Len(queue) + 1
        BY <1>0, <4>1
      <4> QED  BY <3>1, <3>2, <4>1, <4>2 DEF Waiting
    <3>4. CASE Len(queue) = Capacity
      <4>1. /\ Len(queue') = Len(queue)
            /\ \A k \in 1..(Len(queue) - 1) : queue'[k] = queue[k + 1]
            /\ queue'[Len(queue)] = stamped
        BY <1>2, <3>4, Enqueued
      <4>2. CASE i \in 1..(Len(queue) - 1)
        <5>1. i + 1 \in 1..Len(queue) /\ c = queue[i + 1]
          BY <1>0, <3>2, <4>1, <4>2
        <5> QED  BY <3>1, <5>1 DEF Waiting
      <4>3. CASE i = Len(queue)
        BY <3>1, <3>2, <4>1, <4>3 DEF Waiting
      <4> QED  BY <1>0, <4>1, <4>2, <4>3
    <3> QED  BY <3>3, <3>4
  <2> QED  BY <2>1, <2>2 DEF BurstInv
<1>3. CASE WaitAhead
  <2>1. UNCHANGED <<age, stamped, queue, next, lead>> /\ pc = "wait" /\ pc' = "fetch"
    BY <1>3 DEF WaitAhead, machine, clock
  <2>2. Waiting' = Waiting /\ Rendered' = Rendered
    BY <2>1 DEF Waiting, Changes, Rendered
  <2> QED  BY <2>1, <2>2 DEF BurstInv, LeadInv, MaxAhead
<1>4. CASE FetchEvent
  <2>1. UNCHANGED <<age, stamped, lead>> /\ pc = "fetch" /\ pc' = "render" /\ sleep = 0
    BY <1>4 DEF FetchEvent, machine, clock
  <2>2. Len(samples') = 0 /\ Rendered' = 0 /\ Rendered = Block
    BY <1>4, <2>1, EmptySeq DEF FetchEvent, Rendered
  <2>3. CASE next # None
    <3>1. UNCHANGED next
      BY <1>4, <2>3 DEF FetchEvent
    <3> QED  BY <2>1, <2>3, <3>1 DEF BurstInv
  <2>4. CASE next = None /\ queue # << >>
    <3>1. Len(queue) \in Nat \ {0} /\ next' = queue[1] /\ next' # None
      BY <1>4, <2>4, Dequeued DEF FetchEvent
    <3>2. queue[1] \in Waiting
      BY <1>0, <3>1 DEF Waiting, OrderInv
    <3>3. age[next'] + lead <= MaxDelay + MaxAhead + Block
      BY <2>2, <2>4, <3>1, <3>2 DEF BurstInv
    <3>4. age[next'] \in Nat
      BY <1>0, <1>w, <3>1, <3>2
    <3>5. age[next'] + lead <= Latency
      BY <1>0, <3>3, <3>4 DEF OnTime
    <3> QED  BY <2>1, <3>1, <3>5 DEF BurstInv
  <2>5. CASE next = None /\ queue = << >>
    <3>1. Len(queue) = 0 /\ UNCHANGED <<next, queue>>
      BY <1>4, <2>5, Dequeued, EmptySeq DEF FetchEvent
    <3>2. Waiting' = Waiting
      BY <2>1, <3>1 DEF Waiting, Changes
    <3>3. lead <= MaxAhead
      BY <2>1 DEF LeadInv
    <3>4. ASSUME NEW c \in Waiting PROVE age[c] + lead <= MaxDelay + MaxAhead + 0
      BY <1>0, <1>w, <3>1, <3>3, OnlyStamped
    <3> QED  BY <2>1, <2>2, <2>5, <3>1, <3>2, <3>4 DEF BurstInv
  <2> QED  BY <2>3, <2>4, <2>5
<1>5. CASE ApplyEvent
  <2>1. UNCHANGED <<age, stamped, lead, samples, pc>> /\ pc = "render" /\ Dequeue /\ next # None
    BY <1>5 DEF ApplyEvent, machine, clock, Due
  <2>2. CASE queue # << >>
    <3>1. Len(queue) \in Nat \ {0} /\ next' = queue[1] /\ next' # None
      BY <2>1, <2>2, Dequeued
    <3>2. next < queue[1] /\ queue[1] <= Changes /\ queue[1] \in 1..Changes
      BY <1>0, <3>1 DEF OrderInv
    <3>3. PICK new \in Nat, old \in Nat : new = age[queue[1]] /\ old = age[next] /\ new <= old
      <4>1. next \in 1..Changes /\ next <= queue[1]
        BY <1>0, <1>n, <2>1, <3>2
      <4>2. age[queue[1]] <= age[next]
        BY <3>2, <4>1 DEF AgeInv
      <4>3. age[queue[1]] \in Nat /\ age[next] \in Nat
        BY <1>0, <3>2, <4>1
      <4> QED
        BY <4>2, <4>3
    <3>4. old + lead <= Latency
      <4>1. age[next] + lead <= Latency
        BY <2>1 DEF BurstInv
      <4> QED
        BY <3>3, <4>1
    <3>l. lead \in Int
      BY <1>0
    <3>5. new + lead <= Latency
      BY <3>3, <3>4, <3>l
    <3>6. age[next'] + lead <= Latency
      BY <3>1, <3>3, <3>5
    <3> QED  BY <2>1, <3>1, <3>6 DEF BurstInv
  <2>3. CASE queue = << >>
    <3>1. Len(queue) = 0 /\ next' = None /\ UNCHANGED queue
      BY <2>1, <2>3, Dequeued, EmptySeq
    <3>2. Waiting' = Waiting /\ Rendered' = Rendered /\ Rendered = Len(samples)
      BY <2>1, <3>1 DEF Waiting, Changes, Rendered
    <3>3. lead <= MaxAhead + Rendered
      BY <2>1, <3>2 DEF LeadInv
    <3>4. ASSUME NEW c \in Waiting PROVE age[c] + lead <= MaxDelay + MaxAhead + Rendered
      BY <1>0, <1>w, <3>1, <3>3, OnlyStamped
    <3> QED  BY <2>1, <3>1, <3>2, <3>4 DEF BurstInv
  <2> QED  BY <2>2, <2>3
<1>6. CASE RenderSample
  <2>1. Len(samples') = Len(samples) + 1
    BY <1>6, Appended DEF RenderSample, TypeOK
  <2>2. UNCHANGED <<age, stamped, queue, next, pc>> /\ pc = "render" /\ lead' = lead + 1 /\ ~Due
    BY <1>6 DEF RenderSample, machine
  <2>3. Waiting' = Waiting /\ Rendered' = Rendered + 1
    BY <2>1, <2>2 DEF Waiting, Changes, Rendered
  <2>4. next # None => age[next] + lead' <= Latency
    BY <1>0, <1>n, <2>2 DEF Due, Past
  <2>5. ASSUME next = None, NEW c \in Waiting
        PROVE  age[c] + lead' <= MaxDelay + MaxAhead + (Rendered + 1)
    <3>1. age[c] + lead <= MaxDelay + MaxAhead + Rendered
      BY <2>5 DEF BurstInv
    <3> QED  BY <1>0, <1>w, <2>2, <2>5, <3>1
  <2> QED  BY <2>2, <2>3, <2>4, <2>5 DEF BurstInv
<1>7. CASE BlockDone \/ WriteDac
  <2>1. UNCHANGED <<age, stamped, queue, next, lead>> /\ pc' # "fetch"
    BY <1>7 DEF BlockDone, WriteDac, machine, clock
  <2>2. Waiting' = Waiting /\ Rendered' = Rendered
    BY <1>7 DEF BlockDone, WriteDac, machine, Waiting, Changes, Rendered
  <2> QED  BY <2>1, <2>2 DEF BurstInv
<1>8. CASE Advance
  <2>1. UNCHANGED <<stamped, queue, next, pc, samples>> /\ Changes' = Changes /\ lead' = lead - 1
    BY <1>8, Older DEF Advance
  <2>2. Waiting' = Waiting /\ Rendered' = Rendered
    BY <2>1 DEF Waiting, Rendered
  <2>3. \A c \in 1..Changes : /\ age'[c] + lead' <= age[c] + lead
                              /\ age'[c] \in Int
    BY <1>0, <1>8, AgeTyped, Older, PastStays
  <2>4. next # None => age'[next] + lead' <= Latency
    <3> SUFFICES ASSUME next # None PROVE age'[next] + lead' <= Latency
      OBVIOUS
    <3>1. age[next] + lead <= Latency /\ next \in 1..Changes
      BY <1>n DEF BurstInv
    <3> QED  BY <1>0, <2>1, <2>3, <3>1
  <2>5. ASSUME next = None, NEW c \in Waiting
        PROVE  age'[c] + lead' <= MaxDelay + MaxAhead + Rendered
    <3>1. age[c] + lead <= MaxDelay + MaxAhead + Rendered /\ c \in 1..Changes
      BY <1>w, <2>5 DEF BurstInv
    <3> QED  BY <1>0, <2>1, <2>3, <3>1
  <2>6. pc = "fetch" => lead' <= MaxAhead + Block
    BY <1>0, <2>1 DEF BurstInv
  <2> QED  BY <2>1, <2>2, <2>4, <2>5, <2>6 DEF BurstInv
<1>9. CASE UNCHANGED vars
  BY <1>9 DEF vars, machine, audio, clock, BurstInv, Waiting, Changes, Rendered
<1> QED
  BY <1>1, <1>2, <1>3, <1>4, <1>5, <1>6, <1>7, <1>8, <1>9 DEF Next, Machine, Audio

(* What a full ring loses is a change of the last latency and lag, so that  *)
(* only a program that changes its speaker more than Capacity times within  *)
(* them loses any: for every latency that covers the longest delay of the   *)
(* machine's task, two ticks and a block.                                   *)
THEOREM OnlyBurstsLose ==
  ASSUME OnTime
  PROVE  Spec => LossOnlyInBursts
<1>1. Init => BurstInv
  BY BurstInit
<1>2. TimeIInv /\ BurstInv /\ [Next]_vars => BurstInv'
  BY BurstStep DEF TimeIInv
<1>3. TimeIInv /\ BurstInv /\ [Next]_vars =>
        [Enqueue /\ Len(queue) = Capacity => age[Head(queue)] <= Latency + MaxLag + Block]_vars
  <2> SUFFICES ASSUME TimeIInv, BurstInv, Len(queue) = Capacity
               PROVE  age[Head(queue)] <= Latency + MaxLag + Block
    OBVIOUS
  <2>0. TypeOK /\ OrderInv /\ AgeInv /\ lead >= -MaxLag
    BY DEF TimeIInv, TypeOK
  <2>1. /\ Changes \in Nat \ {0} /\ lead \in Int /\ MaxAhead \in Nat /\ Rendered \in Nat
        /\ Rendered <= Block /\ next \in Nat /\ Len(queue) \in Nat
        /\ \A c \in 1..Changes : age[c] \in Nat
        /\ \A i \in 1..Len(queue) : queue[i] \in Nat \ {0}
    BY <2>0, BurstTypes DEF Rendered
  <2>2. Head(queue) = queue[1] /\ 1 \in 1..Len(queue)
    BY <2>0, <2>1, Rest DEF TypeOK
  <2>3. PICK c \in 1..Changes : c = queue[1] /\ next < c
    BY <2>0, <2>1, <2>2 DEF OrderInv
  <2>4. CASE next # None
    <3>1. next \in 1..Changes /\ age[next] + lead <= Latency
      BY <2>0, <2>1, <2>4 DEF BurstInv, OrderInv, None
    <3>2. age[c] <= age[next]
      BY <2>0, <2>1, <2>3, <3>1 DEF AgeInv
    <3> QED  BY <2>0, <2>1, <2>2, <2>3, <3>1, <3>2
  <2>5. CASE next = None
    <3>1. c \in Waiting
      BY <2>2, <2>3 DEF Waiting
    <3>2. age[c] + lead <= MaxDelay + MaxAhead + Rendered
      BY <2>5, <3>1 DEF BurstInv
    <3> QED  BY <2>0, <2>1, <2>2, <2>3, <3>2 DEF OnTime
  <2> QED  BY <2>4, <2>5
<1> QED  BY <1>1, <1>2, <1>3, TimeInductive, PTL DEF Spec, LossOnlyInBursts
=============================================================================
