---------------------------- MODULE Synthesizer ----------------------------
(***************************************************************************)
(* pc_speaker.c: the sound of the PIT's channel 2, sample by sample, while  *)
(* its control changes; and the sound it should be. Time is counted in      *)
(* parts of a tick of the PIT.                                              *)
(***************************************************************************)
EXTENDS Integers, Sequences, FiniteSets, SequencesExt

CONSTANTS Tick,     \* parts of a tick, 2^32
          Period,   \* pit_step_q32, the parts from one sample to the next
          Longest   \* 65536, the divisor that a reload of zero stands for

(* A control is [generation, reload, mode, gate, data], a synthesizer       *)
(* [control, elapsed].                                                      *)
Canonical(mode) == IF mode \in {6, 7} THEN mode - 4 ELSE mode
Divisor(c) == Tick * (IF c.reload = 0 THEN Longest ELSE c.reload)

\* mutant of HalfDivisor
HalfDivisorRoundedDown(c) == Tick * ((Divisor(c) \div Tick) \div 2)

HalfDivisor(c) == Tick * (((Divisor(c) \div Tick) + 1) \div 2)

(* timer_output.                                                            *)
TimerOutput(s) ==
  LET mode == Canonical(s.control.mode)
      d == Divisor(s.control)
  IN  IF s.control.gate = 0 THEN mode \in {2, 3, 4, 5}
      ELSE CASE mode \in {0, 1} -> s.elapsed >= d
             [] mode = 2 -> s.elapsed % d < d - Tick
             [] mode = 3 -> s.elapsed % d < HalfDivisor(s.control)
             [] mode \in {4, 5} -> s.elapsed < d \/ s.elapsed >= d + Tick

(* advance_timer: a periodic mode starts over, the others stop at the end.  *)
AdvanceTimer(s) ==
  LET d == Divisor(s.control)
      next == s.elapsed + Period
  IN  IF s.control.gate = 0 THEN s
      ELSE IF Canonical(s.control.mode) \in {2, 3} THEN [s EXCEPT !.elapsed = next % d]
      ELSE [s EXCEPT !.elapsed = IF next > d + Tick THEN d + Tick ELSE next]

Retriggers(old, new) ==
  /\ new.generation # old.generation
  /\ \/ new.reload # old.reload \/ Canonical(new.mode) # Canonical(old.mode)
     \/ new.gate # 0 /\ old.gate = 0
     \/ Canonical(new.mode) \in {1, 5}

(* d2e_pc_speaker_render of n samples.                                      *)
Sample(s) ==
  IF s.control.data = 0 THEN "silence" ELSE IF TimerOutput(s) THEN "high" ELSE "low"
Rendered(s, c, n) ==
  LET start == [control |-> c, elapsed |-> IF Retriggers(s.control, c) THEN 0 ELSE s.elapsed]
  IN  FoldLeft(LAMBDA r, i : [synth |-> AdvanceTimer(r.synth), samples |-> Append(r.samples, Sample(r.synth))],
               [synth |-> start, samples |-> << >>], [i \in 1..n |-> i])

(* d2e_pc_speaker_synth_init, and blocks <<control, n>> rendered in turn.   *)
Quiet == [control |-> [generation |-> 0, reload |-> 0, mode |-> 0, gate |-> 0, data |-> 0], elapsed |-> 0]
Played(blocks) ==
  FoldLeft(LAMBDA r, b : LET t == Rendered(r.synth, b[1], b[2])
                         IN  [synth |-> t.synth, samples |-> r.samples \o t.samples],
           [synth |-> Quiet, samples |-> << >>], blocks)

----------------------------------------------------------------------------
(* The output of a PIT that has counted for some time: low until the end,   *)
(* or high but for the last tick of every period, for the second half of    *)
(* it, or for the one tick behind the end.                                  *)
OutputAfter(c, time) ==
  LET mode == Canonical(c.mode)
      ticks == (time \div Tick)
      n == Divisor(c) \div Tick
  IN  CASE mode \in {0, 1} -> c.gate # 0 /\ ticks >= n
        [] mode = 2 -> c.gate = 0 \/ ticks % n # n - 1
        [] mode = 3 -> c.gate = 0 \/ 2 * (ticks % n) < n
        [] mode \in {4, 5} -> c.gate = 0 \/ ticks # n

(* The control of every sample, and since which sample it counts.           *)
ControlAt(blocks, k) ==
  LET Ends(j) == FoldLeft(LAMBDA sum, b : sum + b[2], 0, SubSeq(blocks, 1, j))
  IN  CHOOSE j \in DOMAIN blocks : Ends(j - 1) < k /\ k <= Ends(j)
SoundRight(blocks, samples) ==
  LET At(k) == blocks[ControlAt(blocks, k)][1]
      Starts(k) == Retriggers(IF k = 1 THEN Quiet.control ELSE At(k - 1), At(k))
      Since(k) == {j \in 1..k : \A i \in j + 1..k : ~Starts(i)}
      Counted(k) == Cardinality({j \in Since(k) : j < k /\ At(j).gate # 0})
  IN  \A k \in DOMAIN samples :
        samples[k] = IF At(k).data = 0 THEN "silence"
                     ELSE IF OutputAfter(At(k), Period * Counted(k)) THEN "high" ELSE "low"
=============================================================================
