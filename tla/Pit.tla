-------------------------------- MODULE Pit --------------------------------
(***************************************************************************)
(* The timer's ports as pc_at.c answers them: channel 2 of the PIT at port  *)
(* 42h, its control word at 43h, and port 61h, from which the speaker is    *)
(* told its sound. The other channels are the same without the speaker.     *)
(* The counter is no time: every reading of it takes one from both bytes.   *)
(***************************************************************************)
EXTENDS Integers

CONSTANTS HalfSize,    \* 2^8
          PitModes     \* the modes of a control word, with 3, the initial one

ASSUME PitAssumption == HalfSize \in Nat /\ HalfSize > 1 /\ 3 \in PitModes

Half == 0..HalfSize - 1
PitWord == 0..HalfSize * HalfSize - 1
LowOnly == 1
HighOnly == 2
Both == 3

VARIABLES access,      \* pit_access
          pitMode,     \* pit_mode
          reload,      \* pit_reload
          counter,     \* pit_counter
          readHigh,    \* pit_read_high_next
          writeHigh,   \* pit_write_high_next
          latch,       \* pit_write_latch
          portB,       \* system_port_b: bit 0, bit 1 and bit 4
          speaker,     \* the last control the speaker was told
          lowRead,     \* the counter when the low half of a pair was read
          lowWritten,  \* the low half of a pair that was written
          pair         \* the last pair that was read or written whole

pitVars == <<access, pitMode, reload, counter, readHigh, writeHigh, latch, portB,
             speaker, lowRead, lowWritten, pair>>

None == -1
NoPair == [seen |-> 0, is |-> 0]

PitTypeOK ==
  /\ access \in {LowOnly, HighOnly, Both} /\ pitMode \in PitModes
  /\ reload \in PitWord /\ counter \in PitWord
  /\ readHigh \in BOOLEAN /\ writeHigh \in BOOLEAN
  /\ latch \in Half
  /\ portB \in [gate : {0, 1}, data : {0, 1}, refresh : {0, 1}]
  /\ speaker \in [reload : PitWord, mode : PitModes, gate : {0, 1}, data : {0, 1}]
  /\ lowRead \in {None} \cup PitWord /\ lowWritten \in {None} \cup Half
  /\ pair \in [seen : PitWord, is : PitWord]

Low(word) == word % HalfSize
High(word) == word \div HalfSize
Together(low, high) == low + HalfSize * high

(* notify_speaker.                                                          *)
Told(word, mode, b) == [reload |-> word, mode |-> mode, gate |-> b.gate, data |-> b.data]

(* d2e_pc_at_init and the callback's registration.                          *)
PowerOn ==
  LET b == [gate |-> 0, data |-> 0, refresh |-> 0]
      w == HalfSize * HalfSize - 1
  IN  [access |-> Both, mode |-> 3, word |-> w, b |-> b, speaker |-> Told(w, 3, b)]

PitInit ==
  /\ access = PowerOn.access /\ pitMode = PowerOn.mode
  /\ reload = PowerOn.word /\ counter = PowerOn.word
  /\ readHigh = FALSE /\ writeHigh = FALSE /\ latch = 0
  /\ portB = PowerOn.b
  /\ speaker = PowerOn.speaker
  /\ lowRead = None /\ lowWritten = None /\ pair = NoPair

\* mutant of PitReset
PitResetSilently ==
  /\ access' = PowerOn.access /\ pitMode' = PowerOn.mode
  /\ reload' = PowerOn.word /\ counter' = PowerOn.word
  /\ readHigh' = FALSE /\ writeHigh' = FALSE /\ latch' = 0
  /\ portB' = PowerOn.b
  /\ lowRead' = None /\ lowWritten' = None /\ pair' = NoPair
  /\ UNCHANGED speaker

PitReset ==
  /\ access' = PowerOn.access /\ pitMode' = PowerOn.mode
  /\ reload' = PowerOn.word /\ counter' = PowerOn.word
  /\ readHigh' = FALSE /\ writeHigh' = FALSE /\ latch' = 0
  /\ portB' = PowerOn.b
  /\ speaker' = PowerOn.speaker
  /\ lowRead' = None /\ lowWritten' = None /\ pair' = NoPair

\* mutant of Counted
CountedAlways == (counter - (HalfSize + 1)) % (HalfSize * HalfSize)

(* IN AL, 42h. The high half of a pair does not count.                      *)
Counted ==
  IF access # Both \/ ~readHigh
    THEN (counter - (HalfSize + 1)) % (HalfSize * HalfSize)
    ELSE counter

ReadCounter ==
  /\ counter' = Counted
  /\ readHigh' = IF access = Both THEN ~readHigh ELSE readHigh
  /\ IF access = Both /\ ~readHigh
       THEN lowRead' = Counted /\ UNCHANGED pair
       ELSE /\ lowRead' = None
            /\ pair' = IF access = Both /\ lowRead # None
                         THEN [seen |-> Together(Low(lowRead), High(Counted)), is |-> lowRead]
                         ELSE pair
  /\ UNCHANGED <<access, pitMode, reload, writeHigh, latch, portB, speaker, lowWritten>>

(* OUT 43h: a latch command, or an access and a mode.                       *)
LatchCommand ==
  /\ readHigh' = FALSE /\ lowRead' = None
  /\ UNCHANGED <<access, pitMode, reload, counter, writeHigh, latch, portB, speaker,
                 lowWritten, pair>>

ControlWord ==
  /\ access' \in {LowOnly, HighOnly, Both} /\ pitMode' \in PitModes
  /\ readHigh' = FALSE /\ writeHigh' = FALSE
  /\ lowRead' = None /\ lowWritten' = None
  /\ speaker' = Told(reload, pitMode', portB)
  /\ UNCHANGED <<reload, counter, latch, portB, pair>>

(* OUT 42h: the first half of a pair waits, whatever else completes a word. *)
WriteLowHalf ==
  /\ access = Both /\ ~writeHigh
  /\ latch' \in Half
  /\ writeHigh' = TRUE /\ lowWritten' = latch'
  /\ UNCHANGED <<access, pitMode, reload, counter, readHigh, portB, speaker, lowRead, pair>>

Loaded(value) ==
  CASE access = Both -> Together(latch, value)
    [] access = HighOnly -> Together(Low(reload), value)
    [] access = LowOnly -> Together(value, High(reload))

CompleteWord ==
  /\ access # Both \/ writeHigh
  /\ \E value \in Half :
       /\ reload' = Loaded(value) /\ counter' = Loaded(value)
       /\ speaker' = Told(Loaded(value), pitMode, portB)
       /\ pair' = IF access = Both
                    THEN [seen |-> Loaded(value), is |-> Together(lowWritten, value)] ELSE pair
  /\ writeHigh' = IF access = Both THEN FALSE ELSE writeHigh
  /\ lowRead' = None /\ lowWritten' = None
  /\ UNCHANGED <<access, pitMode, readHigh, latch, portB>>

(* Port 61h: a reading turns the refresh bit over, and the speaker is told  *)
(* only when its own bits change.                                           *)
ReadPortB ==
  /\ portB' = [portB EXCEPT !.refresh = 1 - @]
  /\ UNCHANGED <<access, pitMode, reload, counter, readHigh, writeHigh, latch, speaker,
                 lowRead, lowWritten, pair>>

WritePortB ==
  /\ portB' \in [gate : {0, 1}, data : {0, 1}, refresh : {0, 1}]
  /\ speaker' = IF portB'.gate # portB.gate \/ portB'.data # portB.data
                  THEN Told(reload, pitMode, portB') ELSE speaker
  /\ UNCHANGED <<access, pitMode, reload, counter, readHigh, writeHigh, latch,
                 lowRead, lowWritten, pair>>

PitNext ==
  \/ PitReset
  \/ ReadCounter \/ LatchCommand \/ ControlWord \/ WriteLowHalf \/ CompleteWord
  \/ ReadPortB \/ WritePortB

PitSpec == PitInit /\ [][PitNext]_pitVars

----------------------------------------------------------------------------
(* A word that is read or written in halves is one word, however a program  *)
(* mixes reading, writing, latch commands and control words: the high half  *)
(* read is of the counter whose low half was read, unless it was loaded in  *)
(* between, and the word loaded is the two halves written last.             *)
PairsAreWhole == pair.seen = pair.is

(* What the speaker was told last is what the ports say, after any          *)
(* sequence of port accesses and resets.                                    *)
SpeakerFollowsPorts == speaker = Told(reload, pitMode, portB)
=============================================================================
