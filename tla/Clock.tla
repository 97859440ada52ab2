------------------------------- MODULE Clock -------------------------------
(***************************************************************************)
(* The time of day: update_clock of d2e_shell_main.c, which gives the       *)
(* machine ticks and midnights once a frame while a program runs, and       *)
(* INT 1Ah of pc_at.c, through which the program reads and sets them.       *)
(***************************************************************************)
EXTENDS Integers

CONSTANTS Day,          \* ticks of a day
          RolloverSize, \* 2^8: the rollover is a byte
          MaxStep,      \* bound on the ticks between two readings of the timer
          MaxTime       \* bound on the timer

ASSUME ClockAssumption == Day \in Nat \ {0} /\ RolloverSize \in Nat \ {0}

VARIABLES timer,      \* esp_timer_get_time, in ticks
          lastDay,    \* last_clock_day
          running,    \* a program runs
          ticks,      \* timer_ticks
          rollover,   \* midnight_rollover
          updated,    \* the timer when the ticks were taken from it, or Untaken
          first,      \* what a program read first since it was launched: the
                      \* ticks, and the timer they were taken from, or Never
          counted,    \* midnights the program was told of after that
          latest,     \* what it read last
          missed      \* a midnight after the first reading was never told

clockVars == <<timer, lastDay, running, ticks, rollover, updated, first, counted, latest, missed>>

Untaken == -1
Never == [ticks |-> 0, at |-> Untaken]

Reading == [ticks : 0..Day - 1, at : {Untaken} \cup Nat]

ClockTypeOK ==
  /\ timer \in Nat /\ lastDay \in Nat
  /\ running \in BOOLEAN
  /\ ticks \in 0..Day - 1 /\ rollover \in 0..RolloverSize - 1
  /\ updated \in {Untaken} \cup Nat
  /\ first \in Reading /\ latest \in Reading
  /\ counted \in Nat
  /\ missed \in BOOLEAN

ClockInit ==
  /\ timer = 0 /\ lastDay = 0 /\ running = FALSE
  /\ ticks = 0 /\ rollover = 0 /\ updated = Untaken
  /\ first = Never /\ counted = 0 /\ latest = Never /\ missed = FALSE

Measuring == first.at # Untaken

(* d2e_pc_at_reset; last_clock_day stays.                                   *)
StartClock ==
  /\ ~running
  /\ running' = TRUE
  /\ ticks' = 0 /\ rollover' = 0 /\ updated' = Untaken
  /\ first' = Never /\ counted' = 0 /\ latest' = Never /\ missed' = FALSE
  /\ UNCHANGED <<timer, lastDay>>

(* The program ends; the shell does not look at the timer.                  *)
StopClock ==
  /\ running /\ running' = FALSE
  /\ UNCHANGED <<timer, lastDay, ticks, rollover, updated, first, counted, latest, missed>>

TimePasses ==
  /\ \E d \in 1..MaxStep : timer' = timer + d
  /\ timer' <= MaxTime
  /\ UNCHANGED <<lastDay, running, ticks, rollover, updated, first, counted, latest, missed>>

\* mutant of Passed
PassedOne(day) == IF day > lastDay THEN 1 ELSE 0

(* update_clock, at the end of a frame's input: the ticks of the day, and   *)
(* the days since the last update in place of a rollover not yet read.      *)
Passed(day) == IF day > lastDay THEN (day - lastDay) % RolloverSize ELSE 0

UpdateClock ==
  /\ running
  /\ LET day == timer \div Day
     IN  /\ ticks' = timer % Day
         /\ rollover' = Passed(day)
         /\ lastDay' = day
         /\ missed' = (missed \/ (Measuring /\ (rollover # 0 \/ day - lastDay >= RolloverSize)))
  /\ updated' = timer
  /\ UNCHANGED <<timer, running, first, counted, latest>>

(* INT 1Ah/AH=0: the ticks, and the rollover, which it clears. The first    *)
(* reading counts from the first update: before, the ticks are zero.        *)
GetTicks ==
  /\ running
  /\ LET now == [ticks |-> ticks, at |-> updated]
     IN  /\ first' = IF Measuring THEN first ELSE now
         /\ latest' = now
  /\ counted' = IF Measuring THEN counted + rollover ELSE 0
  /\ rollover' = 0
  /\ UNCHANGED <<timer, lastDay, running, ticks, updated, missed>>

(* INT 1Ah/AH=1: lasts until the next frame. What the program measures      *)
(* begins again.                                                            *)
SetTicks ==
  /\ running
  /\ ticks' \in 0..Day - 1
  /\ rollover' = 0 /\ updated' = Untaken
  /\ first' = Never /\ counted' = 0 /\ latest' = Never /\ missed' = FALSE
  /\ UNCHANGED <<timer, lastDay, running>>

ClockNext == StartClock \/ StopClock \/ TimePasses \/ UpdateClock \/ GetTicks \/ SetTicks

ClockSpec == ClockInit /\ [][ClockNext]_clockVars

----------------------------------------------------------------------------
(* A program that adds a day for every midnight it is told of measures the  *)
(* time that has passed between two frames it read the clock in: never more *)
(* than that, also when the midnight came while the shell had the board,    *)
(* and exactly that unless a midnight was overwritten before it was read.   *)
ElapsedIsRight ==
  Measuring /\ latest.at # Untaken =>
    LET measured == counted * Day + latest.ticks - first.ticks
        elapsed == latest.at - first.at
    IN  measured <= elapsed /\ (~missed => measured = elapsed)
=============================================================================
