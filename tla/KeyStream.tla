----------------------------- MODULE KeyStream -----------------------------
(***************************************************************************)
(* What a program may expect of the keyboard: the events of the keys typed *)
(* while it runs reach it once each, in the order they were typed, and     *)
(* those of no other session do.  A key is refused, whole, only when the   *)
(* queue has no room for its events.                                       *)
(***************************************************************************)
EXTENDS Naturals, Sequences

CONSTANTS
  Key,         \* the keys, numbered in the order they are typed
  Capacity,    \* events the queue holds
  EventsOf(_)  \* the events of one key

VARIABLES
  open,   \* a program has the keyboard
  queue,  \* events on their way to the program
  taken,  \* events the program has had
  last    \* the last key typed

vars == <<open, queue, taken, last>>

Init ==
  /\ open = FALSE
  /\ queue = << >>
  /\ taken = << >>
  /\ last = 0

Pressed(k) ==
  /\ open
  /\ k = last + 1
  /\ last' = k
  /\ UNCHANGED <<open, taken>>

Room(k) == Len(queue \o EventsOf(k)) <= Capacity

Accept(k) ==
  /\ Pressed(k)
  /\ Room(k)
  /\ queue' = queue \o EventsOf(k)

Refuse(k) ==
  /\ Pressed(k)
  /\ ~Room(k)
  /\ UNCHANGED queue

Take ==
  /\ open
  /\ queue # << >>
  /\ taken' = Append(taken, Head(queue))
  /\ queue' = Tail(queue)
  /\ UNCHANGED <<open, last>>

\* A program starts, or ends; either way the next event is the first.
Start ==
  /\ ~open
  /\ open' = TRUE
  /\ queue' = << >>
  /\ taken' = << >>
  /\ UNCHANGED last

Stop ==
  /\ open
  /\ open' = FALSE
  /\ queue' = << >>
  /\ taken' = << >>
  /\ UNCHANGED last

Next ==
  \/ \E k \in Key : Accept(k) \/ Refuse(k)
  \/ Take
  \/ Start
  \/ Stop

Spec == Init /\ [][Next]_vars
=============================================================================
