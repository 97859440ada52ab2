--------------------------- MODULE CircularQueue ---------------------------
(***************************************************************************)
(* The circular buffers of the program: an array, the index of its oldest  *)
(* entry and the number of entries in use.  pc_at.c keeps the key queue    *)
(* and the scan code queue this way, pc_speaker_audio.c the speaker events. *)
(* Nothing here checks for room: the callers do, or fail to.               *)
(***************************************************************************)
EXTENDS Naturals, Sequences

Queue(cap, X) == [buf : [0..(cap - 1) -> X], head : 0..(cap - 1), count : 0..cap]

NewQueue(cap, blank) == [buf |-> [i \in 0..(cap - 1) |-> blank], head |-> 0, count |-> 0]

Put(q, cap, x) ==
  [buf |-> [q.buf EXCEPT ![(q.head + q.count) % cap] = x],
   head |-> q.head,
   count |-> q.count + 1]

Oldest(q) == q.buf[q.head]

Drop(q, cap) ==
  [buf |-> q.buf, head |-> (q.head + 1) % cap, count |-> q.count - 1]

\* The queue as the sequence it stands for, oldest entry first.
Contents(q, cap) == [i \in 1..q.count |-> q.buf[(q.head + (i - 1)) % cap]]
=============================================================================
