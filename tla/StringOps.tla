----------------------------- MODULE StringOps -----------------------------
(***************************************************************************)
(* native_patterns.c: the repeated string instructions that the translator  *)
(* turns into one call, MOVS and STOS of bytes and words in either          *)
(* direction, and what they should leave in memory and registers.           *)
(***************************************************************************)
EXTENDS MemoryMap, FiniteSets, SequencesExt

(* A string instruction is [width, from, to, down, value, copies]: bytes of *)
(* an element, segments, the direction flag, and what is stored if it does  *)
(* not copy. Its registers are [memory, source, target, count].             *)
Delta(op) == IF op.down THEN -op.width ELSE op.width

\* mutant of Advance
AdvanceForward(op, offset) == (offset + op.width) % WordSize

Advance(op, offset) == (offset + Delta(op)) % WordSize

Element(op, s) ==
  IF ~op.copies THEN op.value
  ELSE IF op.width = 1 THEN Read8(s.memory, Linear(op.from, s.source))
                       ELSE Read16Seg(s.memory, op.from, s.source)
Stored(op, s) ==
  IF op.width = 1 THEN Write8(s.memory, Linear(op.to, s.target), Element(op, s))
                  ELSE Write16Seg(s.memory, op.to, s.target, Element(op, s))

(* A store that fails leaves the registers at its element.                  *)
RepeatStep(op, s) ==
  LET after == Stored(op, s)
  IN  IF s.memory.stopped THEN s
      ELSE IF after.stopped THEN [s EXCEPT !.memory = after]
      ELSE [memory |-> after, count |-> s.count - 1, target |-> Advance(op, s.target),
            source |-> IF op.copies THEN Advance(op, s.source) ELSE s.source]
Repeat(op, s) == FoldLeft(LAMBDA t, i : RepeatStep(op, t), s, [i \in 1..s.count |-> i])

----------------------------------------------------------------------------
(* The bytes of the elements, in the order they are stored.                 *)
SourceOf(op, s, i, b) == Linear(op.from, (s.source + i * Delta(op) + b) % WordSize)
TargetOf(op, s, i, b) == Linear(op.to, (s.target + i * Delta(op) + b) % WordSize)
HasRoom(mem, addresses) ==
  /\ \A a \in addresses : a < MemorySize \/ IsWindow(a)
  /\ Cardinality({n \in DOMAIN mem.pages : /\ mem.pages[n] = Absent
                                           /\ \E a \in addresses : IsExtended(a) /\ (a - PrimarySize) \div PageSize = n})
       <= mem.room
Fits(op, s, n) ==
  HasRoom(s.memory, {TargetOf(op, s, w[1], w[2]) : w \in (0..n - 1) \X (0..op.width - 1)})

(* Of bytes <<i, b>>, the last that is stored at a place.                   *)
LastAt(op, s, a, bytes) ==
  LET at == {w \in bytes : TargetOf(op, s, w[1], w[2]) = a}
  IN  CHOOSE w \in at : \A v \in at : v[1] < w[1] \/ (v[1] = w[1] /\ v[2] <= w[2])

(* What comes to an address: the byte that was there, or the last one that  *)
(* was stored there, which itself may have been stored before.              *)
Comes(op, s, n, a) ==
  LET Moved[w \in (0..n - 1) \X (0..op.width - 1)] ==
        IF ~op.copies THEN IF w[2] = 0 THEN LowByte(op.value) ELSE HighByte(op.value)
        ELSE LET from == SourceOf(op, s, w[1], w[2])
                 before == (0..w[1] - 1) \X (0..op.width - 1)
             IN  IF \E v \in before : TargetOf(op, s, v[1], v[2]) = from
                   THEN Moved[LastAt(op, s, from, before)] ELSE Read8(s.memory, from)
      all == (0..n - 1) \X (0..op.width - 1)
  IN  IF \E w \in all : TargetOf(op, s, w[1], w[2]) = a
        THEN Moved[LastAt(op, s, a, all)] ELSE Read8(s.memory, a)

(* As many elements are done as there is memory for, each with the bytes of *)
(* its source at its turn, also when the areas overlap or wrap around the   *)
(* end of a segment; the registers say how far it came.                     *)
RepeatsRight(op, s, got) ==
  LET done == s.count - got.count
      partial == IF got.memory.stopped THEN {TargetOf(op, s, done, b) : b \in 0..op.width - 1} ELSE {}
  IN  /\ got.count \in 0..s.count
      /\ Fits(op, s, done)
      /\ got.memory.stopped <=> got.count # 0
      /\ got.memory.stopped => ~Fits(op, s, done + 1)
      /\ got.target = (s.target + done * Delta(op)) % WordSize
      /\ got.source = IF op.copies THEN (s.source + done * Delta(op)) % WordSize ELSE s.source
      /\ \A a \in 0..AddressSpace - 1 : a \notin partial => Read8(got.memory, a) = Comes(op, s, done, a)
=============================================================================
