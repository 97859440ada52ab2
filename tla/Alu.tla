-------------------------------- MODULE Alu --------------------------------
(***************************************************************************)
(* x86_alu.c: what an arithmetic instruction of the translated program      *)
(* returns and does to the flags, for words of w bits. The code has every   *)
(* operation for 8 and 16 bits, with flags made from the bits of operands   *)
(* and result; what they should be is in AluReference.                      *)
(***************************************************************************)
EXTENDS Integers, Sequences, FiniteSets, SequencesExt

(* Flags are sets of letters, a result is a word and the flags after it.    *)
Arithmetic == {"C", "P", "A", "Z", "S", "O"}
Result(word, flags) == [word |-> word, flags |-> flags]
When(flag, condition) == IF condition THEN {flag} ELSE {}

Two(n) == 2 ^ n
Word(w, x) == x % Two(w)
Bit(x, i) == (x \div Two(i)) % 2
Top(w, x) == Bit(x, w - 1) = 1
Signed(w, x) == IF Top(w, x) THEN x - Two(w) ELSE x

(* parity_flag: the nibbles of the low byte, one over the other, index a    *)
(* table of bits.                                                           *)
Over(x, i) == Two(i) * ((Bit(x, i) + Bit(x, i + 4)) % 2)
Folded(x) == Over(x, 0) + Over(x, 1) + Over(x, 2) + Over(x, 3)
ParityTable == 38505  \* 0x9669

(* common_flags8 and common_flags16.                                        *)
Common(w, r) ==
  When("P", Bit(ParityTable, Folded(r)) = 1) \cup When("Z", r = 0) \cup When("S", Top(w, r))

(* left ^ right ^ result at a bit.                                          *)
Odd(i, l, r, x) == (Bit(l, i) + Bit(r, i) + Bit(x, i)) % 2 = 1
HalfCarry(l, r, x) == Odd(4, l, r, x)
AddOverflow(w, l, r, x) == Top(w, l) = Top(w, r) /\ Top(w, l) # Top(w, x)
\* mutant of SubOverflow
SubOverflowAsAdd(w, l, r, x) == Top(w, l) = Top(w, r) /\ Top(w, l) # Top(w, x)

SubOverflow(w, l, r, x) == Top(w, l) # Top(w, r) /\ Top(w, l) # Top(w, x)

(* add and adc: f are the flags before, of which adc takes the carry.       *)
CarryOf(f) == IF "C" \in f THEN 1 ELSE 0
Added(w, l, r, carry) ==
  LET wide == l + r + carry
      x == Word(w, wide)
  IN  Result(x, Common(w, x) \cup When("C", wide >= Two(w)) \cup When("A", HalfCarry(l, r, x))
                  \cup When("O", AddOverflow(w, l, r, x)))
Add(w, l, r, f) == Added(w, l, r, 0)
Adc(w, l, r, f) == Added(w, l, r, CarryOf(f))

(* sub and sbb.                                                             *)
Subtracted(w, l, r, borrow) ==
  LET x == Word(w, l - (r + borrow))
  IN  Result(x, Common(w, x) \cup When("C", l < r + borrow) \cup When("A", HalfCarry(l, r, x))
                  \cup When("O", SubOverflow(w, l, r, x)))
Sub(w, l, r, f) == Subtracted(w, l, r, 0)
Sbb(w, l, r, f) == Subtracted(w, l, r, CarryOf(f))

(* inc and dec keep the carry.                                              *)
KeepingCarry(result, f) == Result(result.word, (result.flags \ {"C"}) \cup (f \cap {"C"}))
Inc(w, l, r, f) == KeepingCarry(Add(w, l, 1, f), f)
Dec(w, l, r, f) == KeepingCarry(Sub(w, l, 1, f), f)

Logic(w, l, r, f) == Result(l, Common(w, l))

----------------------------------------------------------------------------
(* Shifts and rotates go bit by bit; l is the word, n the count. A step     *)
(* takes a word and gives the next one and the bit that falls out.          *)
Steps(Step(_, _), l, carry, n) ==
  FoldLeft(LAMBDA s, i : Step(s.word, s.out), [word |-> l, out |-> carry], [i \in 1..n |-> i])
ShlStep(w, x) == [word |-> Word(w, 2 * x), out |-> Bit(x, w - 1)]
ShrStep(x) == [word |-> x \div 2, out |-> Bit(x, 0)]
SarStep(w, x) == [word |-> x \div 2 + Two(w - 1) * Bit(x, w - 1), out |-> Bit(x, 0)]

(* replace_shift_flags: overflow only for a count of one.                   *)
ShiftFlags(w, s, n, overflow, f) ==
  (f \ ({"C", "P", "Z", "S"} \cup When("O", n = 1)))
    \cup Common(w, s.word) \cup When("C", s.out = 1) \cup When("O", n = 1 /\ overflow)
Shifted(w, s, l, n, overflow, f) ==
  IF n = 0 THEN Result(l, f) ELSE Result(s.word, ShiftFlags(w, s, n, overflow, f))

Shl(w, l, n, f) ==
  LET s == Steps(LAMBDA x, c : ShlStep(w, x), l, 0, n)
  IN  Shifted(w, s, l, n, Bit(s.word, w - 1) # s.out, f)
Shr(w, l, n, f) == Shifted(w, Steps(LAMBDA x, c : ShrStep(x), l, 0, n), l, n, Top(w, l), f)
Sar(w, l, n, f) == Shifted(w, Steps(LAMBDA x, c : SarStep(w, x), l, 0, n), l, n, FALSE, f)

(* rotate_value and rotate_carry, which differ in the bit that comes in.    *)
Rotated(w, s, l, n, overflow, f) ==
  IF n = 0 THEN Result(l, f)
  ELSE Result(s.word, (f \ ({"C"} \cup When("O", n = 1)))
                        \cup When("C", s.out = 1) \cup When("O", n = 1 /\ overflow))
LeftStep(w, x, in) == [word |-> Word(w, 2 * x) + in, out |-> Bit(x, w - 1)]
RightStep(w, x, in) == [word |-> x \div 2 + Two(w - 1) * in, out |-> Bit(x, 0)]
LeftOverflow(w, s) == Bit(s.word, w - 1) # s.out
RightOverflow(w, s) == Bit(s.word, w - 1) # Bit(s.word, w - 2)

Rol(w, l, n, f) ==
  LET s == Steps(LAMBDA x, c : LeftStep(w, x, Bit(x, w - 1)), l, 0, n)
  IN  Rotated(w, s, l, n, LeftOverflow(w, s), f)
Ror(w, l, n, f) ==
  LET s == Steps(LAMBDA x, c : RightStep(w, x, Bit(x, 0)), l, 0, n)
  IN  Rotated(w, s, l, n, RightOverflow(w, s), f)
Rcl(w, l, n, f) ==
  LET s == Steps(LAMBDA x, c : LeftStep(w, x, c), l, CarryOf(f), n)
  IN  Rotated(w, s, l, n, LeftOverflow(w, s), f)
Rcr(w, l, n, f) ==
  LET s == Steps(LAMBDA x, c : RightStep(w, x, c), l, CarryOf(f), n)
  IN  Rotated(w, s, l, n, RightOverflow(w, s), f)

----------------------------------------------------------------------------
(* mul and imul give a double word.                                         *)
Product(word, wide, f) == Result(word, (f \ {"C", "O"}) \cup When("C", wide) \cup When("O", wide))
Mul(w, l, r, f) == Product(l * r, l * r >= Two(w), f)
Imul(w, l, r, f) ==
  LET p == Signed(w, l) * Signed(w, r)
  IN  Product(Word(2 * w, p), p < -Two(w - 1) \/ p >= Two(w - 1), f)

(* div and idiv of a double word: the quotient below, the remainder above.  *)
(* A divide error stops the program with the dividend as it was.            *)
DivideError(l, f) == [word |-> l, flags |-> f, error |-> TRUE]
Divided(w, q, m, f) == [word |-> Word(w, q) + Two(w) * Word(w, m), flags |-> f, error |-> FALSE]

Magnitude(x) == IF x < 0 THEN -x ELSE x
SameSign(x, y) == (x < 0) = (y < 0)
Quotient(x, y) ==   \* of C: towards zero
  IF SameSign(x, y) THEN Magnitude(x) \div Magnitude(y) ELSE -(Magnitude(x) \div Magnitude(y))

Div(w, l, r, f) ==
  IF r = 0 \/ l \div r >= Two(w) THEN DivideError(l, f) ELSE Divided(w, l \div r, l % r, f)
Idiv(w, l, r, f) ==
  LET x == Signed(2 * w, l)
      y == Signed(w, r)
      q == Quotient(x, y)
  IN  IF y = 0 THEN DivideError(l, f)
      ELSE IF q < -Two(w - 1) \/ q >= Two(w - 1) THEN DivideError(l, f)
      ELSE Divided(w, q, x - q * y, f)

----------------------------------------------------------------------------
(* Decimal adjustments, of AX or AL.                                        *)
LowHalf(x) == x % 256
Needed(x, f) == x % 16 > 9 \/ "A" \in f

Aaa(ax, f) ==
  LET up == Needed(ax, f)
      x == IF up THEN Word(16, ax + 262) ELSE ax
  IN  Result(x - (x % 256) + (x % 16), IF up THEN f \cup {"A", "C"} ELSE f \ {"A", "C"})
Aas(ax, f) ==
  LET down == Needed(ax, f)
      x == IF down THEN Word(16, ax - 262) ELSE ax
  IN  Result(x - (x % 256) + (x % 16), IF down THEN f \cup {"A", "C"} ELSE f \ {"A", "C"})

(* daa and das, with sign 1 and -1.                                         *)
Adjusted(ax, f, sign) ==
  LET al == LowHalf(ax)
      half == IF Needed(al, f) THEN 6 ELSE 0
      full == IF al > 153 \/ "C" \in f THEN 96 ELSE 0
      x == LowHalf(al + sign * (half + full))
  IN  Result(ax - al + x, (f \ {"C", "P", "A", "Z", "S"}) \cup Common(8, x)
                            \cup When("A", half # 0) \cup When("C", full # 0))
Daa(ax, f) == Adjusted(ax, f, 1)
Das(ax, f) == Adjusted(ax, f, -1)

UnpackedFlags(x, f) == (f \ {"P", "Z", "S"}) \cup Common(8, x)
Aam(ax, f) ==
  LET al == LowHalf(ax)
  IN  Result(256 * (al \div 10) + (al % 10), UnpackedFlags(al % 10, f))
Aad(ax, f) ==
  LET x == LowHalf(LowHalf(ax) + 10 * (ax \div 256))
  IN  Result(x, UnpackedFlags(x, f))
=============================================================================
