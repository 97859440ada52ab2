---------------------------- MODULE AluReference ----------------------------
(***************************************************************************)
(* What the instructions of the 8086 do, in terms of numbers: sums that do  *)
(* or do not fit, words turned around, numbers of decimal digits. Nothing   *)
(* here translates the code; x86_alu.c is checked against it.               *)
(***************************************************************************)
EXTENDS Alu

Fits(w, n) == -Two(w - 1) <= n /\ n < Two(w - 1)
Describes(w, x) ==
  When("P", Cardinality({i \in 0..7 : Bit(x, i) = 1}) % 2 = 0)
    \cup When("Z", x = 0) \cup When("S", Signed(w, x) < 0)

(* A sum of two words and a carry, a difference with a borrow.              *)
Sum(w, l, r, c) ==
  Result((l + r + c) % Two(w),
         Describes(w, (l + r + c) % Two(w)) \cup When("C", l + r + c >= Two(w))
           \cup When("A", (l % 16) + (r % 16) + c >= 16)
           \cup When("O", ~Fits(w, Signed(w, l) + Signed(w, r) + c)))
Difference(w, l, r, c) ==
  Result((l - r - c) % Two(w),
         Describes(w, (l - r - c) % Two(w)) \cup When("C", l < r + c)
           \cup When("A", l % 16 < (r % 16) + c)
           \cup When("O", ~Fits(w, Signed(w, l) - Signed(w, r) - c)))
WithCarryOf(f, result) == Result(result.word, (result.flags \ {"C"}) \cup (f \cap {"C"}))

(* Shifts multiply and divide; the carry is the last bit that fell out.     *)
Moved(w, x, carry, n, overflow, f) ==
  IF n = 0 THEN Result(x, f)
  ELSE Result(x, Describes(w, x) \cup When("C", carry = 1) \cup (f \cap {"A"})
                   \cup (IF n = 1 THEN When("O", overflow) ELSE f \cap {"O"}))
ShiftedLeft(w, l, n, f) ==
  Moved(w, (l * Two(n)) % Two(w), IF n \in 1..w THEN Bit(l, w - n) ELSE 0, n,
        ~Fits(w, 2 * Signed(w, l)), f)
ShiftedRight(w, l, n, f) ==
  Moved(w, l \div Two(n), IF n = 0 THEN 0 ELSE Bit(l, n - 1), n, Signed(w, l) < 0, f)
Halved(w, l, n, f) ==
  Moved(w, (Signed(w, l) \div Two(n)) % Two(w),
        IF n = 0 THEN 0 ELSE (Signed(w, l) \div Two(n - 1)) % 2, n, FALSE, f)

(* Rotates turn a ring of bits: of the word, or of the word and the carry.  *)
Turned(size, x, n) ==
  FoldLeft(LAMBDA y, i : y + Two(i) * Bit(x, (i - n) % size), 0, [i \in 1..size |-> i - 1])
Turn(x, carry, overflow, n, f) ==
  IF n = 0 THEN Result(x, f)
  ELSE Result(x, (f \cap {"P", "A", "Z", "S"}) \cup When("C", carry = 1)
                   \cup (IF n = 1 THEN When("O", overflow) ELSE f \cap {"O"}))
TurnedWord(w, l, n, f) ==
  LET x == Turned(w, l, n)
  IN  Turn(x, Bit(x, 0), (Signed(w, l) < 0) # (Signed(w, x) < 0), n, f)
TurnedBack(w, l, n, f) ==
  LET x == Turned(w, l, -n)
  IN  Turn(x, Bit(x, w - 1), (Signed(w, l) < 0) # (Signed(w, x) < 0), n, f)
TurnedThrough(w, l, n, f, by) ==
  LET y == Turned(w + 1, l + Two(w) * CarryOf(f), by)
      x == y % Two(w)
  IN  Turn(x, y \div Two(w), (Signed(w, l) < 0) # (Signed(w, x) < 0), n, f)

(* A product that does not fit in the word sets both flags.                 *)
Doubled(w, p, fits, f) ==
  Result(p % Two(2 * w), (f \ {"C", "O"}) \cup (IF fits THEN {} ELSE {"C", "O"}))

(* A quotient and a remainder, if there are any that fit.                   *)
Divides(w, x, y, q, m) ==
  q * y + m = x /\ Magnitude(m) < Magnitude(y) /\ (m = 0 \/ SameSign(m, x))
DividesRight(w, l, f, x, y, quotients, got) ==
  /\ got.flags = f
  /\ LET answers == {q \in quotients : y # 0 /\ \E m \in -Magnitude(y)..Magnitude(y) : Divides(w, x, y, q, m)}
     IN  IF answers = {} THEN got.error /\ got.word = l
         ELSE /\ ~got.error
              /\ \E q \in answers : got.word = (q % Two(w)) + Two(w) * ((x - q * y) % Two(w))

(* Decimal numbers: two digits in a byte, or one in each of AH and AL.      *)
Packed(n) == 16 * (n \div 10) + (n % 10)
Unpacked(n) == 256 * (n \div 10) + (n % 10)
Before(op, l, r, f) == IF op \in {"daa", "aaa"} THEN Add(8, l, r, f) ELSE Sub(8, l, r, f)
Carries(result) == "C" \in result.flags

(* op on words l and r of w bits with flags f before it.                    *)
Right(op, w, l, r, f, got) ==
  CASE op = "add" -> got = Sum(w, l, r, 0)
    [] op = "adc" -> got = Sum(w, l, r, CarryOf(f))
    [] op = "sub" -> got = Difference(w, l, r, 0)
    [] op = "sbb" -> got = Difference(w, l, r, CarryOf(f))
    [] op = "inc" -> got = WithCarryOf(f, Sum(w, l, 1, 0))
    [] op = "dec" -> got = WithCarryOf(f, Difference(w, l, 1, 0))
    [] op = "logic" -> got = Result(l, Describes(w, l))
    [] op = "shl" -> got = ShiftedLeft(w, l, r, f)
    [] op = "shr" -> got = ShiftedRight(w, l, r, f)
    [] op = "sar" -> got = Halved(w, l, r, f)
    [] op = "rol" -> got = TurnedWord(w, l, r, f)
    [] op = "ror" -> got = TurnedBack(w, l, r, f)
    [] op = "rcl" -> got = TurnedThrough(w, l, r, f, r)
    [] op = "rcr" -> got = TurnedThrough(w, l, r, f, -r)
    [] op = "mul" -> got = Doubled(w, l * r, l * r < Two(w), f)
    [] op = "imul" -> LET p == Signed(w, l) * Signed(w, r) IN got = Doubled(w, p, Fits(w, p), f)
    [] op = "div" -> DividesRight(w, l, f, l, r, 0..Two(w) - 1, got)
    [] op = "idiv" -> DividesRight(w, l, f, Signed(2 * w, l), Signed(w, r),
                                   -Two(w - 1)..Two(w - 1) - 1, got)
    [] op = "daa" -> got.word = Packed((l + r) % 100) /\ (Carries(got) <=> l + r >= 100)
    [] op = "das" -> got.word = Packed((l - r) % 100) /\ (Carries(got) <=> l < r)
    [] op = "aaa" -> got.word = Unpacked(l + r) /\ (Carries(got) <=> l + r >= 10)
    [] op = "aas" -> got.word = 256 * ((IF l < r THEN -1 ELSE 0) % 256) + ((l - r) % 10)
                       /\ (Carries(got) <=> l < r)
    [] op = "aam" -> got.word = Unpacked(l * r)
    [] op = "aad" -> got.word = l

(* The same of the code. A decimal adjustment follows its addition or       *)
(* subtraction, aam a product, and aad comes before a division.             *)
Computed(op, w, l, r, f) ==
  CASE op = "add" -> Add(w, l, r, f) [] op = "adc" -> Adc(w, l, r, f)
    [] op = "sub" -> Sub(w, l, r, f) [] op = "sbb" -> Sbb(w, l, r, f)
    [] op = "inc" -> Inc(w, l, r, f) [] op = "dec" -> Dec(w, l, r, f)
    [] op = "logic" -> Logic(w, l, r, f)
    [] op = "shl" -> Shl(w, l, r, f) [] op = "shr" -> Shr(w, l, r, f)
    [] op = "sar" -> Sar(w, l, r, f)
    [] op = "rol" -> Rol(w, l, r, f) [] op = "ror" -> Ror(w, l, r, f)
    [] op = "rcl" -> Rcl(w, l, r, f) [] op = "rcr" -> Rcr(w, l, r, f)
    [] op = "mul" -> Mul(w, l, r, f) [] op = "imul" -> Imul(w, l, r, f)
    [] op = "div" -> Div(w, l, r, f) [] op = "idiv" -> Idiv(w, l, r, f)
    [] op = "daa" -> LET b == Before(op, Packed(l), Packed(r), f) IN Daa(b.word, b.flags)
    [] op = "das" -> LET b == Before(op, Packed(l), Packed(r), f) IN Das(b.word, b.flags)
    [] op = "aaa" -> LET b == Before(op, l, r, f) IN Aaa(b.word, b.flags)
    [] op = "aas" -> LET b == Before(op, l, r, f) IN Aas(b.word, b.flags)
    [] op = "aam" -> Aam(Mul(8, l, r, f).word, f)
    [] op = "aad" -> Aad(Unpacked(l), f)
=============================================================================
