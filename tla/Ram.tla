-------------------------------- MODULE Ram --------------------------------
(***************************************************************************)
(* What a program may expect of its memory: one byte for every address that *)
(* has memory. A store changes the bytes it names and no other; one that    *)
(* cannot be completed stops the program.                                   *)
(***************************************************************************)
EXTENDS Integers

CONSTANTS Cells,       \* addresses with memory
          Kept,       \* those that a clear leaves alone
          Space,       \* the addresses are 0..Space - 1
          Wrap,        \* the size of a segment
          Byte

VARIABLES ram, halted

RamInit == ram = [a \in Cells |-> 0] /\ halted = FALSE

(* A program that reads, or does something else.                            *)
RamLoad == UNCHANGED <<ram, halted>>

(* Of a store, the bytes in done are stored.                                *)
Stored(bytes, done) ==
  /\ ram' = [a \in Cells |-> IF a \in done THEN bytes[a] ELSE ram[a]]
  /\ halted' = (done # DOMAIN bytes)

RamStore ==
  \E a \in 0..Space - 1, v \in Byte :
    \E done \in SUBSET ({a} \cap Cells) : Stored([c \in {a} |-> v], done)

(* The second byte of a word is behind the first or, of the last word of a  *)
(* segment, at its start.                                                   *)
RamStoreWord ==
  \E a \in 0..Space - 1, v, w \in Byte, step \in {1, 1 - Wrap} :
    LET b == (a + step) % Space
    IN  \E done \in SUBSET ({a, b} \cap Cells) :
          Stored([c \in {a, b} |-> IF c = a THEN v ELSE w], done)

RamClear ==
  /\ ram' = [a \in Cells |-> IF a \in Kept THEN ram[a] ELSE 0]
  /\ halted' = FALSE

RamNext == RamLoad \/ (~halted /\ (RamStore \/ RamStoreWord)) \/ RamClear

RamVars == <<ram, halted>>
RamSpec == RamInit /\ [][RamNext]_RamVars
=============================================================================
