----------------------------- MODULE AnsiInput -----------------------------
(***************************************************************************)
(* pc_input.c: the bytes of the serial line become keys. A terminal sends   *)
(* Escape and the arrows as bytes that begin alike, a poll may end between  *)
(* any two of them, and the decoder never waits for the next one.           *)
(***************************************************************************)
EXTENDS Integers, Sequences, SequencesExt

CONSTANTS Strokes,      \* subset of DOMAIN Sent: the keys of the terminal in use
          MaxStrokes    \* bound on the keys pressed

VARIABLES escape,       \* escape_state
          strokes,      \* keys of the terminal pressed since init
          line,         \* bytes sent and not yet fed
          decoded       \* what d2e_pc_at_enqueue_key was called with

ansiVars == <<escape, strokes, line, decoded>>

(* What the terminal sends for a key. "A" is a letter and ends the sequence *)
(* of an arrow as well.                                                     *)
Sent == [letter |-> <<"A">>, enter |-> <<"cr">>, backspace |-> <<"del">>, break |-> <<"nul">>,
         bracket |-> <<"[">>, escape |-> <<"esc">>,
         up |-> <<"esc", "[", "A">>, end |-> <<"esc", "[", "F">>,
         delete |-> <<"esc", "[", "3", "~">>]

ASSUME AnsiInputAssumption == MaxStrokes \in Nat /\ Strokes \subseteq DOMAIN Sent

KeyOf(ascii, scan) == [ascii |-> ascii, scan |-> scan]

(* feed_plain: a control character is the letter it is typed with, which    *)
(* decides for Enter before the branch written for it. A byte without a     *)
(* scan code is no key.                                                     *)
ScanOf(byte) ==
  CASE byte \in {"A", "F", "[", "3", "~"} -> byte
    [] byte = "cr" -> "M"
    [] byte = "del" -> "backspace"
    [] byte = "esc" -> "escape"
    [] byte = "nul" -> "none"
Plain(byte) ==
  IF ScanOf(byte) = "none" THEN << >>
  ELSE <<KeyOf(IF byte = "del" THEN "bs" ELSE byte, ScanOf(byte))>>

AnsiInit ==
  escape = 0 /\ strokes = << >> /\ line = << >> /\ decoded = << >>

(* d2e_pc_input_init, when a program is launched: the line is drained.      *)
InitInput ==
  escape' = 0 /\ strokes' = << >> /\ line' = << >> /\ decoded' = << >>

TypeStroke ==
  /\ Len(strokes) < MaxStrokes
  /\ \E s \in Strokes : strokes' = Append(strokes, s) /\ line' = line \o Sent[s]
  /\ UNCHANGED <<escape, decoded>>

\* mutant of Held
HeldAlone(byte) ==
  CASE byte = "[" -> [escape |-> 2, keys |-> << >>]
    [] byte = "esc" -> [escape |-> 0, keys |-> Plain("esc")]
    [] OTHER -> [escape |-> 0, keys |-> Plain("esc")]

(* d2e_pc_input_feed_byte. An Escape is held until the byte behind it says  *)
(* whether it was one.                                                      *)
Held(byte) ==
  CASE byte = "[" -> [escape |-> 2, keys |-> << >>]
    [] byte = "esc" -> [escape |-> 0, keys |-> Plain("esc")]
    [] OTHER -> [escape |-> 0, keys |-> Plain("esc") \o Plain(byte)]
Arrow(byte) ==
  [escape |-> 0, keys |-> IF byte = "A" THEN <<KeyOf("nul", "up")>> ELSE << >>]
FedWith(byte) ==
  CASE escape = 0 -> IF byte = "esc" THEN [escape |-> 1, keys |-> << >>]
                                     ELSE [escape |-> 0, keys |-> Plain(byte)]
    [] escape = 1 -> Held(byte)
    [] escape = 2 -> Arrow(byte)

FeedByte ==
  /\ line # << >>
  /\ LET fed == FedWith(Head(line))
     IN  escape' = fed.escape /\ decoded' = decoded \o fed.keys
  /\ line' = Tail(line)
  /\ UNCHANGED strokes

AnsiNext == InitInput \/ TypeStroke \/ FeedByte

AnsiSpec == AnsiInit /\ [][AnsiNext]_ansiVars

AnsiTypeOK ==
  /\ escape \in 0..2
  /\ strokes \in Seq(Strokes)
  /\ Len(decoded) <= 2 * Len(strokes)

----------------------------------------------------------------------------
(* The key of a PC that a stroke stands for; a break of the line is none.   *)
Meant(s) ==
  CASE s = "letter" -> <<KeyOf("A", "A")>>
    [] s = "enter" -> <<KeyOf("cr", "enter")>>
    [] s = "backspace" -> <<KeyOf("bs", "backspace")>>
    [] s = "bracket" -> <<KeyOf("[", "[")>>
    [] s = "escape" -> <<KeyOf("esc", "escape")>>
    [] s \in {"up", "end", "delete"} -> <<KeyOf("nul", s)>>
    [] s = "break" -> << >>

(* Of these the decoder does not make that key: Enter has the scan code of  *)
(* M, Delete leaves the byte behind its third, and End is no key.           *)
Unsupported == {"enter", "end", "delete"}
MayGive(s) ==
  IF s \in Unsupported THEN {<< >>} \cup {Plain(byte) : byte \in Range(Sent[s])} ELSE {Meant(s)}

(* The bytes of these continue an Escape: "[" cannot be told from one of an *)
(* arrow, and the Escape that begins the others is taken with the first.    *)
Continuing == {"escape", "up", "end", "delete", "bracket"}
Clear == \A i \in 1..Len(strokes) - 1 : strokes[i] = "escape" => strokes[i + 1] \notin Continuing

(* Once everything sent has been fed, in whatever pieces, every supported   *)
(* stroke has given its key, in the order of the strokes, but for a last    *)
(* Escape that is still held; and one that is not supported has given at    *)
(* most the key of one of its bytes and spoilt none of the others. That is  *)
(* so if no Escape is followed by a stroke whose bytes continue it.         *)
KeystrokesDecode ==
  line = << >> /\ Clear =>
    \E given \in [DOMAIN strokes -> UNION {MayGive(s) : s \in Strokes}] :
      /\ \A i \in DOMAIN strokes : given[i] \in MayGive(strokes[i])
      /\ decoded \o (IF escape = 1 THEN Plain("esc") ELSE << >>) = FlattenSeq(given)
=============================================================================
