---------------------------- MODULE FlagLiveness ----------------------------
(***************************************************************************)
(* d2e_flags.py: which flags of an instruction the generated code computes. *)
(* A program is translated once and then run: the flags of the translated   *)
(* program are right but for those that are stale, which an instruction     *)
(* was to define and did not. Of the six status flags, AF, PF and SF are    *)
(* left out: no contract but those of AAA to DAS treats them unlike ZF.     *)
(***************************************************************************)
EXTENDS Integers, Sequences

CONSTANTS Programs,     \* sequences of blocks, in the order of their leaders
          Instructions  \* the mnemonics the programs are made of

AllFlags == {"C", "Z", "O"}

(* A block is [body, last, target]: its instructions, the one that ends it, *)
(* and the block a jump there names, or Elsewhere.                          *)
Elsewhere == 0

VARIABLES program,     \* the blocks
          liveIn,      \* live_in and live_out of each block
          liveOut,
          leader,      \* analyze has yet to visit the blocks up to this one
          changed,     \* the sweep has changed live_in or live_out
          live,        \* live_defined, for each instruction; << >> before analyze ends
          spot,        \* the block and the instruction to run, or Left
          stale        \* flags whose value in the translated program is wrong

flagVars == <<program, liveIn, liveOut, leader, changed, live, spot, stale>>

Left == <<0, 0>>
CodeOf(b) == b.body \o <<b.last>>

----------------------------------------------------------------------------
(* effects: the masks of a mnemonic, which is all the analysis sees: that a *)
(* shift or a rotation counts by CL, or a comparison repeats, is in the     *)
(* operands, or in a prefix whose count may be zero.                        *)
Contract ==
  [mov |-> [reads |-> {}, defines |-> {}],
   add |-> [reads |-> {}, defines |-> AllFlags],
   inc |-> [reads |-> {}, defines |-> {"Z", "O"}],
   adc |-> [reads |-> {"C"}, defines |-> AllFlags],
   shl |-> [reads |-> {}, defines |-> AllFlags],
   shl_cl |-> [reads |-> {}, defines |-> AllFlags],
   rol |-> [reads |-> {}, defines |-> {"C", "O"}],
   rol_cl |-> [reads |-> {}, defines |-> {"C", "O"}],
   rcl |-> [reads |-> {"C"}, defines |-> {"C", "O"}],
   rcl_cl |-> [reads |-> {"C"}, defines |-> {"C", "O"}],
   mul |-> [reads |-> {}, defines |-> {"C", "O"}],
   daa |-> [reads |-> {"C"}, defines |-> {"C", "Z"}],
   aam |-> [reads |-> {}, defines |-> {"Z"}],
   cmc |-> [reads |-> {}, defines |-> {"C"}],
   stc |-> [reads |-> {}, defines |-> {"C"}],
   lahf |-> [reads |-> AllFlags, defines |-> {}],
   sahf |-> [reads |-> {}, defines |-> AllFlags],
   popf |-> [reads |-> {}, defines |-> AllFlags],
   scas |-> [reads |-> {}, defines |-> AllFlags],
   repe_scas |-> [reads |-> {"Z"}, defines |-> AllFlags],
   int |-> [reads |-> AllFlags, defines |-> {}],
   jz |-> [reads |-> {"Z"}, defines |-> {}],
   jb |-> [reads |-> {"C"}, defines |-> {}],
   jo |-> [reads |-> {"O"}, defines |-> {}],
   jmp |-> [reads |-> {}, defines |-> {}],
   call |-> [reads |-> {}, defines |-> {}],
   ret |-> [reads |-> {}, defines |-> {}],
   hlt |-> [reads |-> {}, defines |-> {}]]

ASSUME FlagAssumption ==
  \A p \in Programs :
    /\ p \in Seq([body : Seq(DOMAIN Contract), last : DOMAIN Contract, target : Nat])
    /\ p # << >>
    /\ \A n \in DOMAIN p : p[n].target <= Len(p)

Reads(i) == Contract[i].reads
Defines(i) == Contract[i].defines

(* _successors: where control goes behind a block. Behind the last one is   *)
(* code that was not discovered.                                            *)
NextBlock(p, n) == IF n < Len(p) THEN n + 1 ELSE Elsewhere
Successors(p, n) ==
  CASE p[n].last \in {"jz", "jb", "jo", "call"} -> {p[n].target, NextBlock(p, n)}
    [] p[n].last = "jmp" -> {p[n].target}
    [] p[n].last = "ret" -> {Elsewhere}
    [] p[n].last = "hlt" -> {}
    [] OTHER -> {NextBlock(p, n)}

(* analyze. The flags that the instructions from i on read before they      *)
(* define them, and those they define.                                      *)
UsedFrom(code, i) ==
  {f \in AllFlags : \E j \in i..Len(code) :
     f \in Reads(code[j]) /\ \A k \in i..j - 1 : f \notin Defines(code[k])}
DefinedFrom(code, i) == UNION {Defines(code[j]) : j \in i..Len(code)}
LiveFrom(code, i, out) == UsedFrom(code, i) \cup (out \ DefinedFrom(code, i))

\* mutant of LiveOut
LiveOutInside(p, in, n) == UNION {in[s] : s \in Successors(p, n) \ {Elsewhere}}

(* live_out of a block, given live_in of all: an edge out of the program    *)
(* keeps every flag, HLT none.                                              *)
LiveOut(p, in, n) ==
  UNION {IF s = Elsewhere THEN AllFlags ELSE in[s] : s \in Successors(p, n)}

LiveDefined(p, out) ==
  [n \in 1..Len(p) |->
     LET code == CodeOf(p[n])
     IN  [i \in 1..Len(code) |-> Defines(code[i]) \cap LiveFrom(code, i + 1, out[n])]]

----------------------------------------------------------------------------
FlagInit ==
  /\ program \in Programs
  /\ liveIn = [n \in 1..Len(program) |-> {}] /\ liveOut = liveIn
  /\ leader = Len(program) /\ changed = FALSE
  /\ live = << >> /\ spot = <<1, 1>> /\ stale = {}

Analyzing == live = << >>

(* The sweeps go over the blocks from the last to the first.                *)
VisitBlock ==
  /\ Analyzing /\ leader > 0
  /\ liveOut' = [liveOut EXCEPT ![leader] = LiveOut(program, liveIn, leader)]
  /\ liveIn' = [liveIn EXCEPT ![leader] = LiveFrom(CodeOf(program[leader]), 1, liveOut'[leader])]
  /\ changed' = (changed \/ <<liveIn, liveOut>>' # <<liveIn, liveOut>>)
  /\ leader' = leader - 1
  /\ UNCHANGED <<program, live, spot, stale>>

SweepAgain ==
  /\ Analyzing /\ leader = 0 /\ changed
  /\ changed' = FALSE /\ leader' = Len(program)
  /\ UNCHANGED <<program, liveIn, liveOut, live, spot, stale>>

Translate ==
  /\ Analyzing /\ leader = 0 /\ ~changed
  /\ live' = LiveDefined(program, liveOut)
  /\ UNCHANGED <<program, liveIn, liveOut, leader, changed, spot, stale>>

Running == ~Analyzing /\ spot # Left
Current == CodeOf(program[spot[1]])[spot[2]]

(* What an instruction does to the flags, in x86_alu.c and in the statement *)
(* of the translation: those its outcome depends on, and a choice of sets   *)
(* it may change. A count of zero changes none, and one of more than one    *)
(* leaves OF; SAHF does not touch OF; a repetition may not begin.           *)
Uses(i) == IF i = "cmc" THEN {"C"} ELSE Reads(i)
Sets(i) ==
  CASE i = "shl_cl" -> {{}, {"C", "Z"}, AllFlags}
    [] i \in {"rol_cl", "rcl_cl"} -> {{}, {"C"}, {"C", "O"}}
    [] i = "sahf" -> {{"C", "Z"}}
    [] i = "repe_scas" -> {{}, AllFlags}
    [] OTHER -> {Defines(i)}

(* A flag that is set and not live may be left as it was, and is here: the  *)
(* statement of an instruction computes at least those that are live.       *)
Follow ==
  IF spot[2] < Len(CodeOf(program[spot[1]]))
    THEN spot' = <<spot[1], spot[2] + 1>>
    ELSE \E s \in Successors(program, spot[1]) : spot' = IF s = Elsewhere THEN Left ELSE <<s, 1>>

Execute ==
  /\ Running
  /\ \E set \in Sets(Current) :
       stale' = (stale \ set) \cup (set \ live[spot[1]][spot[2]])
  /\ Follow
  /\ UNCHANGED <<program, liveIn, liveOut, leader, changed, live>>

(* HLT, or code that was not discovered, which the block dispatch refuses.  *)
Finished ==
  /\ IF spot = Left THEN TRUE ELSE Running /\ Current = "hlt"
  /\ UNCHANGED flagVars

FlagNext == VisitBlock \/ SweepAgain \/ Translate \/ Execute \/ Finished

FlagSpec == FlagInit /\ [][FlagNext]_flagVars

FlagTypeOK ==
  /\ stale \subseteq AllFlags
  /\ leader \in 0..Len(program) /\ changed \in BOOLEAN
  /\ liveIn \in [1..Len(program) -> SUBSET AllFlags]
  /\ liveOut \in [1..Len(program) -> SUBSET AllFlags]
  /\ live \in {<< >>, LiveDefined(program, liveOut)}
  /\ spot = Left \/ /\ spot[1] \in 1..Len(program)
                    /\ spot[2] \in 1..Len(CodeOf(program[spot[1]]))

(* No instruction uses a flag that the translated program did not compute,  *)
(* on any path through the program, across blocks and loops, and control    *)
(* leaves the program with every flag right.                                *)
NoStaleFlag ==
  /\ Running => Uses(Current) \cap stale = {}
  /\ spot = Left => stale = {}

(* What effects says of an instruction and is not so: flags it may keep and *)
(* is said to define, and does not read, so that the analysis drops them.   *)
Misjudged(i) == {f \in Defines(i) \ Reads(i) : \E set \in Sets(i) : f \notin set}

(* The program has no such flag where it is live, and no CMC.               *)
Judged(n, i) ==
  LET m == CodeOf(program[n])[i]
  IN  Uses(m) \subseteq Reads(m) /\ Misjudged(m) \cap live[n][i] = {}
WellJudged == \A n \in DOMAIN live : \A i \in DOMAIN live[n] : Judged(n, i)

(* But for the flags that effects misjudges where they are used, the sweeps *)
(* of analyze leave no flag stale: whatever they dropped, across blocks,    *)
(* calls, loops and ends of the program, nothing reads.                     *)
FlagsAreFresh == WellJudged => NoStaleFlag
=============================================================================
