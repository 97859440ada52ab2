----------------------------- MODULE XipStoreMC -----------------------------
(* Finite instances of XipStore for TLC: game1 and game2 are two builds of   *)
(* one command, tool is another command, broken fails validation.            *)
EXTENDS XipStore

CONSTANTS game1, game2, tool, broken, GAME, TOOL

Commands == {GAME, TOOL}
FileCommand == [f \in File |-> IF f \in {game1, game2} THEN GAME ELSE TOOL]
=============================================================================
