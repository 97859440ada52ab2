----------------------------- MODULE XipCatalog -----------------------------
(***************************************************************************)
(* What the XIP volume promises its users, whatever happens to the power:  *)
(* a bounded map from commands to the module last installed for each, and  *)
(* a startup file that is written once, for a command the map knows.       *)
(***************************************************************************)
EXTENDS FiniteSets, Naturals, Functions

CONSTANTS File, ValidFile, Command, CommandOf, NoCommand, Capacity

VARIABLES
  installed,  \* the module of each installed command
  startup     \* the command AUTOEXEC.BAT runs at boot

vars == <<installed, startup>>

Init ==
  /\ installed = << >>
  /\ startup = NoCommand

\* A ninth command is accepted but not kept: the step may leave the map as it is.
Install(f) ==
  /\ CommandOf[f] \in DOMAIN installed \/ Cardinality(DOMAIN installed) < Capacity
  /\ installed' = [c \in DOMAIN installed \cup {CommandOf[f]} |->
                     IF c = CommandOf[f] THEN f ELSE installed[c]]
  /\ UNCHANGED startup

CreateStartup(c) ==
  /\ startup = NoCommand
  /\ c \in DOMAIN installed
  /\ startup' = c
  /\ UNCHANGED installed

Next ==
  \/ \E f \in ValidFile : Install(f)
  \/ \E c \in Command : CreateStartup(c)

Spec == Init /\ [][Next]_vars
=============================================================================
