----------------------------- MODULE SessionMC -----------------------------
(* Session with one built-in package, which is not installed over, no       *)
(* module at first, and scripts that install one and run it twice.          *)
EXTENDS Session

CONSTANTS vc, alley

Firmware == <<alley>>
Typed == Token \ {Install(alley)}
FirstModules == {<< >>}
StartScripts == {<< >>, <<Install(vc), Run(vc), Run(vc)>>}
=============================================================================
