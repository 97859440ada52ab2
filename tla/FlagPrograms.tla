---------------------------- MODULE FlagPrograms ----------------------------
(***************************************************************************)
(* The programs of FlagLiveness for model checking: all of two blocks with  *)
(* up to two and up to one of the instructions before the one at the end.   *)
(***************************************************************************)
EXTENDS FlagLiveness

Bodies(n) == UNION {[1..k -> Instructions] : k \in 0..n}
Ends == {<<"jz", 1>>, <<"jz", 2>>, <<"jo", 1>>, <<"jmp", 1>>, <<"call", 1>>, <<"int", 0>>,
         <<"ret", 0>>, <<"hlt", 0>>}
BlocksOf(n) == {[body |-> b, last |-> e[1], target |-> e[2]] : b \in Bodies(n), e \in Ends}
MCPrograms == {<<b, c>> : b \in BlocksOf(2), c \in BlocksOf(1)}
=============================================================================
