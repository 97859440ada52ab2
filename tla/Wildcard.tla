------------------------------ MODULE Wildcard ------------------------------
(***************************************************************************)
(* dos_wildcard_match of pc_at.c, which the directory search of INT 21h     *)
(* calls for every entry, and the set of names a pattern stands for. Names  *)
(* and patterns are sequences of characters.                                *)
(***************************************************************************)
EXTENDS Integers, Sequences, SequencesExt

Plain == {"A", "B", "."}
Upper == [c \in Plain \cup {"a", "*", "?"} |-> IF c = "a" THEN "A" ELSE c]

(* Matches of the rest of a pattern from i with the rest of a name from j:  *)
(* a run of stars tries every rest of the name, the empty one last.         *)
Matches(pattern, name) ==
  LET StarsEnd[i \in 1..Len(pattern) + 1] ==
        IF i <= Len(pattern) /\ pattern[i] = "*" THEN StarsEnd[i + 1] ELSE i
      Match[i \in 1..Len(pattern) + 1, j \in 1..Len(name) + 1] ==
        IF i > Len(pattern) THEN j > Len(name)
        ELSE IF pattern[i] = "*"
          THEN \/ StarsEnd[i] > Len(pattern)
               \/ \E k \in j..Len(name) + 1 : Match[StarsEnd[i], k]
        ELSE IF j > Len(name) THEN FALSE
        ELSE /\ pattern[i] = "?" \/ Upper[pattern[i]] = Upper[name[j]]
             /\ Match[i + 1, j + 1]
  IN  Match[1, 1]

\* mutant of WildcardMatch
WildcardMatchOnly(pattern, name) == Matches(pattern, name)

(* All names are meant by "*.*", those without a dot as well.               *)
WildcardMatch(pattern, name) ==
  Matches(IF pattern = <<"*", ".", "*">> THEN <<"*">> ELSE pattern, name)

----------------------------------------------------------------------------
(* The language of a pattern among some names that are closed under prefix, *)
(* built one character at a time: what a name may look like so far.         *)
Language(pattern, names) ==
  LET Longer(prefixes, c) ==
        CASE c = "*" -> {n \in names : \E p \in prefixes : IsPrefix(p, n)}
          [] c = "?" -> {n \in names : n # << >> /\ Front(n) \in prefixes}
          [] OTHER -> {n \in names : n # << >> /\ Front(n) \in prefixes /\ Upper[Last(n)] = Upper[c]}
  IN  IF pattern = <<"*", ".", "*">> THEN names ELSE FoldLeft(Longer, {<< >>}, pattern)
=============================================================================
