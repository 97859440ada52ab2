------------------------------ MODULE DosPath ------------------------------
(***************************************************************************)
(* dos_resolve_path of pc_at.c: the path of a file on the host for a path   *)
(* of the program, by appending and removing components at the end of a     *)
(* buffer that begins with the root of the drive. Paths are sequences of    *)
(* characters.                                                              *)
(***************************************************************************)
EXTENDS Integers, Sequences, SequencesExt, FiniteSetsExt

IsSeparator(c) == c \in {"/", "\\"}
NotSeparator(c) == ~IsSeparator(c)

(* dos_append_component, into a buffer of some size.                        *)
Failed == [ok |-> FALSE, path |-> << >>]
Path(p) == [ok |-> TRUE, path |-> p]
AppendComponent(p, capacity, component) ==
  LET separator == IF p # << >> /\ ~IsSeparator(Last(p)) THEN <<"/">> ELSE << >>
      longer == p \o separator \o component
  IN  IF Len(longer) + 1 > capacity THEN Failed ELSE Path(longer)

(* dos_remove_component: separators, a name and separators, but no part of  *)
(* the root.                                                                *)
Trimmed(p, least, Goes(_)) ==
  SubSeq(p, 1, Max({least} \cup {n \in least + 1..Len(p) : ~Goes(p[n])}))

\* mutant of RemoveComponent
RemoveComponentAnywhere(p, rootLength) ==
  Trimmed(Trimmed(Trimmed(p, 0, IsSeparator), 0, NotSeparator), 0, IsSeparator)

RemoveComponent(p, rootLength) ==
  Trimmed(Trimmed(Trimmed(p, rootLength, IsSeparator), rootLength, NotSeparator),
          rootLength, IsSeparator)

(* The names between separators.                                            *)
Components(s) ==
  LET Take(words, c) == IF IsSeparator(c) THEN Append(words, << >>)
                        ELSE Append(Front(words), Append(Last(words), c))
  IN  SelectSeq(FoldLeft(Take, <<<< >>>>, s), LAMBDA w : w # << >>)

(* Drive "C" is the current one, and toupper makes it of "c".               *)
HasDrive(guest) == Len(guest) >= 2 /\ guest[2] = ":"
DriveRefused(guest) == HasDrive(guest) /\ guest[1] \notin {"C", "c"}
BehindDrive(guest) == IF HasDrive(guest) THEN SubSeq(guest, 3, Len(guest)) ELSE guest
FromRoot(path) == path # << >> /\ IsSeparator(path[1])

(* dos_resolve_path, with the root and the current directory of the drive.  *)
Walked(p, component, rootLength, capacity) ==
  IF ~p.ok \/ component = <<".">> THEN p
  ELSE IF component = <<".", ".">> THEN Path(RemoveComponent(p.path, rootLength))
  ELSE AppendComponent(p.path, capacity, component)
ResolvePath(root, directory, guest, capacity) ==
  LET path == BehindDrive(guest)
      start == IF FromRoot(path) \/ directory = << >> THEN Path(root)
               ELSE AppendComponent(root, capacity, directory)
  IN  IF DriveRefused(guest) THEN Failed
      ELSE FoldLeft(LAMBDA p, c : Walked(p, c, Len(root), capacity), start, Components(path))

----------------------------------------------------------------------------
(* The same on names: a step up from the root stays there.                  *)
WalkedTo(names, n) ==
  IF n = <<".">> THEN names
  ELSE IF n = <<".", ".">> THEN (IF names = << >> THEN names ELSE Front(names))
  ELSE Append(names, n)
Places(directory, path) ==
  LET from == IF FromRoot(path) THEN << >> ELSE Components(directory)
  IN  [k \in 1..Len(Components(path)) + 1 |->
         FoldLeft(WalkedTo, from, SubSeq(Components(path), 1, k - 1))]

(* The path at a place: a separator before every name.                      *)
Written(root, names) ==
  FoldLeft(LAMBDA p, n : IF IsSeparator(Last(p)) THEN p \o n ELSE p \o <<"/">> \o n, root, names)

(* The host's path is that of the names, so that it never leaves the root;  *)
(* and it is refused exactly when the drive is another, or when it or a     *)
(* place on the way to it does not fit.                                     *)
PathRight(root, directory, guest, capacity, got) ==
  LET places == Places(directory, BehindDrive(guest))
      fits == \A k \in DOMAIN places : Len(Written(root, places[k])) + 1 <= capacity
  IN  /\ got.ok <=> ~DriveRefused(guest) /\ fits
      /\ got.ok => got.path = Written(root, places[Len(places)])
=============================================================================
