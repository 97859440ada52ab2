------------------------------ MODULE DosFiles ------------------------------
(***************************************************************************)
(* The file services of INT 21h in pc_at.c: a table of open files, AH=3Dh   *)
(* to 42h, and the directory search of AH=4Eh and 4Fh, whose state belongs  *)
(* to the machine and not to the program's transfer area. A host file is    *)
(* its length; the host's own state is how many streams are open on it.     *)
(***************************************************************************)
EXTENDS Integers, FiniteSets

CONSTANTS FileNames,      \* the entries of the drive's root
          FileSize(_),    \* bytes of an entry
          Special(_),     \* subset of {"hidden", "directory"}
          Patterns,       \* search patterns, as the sets of names they match
          FileSlots,      \* D2E_PC_AT_DOS_FILE_CAPACITY
          MaxRead,        \* largest count a program asks for
          FileFaults      \* subset of {"open", "read", "close", "stat"}

ASSUME DosFilesAssumption ==
  /\ FileSlots \in Nat /\ MaxRead \in Nat
  /\ "" \notin FileNames
  /\ \A n \in FileNames : FileSize(n) \in Nat

Slot == 0..FileSlots - 1
Ok == 0                \* the carry flag is clear
NoMoreFiles == 18
Answers == {Ok, 1, 2, 3, 4, 5, 6, NoMoreFiles}
Closed == [name |-> "", position |-> 0]
NoSearch == [open |-> FALSE, left |-> {}, pattern |-> {}, allowed |-> {}]
Attributes == SUBSET UNION {Special(n) : n \in FileNames}

VARIABLES files,       \* dos_files: what is open in a slot, and its position
          streams,     \* FILE objects open on the host
          search,      \* dos_find_directory, _pattern and _attributes
          directories, \* DIR objects open on the host
          told,        \* names reported since the search began
          skipped,     \* names the host could not describe in this search
          begun,       \* the last AH=4Eh has opened its directory
          answer       \* what the last call returned: Ok, or the error in AX

dosFilesVars == <<files, streams, search, directories, told, skipped, begun, answer>>

Open == [name : FileNames, position : Nat]

DosFilesTypeOK ==
  /\ \A i \in Slot : files[i] = Closed \/ files[i] \in Open
  /\ streams \in Nat /\ directories \in Nat
  /\ search.open \in BOOLEAN /\ search.left \subseteq FileNames
  /\ told \subseteq FileNames /\ skipped \subseteq FileNames
  /\ begun \in BOOLEAN
  /\ answer \in Answers

DosFilesInit ==
  /\ files = [i \in Slot |-> Closed] /\ streams = 0
  /\ search = NoSearch /\ directories = 0
  /\ told = {} /\ skipped = {} /\ begun = FALSE
  /\ answer = Ok

(* dos_file: the slot of a handle, if something is open there.              *)
OpenSlots == {i \in Slot : files[i] # Closed}
FreeSlots == {i \in Slot : files[i] = Closed}

SearchStays == UNCHANGED <<search, directories, told, skipped, begun>>

(* AH=3Dh. A name the path cannot resolve, or the host does not have, ends  *)
(* before or after the search for a slot.                                   *)
OpenFile(name) ==
  /\ FreeSlots # {}
  /\ LET i == CHOOSE i \in FreeSlots : \A j \in FreeSlots : i <= j
     IN  /\ files' = [files EXCEPT ![i] = [name |-> name, position |-> 0]]
         /\ answer' = Ok
  /\ streams' = streams + 1
  /\ SearchStays

OpenRefused ==
  /\ \/ FreeSlots = {} /\ answer' = 4
     \/ FreeSlots # {} /\ "open" \in FileFaults /\ answer' = 2
     \/ answer' = 3
  /\ UNCHANGED <<files, streams>> /\ SearchStays

(* AH=3Eh. The slot is freed whatever fclose returns.                       *)
CloseFile(i) ==
  /\ i \in OpenSlots
  /\ files' = [files EXCEPT ![i] = Closed]
  /\ streams' = streams - 1
  /\ \/ answer' = Ok
     \/ "close" \in FileFaults /\ answer' = 5
  /\ SearchStays

(* AH=3Fh. Chunks are read until one is short; an error of the host hides   *)
(* how much was read, and the position has moved.                           *)
ReadFile(i) ==
  /\ i \in OpenSlots
  /\ \E count \in 0..MaxRead :
       LET at == files[i].position
           size == FileSize(files[i].name)
           rest == IF at < size THEN size - at ELSE 0
           got == IF count < rest THEN count ELSE rest
       IN  \/ /\ files' = [files EXCEPT ![i].position = at + got]
              /\ answer' = Ok
           \/ /\ "read" \in FileFaults /\ count > 0
              /\ \E part \in 0..got : files' = [files EXCEPT ![i].position = at + part]
              /\ answer' = 5
  /\ UNCHANGED streams /\ SearchStays

(* AH=42h. From the beginning, the position or the end; before the          *)
(* beginning is an error.                                                   *)
SeekFile(i) ==
  /\ i \in OpenSlots
  /\ \E origin \in {0, files[i].position, FileSize(files[i].name)},
        offset \in -MaxRead..MaxRead :
       /\ origin + offset <= FileSize(files[i].name) + 1
       /\ IF origin + offset < 0
            THEN answer' = 1 /\ UNCHANGED files
            ELSE /\ files' = [files EXCEPT ![i].position = origin + offset]
                 /\ answer' = Ok
  /\ UNCHANGED streams /\ SearchStays

(* A handle that is not open, for any of the three.                         *)
BadHandle ==
  /\ FreeSlots # {}
  /\ answer' = 6
  /\ UNCHANGED <<files, streams>> /\ SearchStays

----------------------------------------------------------------------------
(* dos_find_next: entries in the order of the host, without those that do   *)
(* not match, that the host cannot describe, or that are special in a way   *)
(* the program did not ask for. s, t and u are the search, the names told   *)
(* and those passed over, so far.                                           *)
Wanted(s, name) == name \in s.pattern /\ Special(name) \subseteq s.allowed

(* The entries passed over before the one that is reported, or the end.     *)
FindNextFrom(s, t, u, open) ==
  \E over \in SUBSET s.left :
    LET failing == {n \in over : Wanted(s, n)}
        rest == s.left \ over
    IN  /\ failing # {} => "stat" \in FileFaults
        /\ \/ \E name \in rest :
                /\ s.open /\ Wanted(s, name)
                /\ search' = [s EXCEPT !.left = rest \ {name}]
                /\ told' = t \cup {name} /\ skipped' = u \cup failing
                /\ directories' = open
                /\ answer' = Ok
           \/ /\ s.open => rest = {}
              /\ s.open \/ over = {}
              /\ search' = [s EXCEPT !.open = FALSE, !.left = {}]
              /\ told' = t /\ skipped' = u \cup failing
              /\ directories' = IF s.open THEN open - 1 ELSE open
              /\ answer' = NoMoreFiles

\* mutant of AfterClose
AfterNothing == directories

(* AH=4Eh. The last search ends first, also when the new one cannot begin.  *)
AfterClose == directories - (IF search.open THEN 1 ELSE 0)

\* mutant of FindFirst
FindFirstResuming ==
  /\ \E pattern \in Patterns, allowed \in Attributes :
       LET s == [open |-> TRUE, left |-> IF search.open THEN search.left ELSE FileNames,
                 pattern |-> pattern, allowed |-> allowed]
       IN  FindNextFrom(s, {}, {}, AfterClose + 1)
  /\ begun' = TRUE
  /\ UNCHANGED <<files, streams>>

FindFirst ==
  /\ \E pattern \in Patterns, allowed \in Attributes :
       LET s == [open |-> TRUE, left |-> FileNames, pattern |-> pattern, allowed |-> allowed]
       IN  FindNextFrom(s, {}, {}, AfterClose + 1)
  /\ begun' = TRUE
  /\ UNCHANGED <<files, streams>>

(* A path that does not resolve leaves the pattern of the last search, a    *)
(* directory that does not open has replaced it.                            *)
FindFirstRefused ==
  /\ \E pattern \in Patterns \cup {search.pattern},
        allowed \in Attributes \cup {search.allowed} :
       search' = [open |-> FALSE, left |-> {}, pattern |-> pattern, allowed |-> allowed]
  /\ directories' = AfterClose
  /\ told' = {} /\ skipped' = {} /\ begun' = FALSE
  /\ answer' = 3
  /\ UNCHANGED <<files, streams>>

(* AH=4Fh.                                                                  *)
FindNext ==
  /\ FindNextFrom(search, told, skipped, directories)
  /\ UNCHANGED <<files, streams, begun>>

(* d2e_pc_at_reset closes what is open before it clears the table.          *)
ResetFiles ==
  /\ streams' = streams - Cardinality(OpenSlots)
  /\ files' = [i \in Slot |-> Closed]
  /\ directories' = AfterClose
  /\ search' = NoSearch
  /\ told' = {} /\ skipped' = {} /\ begun' = FALSE
  /\ answer' = Ok

DosFilesNext ==
  \/ \E name \in FileNames : OpenFile(name)
  \/ OpenRefused \/ BadHandle
  \/ \E i \in Slot : CloseFile(i) \/ ReadFile(i) \/ SeekFile(i)
  \/ FindFirst \/ FindFirstRefused \/ FindNext
  \/ ResetFiles

DosFilesSpec == DosFilesInit /\ [][DosFilesNext]_dosFilesVars

----------------------------------------------------------------------------
(* Nothing of the host is left open or closed twice: its streams are those  *)
(* of the table, its directories that of the search, whatever failed and    *)
(* however programs and searches follow on each other.                      *)
StreamsAreOwned ==
  /\ streams = Cardinality(OpenSlots)
  /\ directories = IF search.open THEN 1 ELSE 0

(* When a search is answered with "no more files", it has reported every    *)
(* entry that matches and that the program asked for, but those the host    *)
(* could not describe, and no other.                                        *)
SearchFindsAll ==
  /\ told \subseteq {n \in FileNames : Wanted(search, n)}
  /\ begun /\ answer = NoMoreFiles =>
       told \cup skipped = {n \in FileNames : Wanted(search, n)}
=============================================================================
