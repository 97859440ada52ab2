----------------------------- MODULE Algorithms -----------------------------
(***************************************************************************)
(* The pure functions of the program against what they should compute: one  *)
(* step takes an input and computes the answers to all of its questions,    *)
(* in a function. Each is a module of its own, here for small sizes.        *)
(***************************************************************************)
EXTENDS Integers, FiniteSets, TLC, SequencesExt

CONSTANT Inputs        \* of the kinds below

VARIABLES input, answered, output

algorithmVars == <<input, answered, output>>

----------------------------------------------------------------------------
(* x86_alu.c: every second operand, or count, of an operation on a word.    *)
LOCAL A == INSTANCE AluReference
AluOps == {"add", "adc", "sub", "sbb", "inc", "dec", "logic"}
ShiftOps == {"shl", "shr", "sar", "rol", "ror", "rcl", "rcr"}
AluRow(ops, w, ls, rs) ==
  [kind : {"alu"}, op : ops, w : {w}, l : ls, rs : {rs}, f : {{}, A!Arithmetic}]
AluInputs(w, v, u) ==
  AluRow(AluOps, w, 0..2 ^ w - 1, 0..2 ^ w - 1)
    \cup AluRow(ShiftOps, v, 0..2 ^ v - 1, 0..2 * v + 2)
    \cup AluRow({"mul", "imul"}, u, 0..2 ^ u - 1, 0..2 ^ u - 1)
    \cup AluRow({"div", "idiv"}, u, 0..4 ^ u - 1, 0..2 ^ u - 1)
DecimalInputs(digits) ==
  AluRow({"daa", "das"}, 8, digits, digits)
    \cup AluRow({"aaa", "aas", "aam"}, 8, 0..9, 0..9)
    \cup AluRow({"aad"}, 8, digits, {0})
AluAnswer(i) == [r \in i.rs |-> A!Computed(i.op, i.w, i.l, r, i.f)]
AluRight(i, answer) == \A r \in i.rs : A!Right(i.op, i.w, i.l, r, i.f, answer[r])

(* dos_wildcard_match: the names of up to three characters.                 *)
LOCAL W == INSTANCE Wildcard
Strings(S, n) == UNION {[1..k -> S] : k \in 0..n}
ShortNames == Strings({"A", "B", "."}, 3)
WildcardInputs(n) == [kind : {"wildcard"}, pattern : Strings({"a", "B", ".", "*", "?"}, n)]
WildcardAnswer(i) == {n \in ShortNames : W!WildcardMatch(i.pattern, n)}
WildcardRight(i, answer) == answer = W!Language(i.pattern, ShortNames)

----------------------------------------------------------------------------
(* d2e_xip_module_open: every value of one number of a module.              *)
LOCAL M == INSTANCE ModuleFormat WITH
  Limit <- 16, HeaderSize <- 2, FlashPage <- 4, RelocationSize <- 2, FragmentSize <- 2, MzSize <- 2,
  PatchSize <- 2
Patch(at) == [patch |-> at, kind |-> "import", target |-> 0]
Fragment(image, data, size) == [image |-> image, data |-> data, size |-> size]
File == [held |-> 15, size |-> 15, irom |-> 4, iromSize |-> 4, drom |-> 8, dromSize |-> 6,
         region |-> 0, imageSize |-> 12, relocs |-> 2, relocations |-> << >>,
         frags |-> 2, fragments |-> << >>, mz |-> 2, mzCount |-> 0]
With(m, field, v) ==
  CASE field = "patch" -> [m EXCEPT !.relocations[Len(m.relocations)].patch = v]
    [] field = "target" -> [m EXCEPT !.relocations[Len(m.relocations)].target = v]
    [] field = "size" -> [m EXCEPT !.fragments[Len(m.fragments)].size = v]
    [] field = "dromSize" -> [m EXCEPT !.dromSize = v]
    [] field = "iromSize" -> [m EXCEPT !.iromSize = v]
    [] field = "region" -> [m EXCEPT !.region = v]
    [] field = "mz" -> [m EXCEPT !.mz = v]
    [] field = "mzCount" -> [m EXCEPT !.mzCount = v]
    [] field = "relocs" -> [m EXCEPT !.relocs = v]
    [] field = "frags" -> [m EXCEPT !.frags = v]
ModuleRow(modules, fields) == [kind : {"module"}, m : modules, field : fields]

Layouts == ModuleRow({[File EXCEPT !.held = h, !.size = s, !.irom = a] : h \in {1, 8, 15}, s \in M!Words, a \in M!Words},
                     {"iromSize"})
  \cup ModuleRow({[File EXCEPT !.size = s, !.drom = a] : s \in M!Words, a \in M!Words}, {"dromSize"})
  \cup ModuleRow({[File EXCEPT !.iromSize = s] : s \in M!Words}, {"region"})
Tables == ModuleRow({[File EXCEPT !.size = s, !.mz = a] : s \in {2, 14, 15}, a \in M!Words}, {"mzCount"})
  \cup ModuleRow({[File EXCEPT !.relocations = SubSeq(<<Patch(4), Patch(6)>>, 1, n)] : n \in 0..2}, {"relocs"})
  \cup ModuleRow({[File EXCEPT !.fragments = SubSeq(<<Fragment(0, 8, 1), Fragment(1, 9, 1)>>, 1, n)] : n \in 0..2},
                 {"frags"})
Patches == ModuleRow({[File EXCEPT !.relocations = <<Patch(p), Patch(0)>>] : p \in M!Words}, {"patch"})
  \cup ModuleRow({[File EXCEPT !.relocations = <<[Patch(4) EXCEPT !.kind = k]>>] : k \in {"irom", "drom", "import", "none"}},
                 {"target"})
FragmentTables == ModuleRow({[File EXCEPT !.imageSize = z, !.fragments = <<Fragment(a, d, 0)>>]
                       : a \in M!Words, d \in M!Words, z \in {12, 15}}, {"size"})
  \cup ModuleRow({[File EXCEPT !.imageSize = z, !.fragments = <<Fragment(1, 9, 3), Fragment(a, d, 0)>>]
                       : a \in M!Words, d \in {8, 13}, z \in {12, 15}}, {"size"})
ModuleInputs == Layouts \cup Tables \cup Patches \cup FragmentTables
ModuleAnswer(i) == {v \in M!Words : M!ModuleOpens(With(i.m, i.field, v))}
ModuleRight(i, answer) == answer = {v \in M!Words : M!ModuleIsSafe(With(i.m, i.field, v))}

----------------------------------------------------------------------------
(* A machine of 44 bytes, in segments of 16, for d2e_native_load and for    *)
(* x86_control.c: 32 of them are in the array, and a PSP fits the rest.     *)
LOCAL L == INSTANCE Loader WITH
  ByteSize <- 4, Paragraph <- 4, AddressSpace <- 64, PrimarySize <- 32,
  PageSize <- 3, PageCount <- 4, WindowFirst <- 48, WindowSize <- 4, PspSize <- 8
LOCAL C == INSTANCE Control WITH
  ByteSize <- 4, Paragraph <- 4, AddressSpace <- 64, PrimarySize <- 32,
  PageSize <- 3, PageCount <- 4, WindowFirst <- 48, WindowSize <- 4

(* What a program before has left: nothing, a page that it has allocated,   *)
(* and a full heap.                                                         *)
Junk == [a \in 0..31 |-> (a \div 3) % 4]
Machines ==
  [fresh |-> L!NewMemory(4),
   used |-> [L!NewMemory(1) EXCEPT !.primary = Junk, !.pages[0] = [x \in 0..2 |-> 2], !.stopped = TRUE],
   full |-> [L!NewMemory(0) EXCEPT !.primary = Junk]]

ImageOf(n) == [given |-> TRUE, bytes |-> [x \in 1..n |-> (x + 1) % 4]]
Fragmented == {<< >>, <<<<0, <<1, 2>>>>, <<5, <<3>>>>>>, <<<<2, <<3, 3>>>>, <<4, <<1>>>>>>,
               <<<<0, <<1, 2>>>>, <<1, <<3>>>>>>, <<<<4, <<1, 2, 3>>>>>>, <<<<0, << >>>>>>, <<<<7, <<1>>>>>>}
Relocations == {<< >>, <<<<0, 0>>>>, <<<<0, 1>>, <<1, 0>>>>, <<<<1, 1>>>>, <<<<0, 3>>>>}
ProgramWith(format, segment, n, image, fragments, relocations) ==
  [format |-> format, segment |-> segment, size |-> n, image |-> image, fragments |-> fragments,
   relocations |-> relocations, cs |-> 1, ss |-> 2, sp |-> 14]
ProgramsAt(format, segment, sizes, relocations) ==
  {ProgramWith(format, segment, n, ImageOf(n), fs, rs)
     : n \in sizes, fs \in {<< >>, <<<<0, <<1>>>>>>}, rs \in relocations}
   \cup {ProgramWith(format, segment, 6, L!NoImage, fs, rs) : fs \in Fragmented, rs \in relocations}
LoadInputs ==
  [kind : {"load"}, format : {"com"}, segment : {0, 1, 3, 5, 6, 7, 8, 9, 10, 15}, on : DOMAIN Machines]
    \cup [kind : {"load"}, format : {"mz"}, segment : {0, 1, 2, 5, 7, 8, 9, 10, 11, 12, 15}, on : DOMAIN Machines]
LoadTried(i) ==
  IF i.format = "com" THEN ProgramsAt("com", i.segment, 0..9, {<< >>})
                      ELSE ProgramsAt("mz", i.segment, 0..7, Relocations)
LoadAnswer(i) == [p \in LoadTried(i) |-> L!Load(Machines[i.on], p)]
LoadRight(i, answer) == \A p \in LoadTried(i) : L!LoadedRight(p, Machines[i.on], answer[p])

(* A stack at every offset of a segment; one call inside another.           *)
Calls(back) ==
  {<<"near", back, 0, 1>>, <<"far", back, 9, 4>>, <<"int", back, 7, 15>>, <<"flags", 0, 0, 0>>}
StackOf(i) ==
  [cs |-> 5, ip |-> 11, ss |-> i.ss, sp |-> i.sp, flags |-> i.flags,
   memory |-> [L!NewMemory(2) EXCEPT !.primary = Junk]]
ControlInputs == [kind : {"control"}, ss : {0, 3, 5}, sp : 0..15, flags : {2, 3, 6, 7}]
ControlAnswer(i) ==
  [c \in Calls(3) \X Calls(12) |-> C!CallAndReturn(StackOf(i), c[1], c[2])]
ControlRight(i, answer) ==
  \A c \in Calls(3) \X Calls(12) : C!ReturnsRight(StackOf(i), c[1], c[2], answer[c])

(* scroll_window, on a screen of four rows on which all cells differ.       *)
LOCAL S == INSTANCE VideoScreen WITH Rows <- 4, Narrow <- 2, VramCells <- 32
Screen == [c \in 0..31 |-> ToString(c)]
ScrollInputs ==
  [kind : {"scroll"}, mode : {1, 3}, page : {0, 1}, top : 0..4, left : {0, 1, 2}, bottom : {0, 2, 3, 9},
   right : {0, 1, 9}]
Amounts == (0..5) \X BOOLEAN
ScrollAnswer(i) ==
  [n \in Amounts |-> S!Scrolled(i.mode, i.page, Screen, n[1], i.top, i.left, i.bottom, i.right, n[2])]
ScrollRight(i, answer) ==
  \A n \in Amounts :
    S!ScrollShifts(i.mode, i.page, Screen, <<i.top, i.left, i.bottom, i.right>>, n[1], n[2], answer[n])

(* Repeated MOVS and STOS through one another's elements and over the ends  *)
(* of segments and memory.                                                  *)
LOCAL R == INSTANCE StringOps WITH
  ByteSize <- 4, Paragraph <- 4, AddressSpace <- 64, PrimarySize <- 32,
  PageSize <- 3, PageCount <- 4, WindowFirst <- 48, WindowSize <- 4
RepeatsOf(w, v) ==
  [width : {w}, value : {v}, from : {5, 7}, to : {5, 6, 11}, down : BOOLEAN, copies : BOOLEAN]
Repeats == RepeatsOf(1, 2) \cup RepeatsOf(2, 9)
RepeatInputs == [kind : {"repeat"}, op : Repeats, on : DOMAIN Machines, count : {0, 1, 4}]
RepeatOn(i, source, target) ==
  [memory |-> [Machines[i.on] EXCEPT !.stopped = FALSE], source |-> source, target |-> target,
   count |-> i.count]
Offsets == {0, 1, 9, 14} \X {0, 2, 10, 13, 15}
RepeatAnswer(i) == [x \in Offsets |-> R!Repeat(i.op, RepeatOn(i, x[1], x[2]))]
RepeatRight(i, answer) == \A x \in Offsets : R!RepeatsRight(i.op, RepeatOn(i, x[1], x[2]), answer[x])

(* Every table of blocks, at every address.                                 *)
LOCAL T == INSTANCE BlockTable
BlockTables == {SetToSortSeq(s, <) : s \in SUBSET (0..6)}
BlockInputs == [kind : {"block"}, blocks : BlockTables]
BlockAnswer(i) == [ip \in 0..7 |-> T!FindBlock(i.blocks, ip)]
BlockRight(i, answer) == \A ip \in 0..7 : T!BlockFound(i.blocks, ip, answer[ip])

(* The speaker, through a change of its control and back.                   *)
LOCAL P == INSTANCE Synthesizer WITH Tick <- 2, Period <- 3, Longest <- 5
SpeakerControls == [reload : {0, 2}, mode : 0..7, gate : {0, 1}, data : {0, 1}]
Tone(c, g) == [generation |-> g] @@ c
SoundInputs == [kind : {"sound"}, control : SpeakerControls, n : {0, 1, 4}]
Blocks(i, c) ==
  <<<<Tone(i.control, 1), i.n>>, <<Tone(c, IF c = i.control THEN 1 ELSE 2), 3>>, <<Tone(i.control, 3), 6>>>>
SoundAnswer(i) == [c \in SpeakerControls |-> P!Played(Blocks(i, c)).samples]
SoundRight(i, answer) == \A c \in SpeakerControls : P!SoundRight(Blocks(i, c), answer[c])

(* The graphics modes, on a screen on which the pixels of a byte differ.    *)
LOCAL G == INSTANCE Pixels
Picture == [b \in 0..G!VramBytes - 1 |-> (b * 83 + 27) % 256]
PixelInputs == [kind : {"pixel"}, mode : {4, 6}, x : 0..17, y : 0..4]
Glyphs == {{<<0, 0>>}, {<<0, 1>>, <<1, 0>>}, G!WholeGlyph}
Strikes == Glyphs \X (0..3) \X BOOLEAN
PixelAnswer(i) ==
  [pixel |-> [c \in 0..3 |-> G!WritePixel(i.mode, Picture, i.x, i.y, c)],
   character |-> [s \in Strikes |-> G!DrawCharacter(i.mode, Picture, i.y, i.x, s[1], s[2], s[3])],
   shown |-> G!RenderRow(i.mode, Picture, i.y % G!Height)]
PixelRight(i, answer) ==
  /\ \A c \in 0..3 : G!PixelRight(i.mode, Picture, i.x, i.y, c, answer.pixel[c])
  /\ \A s \in Strikes :
       G!CharacterRight(i.mode, Picture, i.y, i.x, s[1], s[2], s[3], answer.character[s])
  /\ G!RowRight(i.mode, Picture, i.y % G!Height, answer.shown)

(* Paths of up to five characters, from the root and from a directory.      *)
LOCAL D == INSTANCE DosPath
Guests(first) == {<<first>> \o s : s \in Strings({"a", "/", ".", ":"}, 4)}
PathInputs ==
  [kind : {"path"}, root : {<<"/">>, <<"r">>, <<"r", "/">>}, directory : {<< >>, <<"g">>, <<"g", "/", "h">>},
   first : {"C", "D", "a", "/", "\\", "."}, capacity : {4, 5, 9}]
PathAnswer(i) == [g \in Guests(i.first) |-> D!ResolvePath(i.root, i.directory, g, i.capacity)]
PathRight(i, answer) ==
  \A g \in Guests(i.first) : D!PathRight(i.root, i.directory, g, i.capacity, answer[g])

----------------------------------------------------------------------------
AlgorithmInit == input \in Inputs /\ answered = FALSE /\ output = {}

Answer(i) ==
  CASE i.kind = "alu" -> AluAnswer(i)
    [] i.kind = "wildcard" -> WildcardAnswer(i)
    [] i.kind = "module" -> ModuleAnswer(i)
    [] i.kind = "load" -> LoadAnswer(i)
    [] i.kind = "control" -> ControlAnswer(i)
    [] i.kind = "scroll" -> ScrollAnswer(i)
    [] i.kind = "repeat" -> RepeatAnswer(i)
    [] i.kind = "block" -> BlockAnswer(i)
    [] i.kind = "sound" -> SoundAnswer(i)
    [] i.kind = "pixel" -> PixelAnswer(i)
    [] i.kind = "path" -> PathAnswer(i)

Compute ==
  /\ ~answered
  /\ answered' = TRUE /\ output' = Answer(input)
  /\ UNCHANGED input

Idle == answered /\ UNCHANGED algorithmVars

AlgorithmNext == Compute \/ Idle

AlgorithmSpec == AlgorithmInit /\ [][AlgorithmNext]_algorithmVars

(* Arithmetic and flags are those of the 8086; a pattern finds the names of *)
(* its language; a module is opened exactly when everything it names is     *)
(* inside it, however its numbers overflow; a program starts on its image,  *)
(* relocations and PSP and is loaded exactly when they fit; a return goes   *)
(* back to its call around the end of a segment; a scroll in place moves a  *)
(* window like one into another screen; a repeated string instruction does  *)
(* element by element what fits memory; a block is found where there is     *)
(* one; the speaker plays what its PIT counts; a pixel or a character       *)
(* changes its own place; and a path never leaves the root of the drive.    *)
OutputIsRight ==
  answered =>
    CASE input.kind = "alu" -> AluRight(input, output)
      [] input.kind = "wildcard" -> WildcardRight(input, output)
      [] input.kind = "module" -> ModuleRight(input, output)
      [] input.kind = "load" -> LoadRight(input, output)
      [] input.kind = "control" -> ControlRight(input, output)
      [] input.kind = "scroll" -> ScrollRight(input, output)
      [] input.kind = "repeat" -> RepeatRight(input, output)
      [] input.kind = "block" -> BlockRight(input, output)
      [] input.kind = "sound" -> SoundRight(input, output)
      [] input.kind = "pixel" -> PixelRight(input, output)
      [] input.kind = "path" -> PathRight(input, output)
=============================================================================
