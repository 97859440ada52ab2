------------------------------- MODULE Video -------------------------------
(***************************************************************************)
(* The video services of INT 10h in pc_at.c: modes, pages, the cursor,      *)
(* scrolling, characters and teletype, and the copy of their state in the   *)
(* BIOS data area. A cell of text is its character, and what shows nothing  *)
(* is Blank. Colours and attributes are left out, and so is what a program  *)
(* draws: after that every cell may hold anything, which is Dots.           *)
(***************************************************************************)
EXTENDS Integers

CONSTANTS Rows, Narrow, VramCells, \* those of VideoScreen
          TextPages,    \* D2E_PC_AT_TEXT_PAGES
          Characters,   \* what a program prints
          Windows,      \* <<top, left, bottom, right>> a program scrolls
          MaxCount,     \* bound on the characters of one AH=09h
          MaxPaper      \* bound on the paper that the screen is compared with

ASSUME VideoAssumption ==
  /\ Rows \in Nat \ {0} /\ Narrow \in Nat \ {0} /\ TextPages \in Nat \ {0}
  /\ VramCells \in Nat /\ VramCells >= Rows * 2 * Narrow
  /\ Characters \cap {"bs", "cr", "lf", "bel"} = {}
  /\ \A w \in Windows, i \in 1..4 : w[i] \in Nat

INSTANCE VideoScreen

Dots == "dots"
Controls == {"bs", "cr", "lf", "bel"}
Modes == {1, 3, 4}        \* a mode of each width, and one for graphics
Pages == 0..TextPages - 1
DefaultShape == <<6, 7>>

VARIABLES mode,        \* video_mode, which gives columns and height
          page,        \* active_page
          cursor,      \* cursor_row, cursor_column of each page
          shape,       \* cursor_start, cursor_end
          vram,        \* cga_vram
          bda,         \* the video fields of the BIOS data area
          served,      \* a service has written them since the launch
          plain,       \* since a text mode was set there was only teletype
          paper        \* what was printed since, on a roll without end

videoVars == <<mode, page, cursor, shape, vram, bda, served, plain, paper>>

(* Positions count from the top left of the roll.                           *)
Unprinted == [at |-> 0, struck |-> [position \in {} |-> Blank]]

Home == [row |-> 0, column |-> 0]

(* update_video_bda: every field at once.                                   *)
Fields(m, p, at, s) ==
  [mode |-> m, columns |-> Columns(m), size |-> PageCells(m), offset |-> p * PageCells(m),
   cursor |-> at, shape |-> s, page |-> p]
Cleared ==
  [mode |-> 0, columns |-> 0, size |-> 0, offset |-> 0,
   cursor |-> [p \in Pages |-> Home], shape |-> <<0, 0>>, page |-> 0]

VideoTypeOK ==
  /\ mode \in Modes /\ page \in Pages
  /\ cursor \in [Pages -> [row : 0..Rows - 1, column : 0..Columns(mode) - 1]]
  /\ vram \in [Cells -> Characters \cup {Blank, Dots}]
  /\ served \in BOOLEAN /\ plain \in BOOLEAN
  /\ paper.at \in Nat /\ \A position \in DOMAIN paper.struck :
                           position \in Nat /\ paper.struck[position] \in Characters

VideoInit ==
  /\ mode = 3 /\ page = 0 /\ cursor = [p \in Pages |-> Home] /\ shape = DefaultShape
  /\ vram = [c \in Cells |-> Blank]
  /\ bda = Cleared /\ served = FALSE
  /\ plain = TRUE /\ paper = Unprinted

(* d2e_pc_at_reset, whose attach writes the BIOS data area, and             *)
(* d2e_supervisor_launch, which clears it with the rest of memory.          *)
LaunchVideo ==
  /\ mode' = 3 /\ page' = 0 /\ cursor' = [p \in Pages |-> Home] /\ shape' = DefaultShape
  /\ vram' = [c \in Cells |-> Blank]
  /\ bda' = Cleared /\ served' = FALSE
  /\ plain' = TRUE /\ paper' = Unprinted

Copied == bda' = Fields(mode', page', cursor', shape') /\ served' = TRUE

(* AH=00h. With bit 7 set what is in memory stays.                          *)
SetVideoMode ==
  /\ mode' \in Modes
  /\ page' = 0 /\ cursor' = [p \in Pages |-> Home] /\ shape' = DefaultShape
  /\ \/ vram' = [c \in Cells |-> Blank] /\ plain' = IsText(mode')
     \/ UNCHANGED vram /\ plain' = FALSE
  /\ paper' = Unprinted
  /\ Copied

(* AH=01h.                                                                  *)
SetShape ==
  /\ shape' \in {DefaultShape, <<0, 7>>}
  /\ UNCHANGED <<mode, page, cursor, vram, plain, paper>>
  /\ Copied

(* AH=02h, set_cursor: a position off the screen is moved onto it.          *)
MovedTo(p, r, c) ==
  [cursor EXCEPT ![p] = [row |-> AtMost(r, Rows), column |-> AtMost(c, Columns(mode))]]

SetCursor ==
  /\ \E p \in Pages, r \in 0..Rows, c \in 0..2 * Narrow : cursor' = MovedTo(p, r, c)
  /\ plain' = FALSE /\ paper' = Unprinted
  /\ UNCHANGED <<mode, page, shape, vram>>
  /\ Copied

\* mutant of SelectPage
SelectPageOnly ==
  /\ page' \in Pages
  /\ plain' = FALSE /\ paper' = Unprinted
  /\ UNCHANGED <<mode, cursor, shape, vram, bda, served>>

(* AH=05h. A page that does not exist is page 0.                            *)
SelectPage ==
  /\ page' \in Pages
  /\ plain' = FALSE /\ paper' = Unprinted
  /\ UNCHANGED <<mode, cursor, shape, vram>>
  /\ Copied

----------------------------------------------------------------------------
(* AH=06h and 07h.                                                          *)
ScrollWindow ==
  /\ \E w \in Windows, lines \in 0..Rows, down \in BOOLEAN :
       vram' = Scrolled(mode, page, vram, lines, w[1], w[2], w[3], w[4], down)
  /\ plain' = FALSE /\ paper' = Unprinted
  /\ UNCHANGED <<mode, page, cursor, shape, bda, served>>

(* write_graphics_character and cga_write_pixel.                            *)
Drawn == [c \in Cells |-> Dots]

(* AH=09h and 0Ah: from the cursor, which stays, around the screen.         *)
WriteCharacters ==
  /\ \E p \in Pages, count \in 0..MaxCount, ch \in Characters :
       LET start == cursor[p].row * Columns(mode) + cursor[p].column
           written == {CellAt(mode, p, 0, (start + k) % (Rows * Columns(mode))) : k \in 0..count - 1}
       IN  IF IsText(mode)
             THEN vram' = [c \in Cells |-> IF c \in written THEN ch ELSE vram[c]]
             ELSE vram' = Drawn
  /\ plain' = FALSE /\ paper' = Unprinted
  /\ UNCHANGED <<mode, page, cursor, shape, bda, served>>

(* AH=0Ch, of the graphics modes.                                           *)
WritePixel ==
  /\ ~IsText(mode)
  /\ vram' = Drawn
  /\ UNCHANGED <<mode, page, cursor, shape, bda, served, plain, paper>>

\* mutant of After
AfterLate(ch, at) ==
  CASE ch = "bs" -> [at EXCEPT !.column = IF @ # 0 THEN @ - 1 ELSE 0]
    [] ch = "cr" -> [at EXCEPT !.column = 0]
    [] ch = "lf" -> [at EXCEPT !.row = @ + 1]
    [] ch = "bel" -> at
    [] ch \in Characters -> [at EXCEPT !.column = @ + 1]

(* AH=0Eh: the character, the cursor behind it, and the screen if the       *)
(* cursor has left it.                                                      *)
After(ch, at) ==
  CASE ch = "bs" -> [at EXCEPT !.column = IF @ # 0 THEN @ - 1 ELSE 0]
    [] ch = "cr" -> [at EXCEPT !.column = 0]
    [] ch = "lf" -> [at EXCEPT !.row = @ + 1]
    [] ch = "bel" -> at
    [] ch \in Characters ->
         IF at.column + 1 < Columns(mode) THEN [at EXCEPT !.column = @ + 1]
                                          ELSE [row |-> at.row + 1, column |-> 0]

(* A character typed on the roll.                                           *)
TypedAt(at, ch) ==
  LET width == Columns(mode)
  IN  CASE ch = "bs" -> IF at % width = 0 THEN at ELSE at - 1
        [] ch = "cr" -> at - (at % width)
        [] ch = "lf" -> at + width
        [] ch = "bel" -> at
        [] ch \in Characters -> at + 1
Rolled(roll, ch) ==
  [at |-> TypedAt(roll.at, ch),
   struck |-> IF ch \notin Characters THEN roll.struck
              ELSE [q \in DOMAIN roll.struck \cup {roll.at} |->
                      IF q = roll.at THEN ch ELSE roll.struck[q]]]

Teletype ==
  \E ch \in Characters \cup Controls :
    LET at == cursor[page]
        cell == CellAt(mode, page, at.row, at.column)
        next == After(ch, at)
        printed == IF ch \notin Characters THEN vram
                   ELSE IF IsText(mode)
                     THEN [c \in Cells |-> IF c = cell THEN ch ELSE vram[c]]
                     ELSE Drawn
    IN  /\ plain => paper.at < MaxPaper
        /\ vram' = IF next.row >= Rows
                     THEN Scrolled(mode, page, printed, 1, 0, 0, Rows - 1, Columns(mode) - 1, FALSE) ELSE printed
        /\ cursor' = MovedTo(page, next.row, next.column)
        /\ paper' = IF plain THEN Rolled(paper, ch) ELSE paper
        /\ UNCHANGED <<mode, page, shape, plain>>
        /\ Copied

VideoNext ==
  \/ LaunchVideo \/ SetVideoMode \/ SetShape \/ SetCursor \/ SelectPage
  \/ ScrollWindow \/ WriteCharacters \/ WritePixel \/ Teletype

VideoSpec == VideoInit /\ [][VideoNext]_videoVars

----------------------------------------------------------------------------
(* A program that reads the BIOS data area finds what the services work     *)
(* with, from its first call that sets a mode, a page, a cursor or its      *)
(* shape, or prints, on, whatever is called later. Before that call, also   *)
(* after a scroll, it finds the zeros that the launch leaves.               *)
BdaFollows == bda = IF served THEN Fields(mode, page, cursor, shape) ELSE Cleared

(* What is printed since a text mode was set is on the screen as on a roll  *)
(* of paper, of which the screen shows the last lines, with the cursor at   *)
(* its end: wrapping at the last column, backspace, and scrolling at the    *)
(* last row agree.                                                          *)
TeletypeLikePaper ==
  plain =>
    LET width == Columns(mode)
        line == paper.at \div width
        above == IF line < Rows THEN 0 ELSE (line - (Rows - 1)) * width
    IN  /\ cursor[0].row * width + cursor[0].column = paper.at - above
        /\ \A c \in 0..Rows * width - 1 :
             vram[c] = IF c + above \in DOMAIN paper.struck THEN paper.struck[c + above] ELSE Blank
=============================================================================
