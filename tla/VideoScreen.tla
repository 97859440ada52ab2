---------------------------- MODULE VideoScreen ----------------------------
(***************************************************************************)
(* The text memory of the video adapter in pc_at.c: where a mode and a page *)
(* keep their cells, and how a window of them is scrolled.                  *)
(***************************************************************************)
EXTENDS Integers

CONSTANTS Rows,         \* 25
          Narrow,       \* 40 columns; a wide mode has twice as many
          VramCells     \* cells of cga_vram

Blank == "blank"
Cells == 0..VramCells - 1

Columns(m) == IF m \in {0, 1, 4, 5} THEN Narrow ELSE 2 * Narrow
IsText(m) == m <= 3 \/ m = 7

(* text_page_size and text_cell_offset, in cells.                           *)
PageCells(m) == IF Columns(m) = Narrow THEN Rows * Narrow ELSE Rows * 2 * Narrow
CellAt(m, p, r, c) == p * PageCells(m) + r * Columns(m) + c

AtMost(n, limit) == IF n < limit THEN n ELSE limit - 1

(* read_text_cell and write_text_cell: what lies behind the memory of the   *)
(* adapter reads as a blank and is not written.                             *)
Cell(v, c) == IF c \in Cells THEN v[c] ELSE Blank

(* scroll_window, row by row in place, which is why a window goes down from *)
(* its bottom and up from its top.                                          *)
RowMoved(m, p, v, to, from, left, right) ==
  [c \in Cells |->
     IF \E x \in left..right : c = CellAt(m, p, to, x)
       THEN Cell(v, c + CellAt(m, p, from, 0) - CellAt(m, p, to, 0)) ELSE v[c]]
RowBlanked(m, p, v, to, left, right) ==
  [c \in Cells |-> IF \E x \in left..right : c = CellAt(m, p, to, x) THEN Blank ELSE v[c]]

(* The two loops over rows: a row is a copy of the one by lines on, and    *)
(* rows are blank.                                                          *)
TurnRow(first, turn, down) == IF down THEN first - turn + 1 ELSE first + turn - 1

\* mutant of RowsMoved
RowsMovedBackwards(m, p, v, first, turns, by, left, right, down) ==
  LET moved[n \in Nat] ==
        LET to == TurnRow(first, turns + 1 - n, down)
        IN  IF n = 0 THEN v
            ELSE RowMoved(m, p, moved[n - 1], to, IF down THEN to - by ELSE to + by, left, right)
  IN  moved[turns]

RowsMoved(m, p, v, first, turns, by, left, right, down) ==
  LET moved[n \in Nat] ==
        LET to == TurnRow(first, n, down)
        IN  IF n = 0 THEN v
            ELSE RowMoved(m, p, moved[n - 1], to, IF down THEN to - by ELSE to + by, left, right)
  IN  moved[turns]

RowsBlanked(m, p, v, first, turns, left, right) ==
  LET blanked[n \in Nat] ==
        IF n = 0 THEN v ELSE RowBlanked(m, p, blanked[n - 1], first + n - 1, left, right)
  IN  blanked[turns]

Scrolled(m, p, v, lines, top, left, bottom, right, down) ==
  LET low == AtMost(bottom, Rows)
      end == AtMost(right, Columns(m))
      height == low - top + 1
      by == IF lines = 0 \/ lines >= height THEN height ELSE lines
      moved == RowsMoved(m, p, v, IF down THEN low ELSE top, height - by, by, left, end, down)
  IN  IF top >= Rows \/ left >= Columns(m) \/ top > low \/ left > end THEN v
      ELSE RowsBlanked(m, p, moved, IF down THEN top ELSE low - by + 1, by, left, end)

(* A scroll moves every row of its window by the lines asked for and blanks *)
(* what they leave, although it copies row by row in place; nothing outside *)
(* the window changes.                                                      *)
ScrollShifts(m, p, v, w, lines, down, after) ==
  LET Inside(r, c) == w[1] <= r /\ r <= w[3] /\ w[2] <= c /\ c <= w[4]
  IN  \A r \in 0..Rows - 1, c \in 0..Columns(m) - 1 :
        LET by == IF lines = 0 THEN Rows ELSE lines
            from == IF down THEN r - by ELSE r + by
            Shows(q) == Cell(v, CellAt(m, p, q, c))
        IN  Cell(after, CellAt(m, p, r, c)) =
              IF ~Inside(r, c) THEN Shows(r)
              ELSE IF from \in 0..Rows - 1 /\ Inside(from, c) THEN Shows(from) ELSE Blank
=============================================================================
