------------------------------- MODULE Pixels -------------------------------
(***************************************************************************)
(* The graphics modes of the video adapter: pixels packed into bytes, whose *)
(* even and odd rows lie in two banks, characters drawn from them (pc_at.c) *)
(* and the rows that the display shows (cga.c).                             *)
(***************************************************************************)
EXTENDS Integers, Sequences, FiniteSets, SequencesExt

BytesPerRow == 2
Height == 4
BankOffset == 5         \* 2000h, with unused bytes at the end of a bank
VramBytes == 10
GlyphSize == 2          \* D2E_CP437_HEIGHT

(* Pixels of a byte and values of a pixel; the display has the pixels of    *)
(* the modes with four colours.                                             *)
PerByte(mode) == IF mode = 6 THEN 8 ELSE 4
Colors(mode) == IF mode = 6 THEN 2 ELSE 4
Width(mode) == BytesPerRow * PerByte(mode)

(* d2e_cga_row_offset, and the first pixel of a byte at its top.            *)
RowOffset(y) == (y \div 2) * BytesPerRow + (y % 2) * BankOffset
ByteOf(mode, x, y) == RowOffset(y) + x \div PerByte(mode)
Weight(mode, x) == Colors(mode) ^ (PerByte(mode) - 1 - (x % PerByte(mode)))
OnScreen(mode, x, y) == x < Width(mode) /\ y < Height

(* cga_read_pixel and cga_write_pixel.                                      *)
ReadPixel(mode, v, x, y) ==
  IF OnScreen(mode, x, y) THEN (v[ByteOf(mode, x, y)] \div Weight(mode, x)) % Colors(mode) ELSE 0

\* mutant of WritePixel
WritePixelOver(mode, v, x, y, color) ==
  IF OnScreen(mode, x, y) /\ ReadPixel(mode, v, x, y) = 0
    THEN [v EXCEPT ![ByteOf(mode, x, y)] = @ + Weight(mode, x) * (color % Colors(mode))]
    ELSE v

WritePixel(mode, v, x, y, color) ==
  IF OnScreen(mode, x, y)
    THEN [v EXCEPT ![ByteOf(mode, x, y)] =
            @ + Weight(mode, x) * ((color % Colors(mode)) - ReadPixel(mode, v, x, y))]
    ELSE v

WholeGlyph == (0..GlyphSize - 1) \X (0..GlyphSize - 1)

(* write_graphics_character: a glyph is the set of its <<y, x>>.            *)
XorOf(a, b) == ((a + b) % 2) + 2 * (((a \div 2) + (b \div 2)) % 2)
DrawCharacter(mode, v, row, column, glyph, color, xor) ==
  LET front == color % Colors(mode)
      At(i) == <<(i - 1) \div GlyphSize, (i - 1) % GlyphSize>>
      Dot(u, i) ==
        LET x == column * GlyphSize + At(i)[2]
            y == row * GlyphSize + At(i)[1]
        IN  IF At(i) \in glyph
              THEN WritePixel(mode, u, x, y, IF xor THEN XorOf(ReadPixel(mode, u, x, y), front) ELSE front)
            ELSE IF xor THEN u ELSE WritePixel(mode, u, x, y, 0)
  IN  FoldLeft(Dot, v, [i \in 1..GlyphSize * GlyphSize |-> i])

(* d2e_cga_render_320x200_row, but for the palette: the background or one   *)
(* of the other colours. Of two pixels of mode 6 it shows one.              *)
RenderRow(mode, v, y) ==
  [x \in 0..Width(4) - 1 |->
     LET selector == (v[RowOffset(y) + x \div 4] \div Weight(4, x)) % 4
     IN  IF mode = 6 THEN IF selector = 0 THEN 0 ELSE 1 ELSE selector]

----------------------------------------------------------------------------
Screen(mode) == (0..Width(mode) - 1) \X (0..Height - 1)
PixelsOf(mode, v) == [p \in Screen(mode) |-> ReadPixel(mode, v, p[1], p[2])]

(* A pixel that is written changes no other, and what is not on the screen  *)
(* nothing.                                                                 *)
PixelRight(mode, v, x, y, color, got) ==
  PixelsOf(mode, got) =
    [p \in Screen(mode) |-> IF p = <<x, y>> THEN color % Colors(mode) ELSE PixelsOf(mode, v)[p]]

(* A character fills its cell; drawn by exclusive or it changes the pixels  *)
(* of its glyph, and drawing it again takes it away.                        *)
CharacterRight(mode, v, row, column, glyph, color, xor, got) ==
  LET cell == ((column * GlyphSize)..(column * GlyphSize + GlyphSize - 1))
                \X ((row * GlyphSize)..(row * GlyphSize + GlyphSize - 1))
      Set(p) == <<p[2] - row * GlyphSize, p[1] - column * GlyphSize>> \in glyph
      before == PixelsOf(mode, v)
      after == PixelsOf(mode, got)
      front == color % Colors(mode)
  IN  \A p \in Screen(mode) :
        IF p \notin cell THEN after[p] = before[p]
        ELSE IF xor
          THEN /\ (after[p] # before[p]) <=> (Set(p) /\ front # 0)
               /\ DrawCharacter(mode, got, row, column, glyph, color, TRUE) = v
          ELSE after[p] = IF Set(p) THEN front ELSE 0

(* The display shows the pixels, and of mode 6 whether one of two is set.   *)
RowRight(mode, v, y, got) ==
  \A x \in 0..Width(4) - 1 :
    got[x] = IF mode # 6 THEN ReadPixel(mode, v, x, y)
             ELSE IF ReadPixel(6, v, 2 * x, y) + ReadPixel(6, v, 2 * x + 1, y) = 0 THEN 0 ELSE 1
=============================================================================
