------------------------------ MODULE Display ------------------------------
(***************************************************************************)
(* The panel of the board (cyd_display.c) as render_pc_frame drives it: a   *)
(* frame is drawn stripe by stripe into two buffers in turn, each handed to *)
(* the SPI driver, whose DMA reads it while the task draws the next one.    *)
(*                                                                         *)
(* Memory is counted in banks, the halves of a buffer: with a secondary    *)
(* buffer each buffer has two banks and a stripe two rows; without one the  *)
(* two buffers are the halves of the primary one, with a row each.          *)
(***************************************************************************)
EXTENDS Integers, Sequences

CONSTANTS PanelRows,   \* CYD_DISPLAY_HEIGHT, in halves of a full stripe
          DisplayFaults \* subset of {"alloc", "submit", "timeout"}

ASSUME DisplayAssumption == PanelRows \in Nat \ {0}

Buffers == 2           \* CYD_DISPLAY_DMA_BUFFER_COUNT
Bank == 0..3
Images == {0, 1}       \* successive frames differ
NoBuffer == -1

VARIABLES draw,        \* where the task is
          secondary,   \* secondary_dma_buffer is allocated
          inFlight,    \* transfers_in_flight
          nextBuffer,  \* next_buffer
          finished,    \* transfer_done, the counting semaphore
          held,        \* the buffer the task draws into
          row,         \* panel_y
          sent,        \* transfers the driver has not completed, in order
          pixels,      \* what each bank holds
          image,       \* the frame the task draws
          panel        \* what each row of the panel shows

displayVars == <<draw, secondary, inFlight, nextBuffer, finished, held, row, sent,
                 pixels, image, panel>>

Pixels == Images \X (0..PanelRows - 1)
Transfer == [first : Bank, top : 0..PanelRows - 1, rows : {1, 2}]

DisplayTypeOK ==
  /\ draw \in {"idle", "acquire", "draw", "submit", "flush", "enable", "disable", "abort"}
  /\ secondary \in BOOLEAN
  /\ inFlight \in 0..Buffers /\ finished \in 0..Buffers
  /\ nextBuffer \in 0..Buffers - 1
  /\ held \in {NoBuffer, 0, 1}
  /\ row \in 0..PanelRows + 1
  /\ sent \in Seq(Transfer)
  /\ pixels \in [Bank -> Pixels]
  /\ image \in Images
  /\ panel \in [0..PanelRows - 1 -> Pixels]

(* The first bank of a buffer, the rows of a transfer, and the banks a      *)
(* transfer is read from.                                                   *)
FirstBank(b) == IF secondary THEN 2 * b ELSE b
StripeRows == IF secondary THEN 2 ELSE 1
RowsAt(y) == IF StripeRows > PanelRows - y THEN PanelRows - y ELSE StripeRows
BanksOf(t) == t.first..(t.first + t.rows - 1)

(* cyd_display_init allocates both buffers, and clearing the panel is a     *)
(* frame like any other.                                                    *)
DisplayInit ==
  /\ draw = "idle" /\ secondary = TRUE
  /\ inFlight = 0 /\ nextBuffer = 0 /\ finished = 0 /\ held = NoBuffer
  /\ row = 0 /\ sent = << >>
  /\ pixels = [b \in Bank |-> <<0, 0>>]
  /\ image = 0
  /\ panel = [r \in 0..PanelRows - 1 |-> <<0, r>>]

----------------------------------------------------------------------------
(* The task.                                                                *)

BeginFrame ==
  /\ draw = "idle"
  /\ draw' = "acquire" /\ row' = 0 /\ image' = 1 - image
  /\ UNCHANGED <<secondary, inFlight, nextBuffer, finished, held, sent, pixels, panel>>

\* mutant of Acquire
AcquireUncounted ==
  /\ draw = "acquire" /\ row < PanelRows
  /\ IF inFlight = Buffers /\ finished > 0
       THEN finished' = finished - 1 /\ inFlight' = inFlight - 1
       ELSE UNCHANGED <<finished, inFlight>>
  /\ held' = nextBuffer
  /\ nextBuffer' = (nextBuffer + 1) % Buffers
  /\ draw' = "draw"
  /\ UNCHANGED <<secondary, row, sent, pixels, image, panel>>

(* cyd_display_acquire_buffer: waits for a completion only when every       *)
(* buffer is with the driver.                                               *)
Acquire ==
  /\ draw = "acquire" /\ row < PanelRows
  /\ IF inFlight = Buffers
       THEN /\ finished > 0
            /\ finished' = finished - 1 /\ inFlight' = inFlight - 1
       ELSE UNCHANGED <<finished, inFlight>>
  /\ held' = nextBuffer
  /\ nextBuffer' = (nextBuffer + 1) % Buffers
  /\ draw' = "draw"
  /\ UNCHANGED <<secondary, row, sent, pixels, image, panel>>

DrawStripe ==
  /\ draw = "draw"
  /\ LET first == FirstBank(held)
     IN  pixels' = [b \in Bank |-> IF b \in first..(first + RowsAt(row) - 1)
                                     THEN <<image, row + b - first>> ELSE pixels[b]]
  /\ draw' = "submit"
  /\ UNCHANGED <<secondary, inFlight, nextBuffer, finished, held, row, sent, image, panel>>

(* cyd_display_draw_bitmap.                                                 *)
Submit ==
  /\ draw = "submit"
  /\ sent' = Append(sent, [first |-> FirstBank(held), top |-> row, rows |-> RowsAt(row)])
  /\ inFlight' = inFlight + 1
  /\ row' = row + StripeRows
  /\ held' = NoBuffer /\ draw' = "acquire"
  /\ UNCHANGED <<secondary, nextBuffer, finished, pixels, image, panel>>

(* The driver refuses the transfer: ESP_ERROR_CHECK.                        *)
SubmitFails ==
  /\ draw = "submit" /\ "submit" \in DisplayFaults
  /\ draw' = "abort"
  /\ UNCHANGED <<secondary, inFlight, nextBuffer, finished, held, row, sent, pixels, image, panel>>

LastStripe ==
  /\ draw = "acquire" /\ row >= PanelRows
  /\ draw' = "flush"
  /\ UNCHANGED <<secondary, inFlight, nextBuffer, finished, held, row, sent, pixels, image, panel>>

(* cyd_display_set_double_buffered begins with a flush of its own.          *)
BeginRebuffer ==
  /\ draw = "idle"
  /\ draw' \in {"enable", "disable"}
  /\ UNCHANGED <<secondary, inFlight, nextBuffer, finished, held, row, sent, pixels, image, panel>>

InFlush == {"flush", "enable", "disable"}

(* cyd_display_flush.                                                       *)
FlushOne ==
  /\ draw \in InFlush /\ inFlight > 0 /\ finished > 0
  /\ finished' = finished - 1 /\ inFlight' = inFlight - 1
  /\ UNCHANGED <<draw, secondary, nextBuffer, held, row, sent, pixels, image, panel>>

\* mutant of FrameDone
FrameDoneUnflushed ==
  /\ draw = "flush" /\ inFlight <= 1
  /\ draw' = "idle"
  /\ UNCHANGED <<secondary, inFlight, nextBuffer, finished, held, row, sent, pixels, image, panel>>

FrameDone ==
  /\ draw = "flush" /\ inFlight = 0
  /\ draw' = "idle"
  /\ UNCHANGED <<secondary, inFlight, nextBuffer, finished, held, row, sent, pixels, image, panel>>

Rebuffered ==
  /\ draw \in {"enable", "disable"} /\ inFlight = 0
  /\ secondary' = (draw = "enable")
  /\ nextBuffer' = 0
  /\ draw' = "idle"
  /\ UNCHANGED <<inFlight, finished, held, row, sent, pixels, image, panel>>

(* No memory for the secondary buffer: an early return.                     *)
AllocFails ==
  /\ draw = "enable" /\ inFlight = 0 /\ ~secondary /\ "alloc" \in DisplayFaults
  /\ draw' = "idle"
  /\ UNCHANGED <<secondary, inFlight, nextBuffer, finished, held, row, sent, pixels, image, panel>>

(* A second passes without a completion. A frame that fails aborts, a       *)
(* change of buffers returns the error to its caller.                       *)
FlushTimeout ==
  /\ draw \in InFlush /\ inFlight > 0 /\ finished = 0 /\ "timeout" \in DisplayFaults
  /\ draw' = IF draw = "flush" THEN "abort" ELSE "idle"
  /\ UNCHANGED <<secondary, inFlight, nextBuffer, finished, held, row, sent, pixels, image, panel>>

(* The chip restarts; the panel keeps what it shows.                        *)
Reboot ==
  /\ draw = "abort"
  /\ draw' = "acquire" /\ secondary' = TRUE
  /\ inFlight' = 0 /\ nextBuffer' = 0 /\ finished' = 0 /\ held' = NoBuffer
  /\ row' = 0 /\ sent' = << >> /\ image' = 1 - image
  /\ UNCHANGED <<pixels, panel>>

----------------------------------------------------------------------------
(* The DMA reads a transfer out, and the driver's interrupt calls           *)
(* cyd_display_on_color_transfer_done, which gives the semaphore.           *)
TransferDone ==
  /\ draw # "abort" /\ sent # << >>
  /\ LET t == Head(sent)
     IN  panel' = [r \in DOMAIN panel |->
                     IF r \in t.top..(t.top + t.rows - 1)
                       THEN pixels[t.first + r - t.top] ELSE panel[r]]
  /\ sent' = Tail(sent)
  /\ finished' = IF finished < Buffers THEN finished + 1 ELSE finished
  /\ UNCHANGED <<draw, secondary, inFlight, nextBuffer, held, row, pixels, image>>

DrawNext ==
  \/ Acquire \/ DrawStripe \/ Submit \/ LastStripe \/ FlushOne \/ FrameDone \/ Rebuffered

DisplayNext ==
  \/ DrawNext \/ BeginFrame \/ BeginRebuffer
  \/ SubmitFails \/ AllocFails \/ FlushTimeout \/ Reboot
  \/ TransferDone

DisplaySpec == DisplayInit /\ [][DisplayNext]_displayVars

----------------------------------------------------------------------------
(* The task never draws into memory that the DMA still reads: the buffer    *)
(* acquire_buffer hands out is with the driver no more, although it waits   *)
(* for a completion only when both are out, and counts completions only     *)
(* then. Also across a change of the buffers, whose halves overlap.         *)
DrawnIsIdle ==
  draw \in {"draw", "submit"} =>
    \A i \in DOMAIN sent :
      BanksOf(sent[i]) \cap FirstBank(held)..(FirstBank(held) + StripeRows - 1) = {}

(* When a frame is done the panel shows all of it and nothing else: the     *)
(* flush has waited for the last stripe, and none was overdrawn.            *)
PanelIsWhole ==
  draw = "idle" => \A r \in DOMAIN panel : panel[r] = <<image, r>>
=============================================================================
