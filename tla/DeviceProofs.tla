---------------------------- MODULE DeviceProofs ----------------------------
(***************************************************************************)
(* What a program calls and what stands behind it: the display and the      *)
(* screen, for any height of the panel and any geometry of a mode, then the *)
(* DOS services and the timer, for any size of memory and of a word, any    *)
(* number of entries and slots, any patterns, any length of a day.          *)
(***************************************************************************)
EXTENDS Display, Video, DosFiles, DosMemory, Clock, Pit, FiniteSetTheorems, Induction, TLAPS

Drawing == {"draw", "submit"}

(* Every transfer in flight is with the driver or completed and not yet     *)
(* waited for, and the transfers are of the two buffers in turn.            *)
CountInv == inFlight = Len(sent) + finished

RotationInv ==
  /\ draw \in Drawing => /\ held = 1 - nextBuffer /\ inFlight < Buffers /\ row < PanelRows
                         /\ \A i \in 1..Len(sent) : sent[i].first = FirstBank(nextBuffer)
  /\ draw \notin Drawing =>
       \/ draw = "abort"
       \/ \A i \in 1..Len(sent) :
            sent[i].first = FirstBank(IF i = Len(sent) THEN 1 - nextBuffer ELSE nextBuffer)
  /\ \A i \in 1..Len(sent) : sent[i].rows <= StripeRows

DisplayIInv == DisplayTypeOK /\ CountInv /\ RotationInv

(* A sequence with one element more, and without its first.                 *)
LEMMA Appended ==
  ASSUME NEW S, NEW s \in Seq(S), NEW e \in S
  PROVE  /\ Append(s, e) \in Seq(S)
         /\ Len(Append(s, e)) = Len(s) + 1
         /\ \A i \in 1..Len(s) : Append(s, e)[i] = s[i]
         /\ Append(s, e)[Len(s) + 1] = e
  OBVIOUS

LEMMA ShiftedIndex ==
  ASSUME NEW S, NEW s \in Seq(S), s # << >>
  PROVE  /\ Tail(s) \in Seq(S) /\ Head(s) \in S /\ Head(s) = s[1]
         /\ Len(s) \in Nat \ {0} /\ Len(Tail(s)) = Len(s) - 1
         /\ \A i \in 1..Len(s) - 1 : Tail(s)[i] = s[i + 1]
  OBVIOUS

LEMMA DisplayInitial == DisplayInit => DisplayIInv
<1> SUFFICES ASSUME DisplayInit PROVE DisplayIInv
  OBVIOUS
<1>1. << >> \in Seq(Transfer) /\ Len(<< >>) = 0
  OBVIOUS
<1>2. \A r \in 0..PanelRows - 1 : <<0, r>> \in Pixels
  BY DEF Pixels, Images
<1>3. 0 \in 0..PanelRows - 1
  BY DisplayAssumption
<1>4. DisplayTypeOK
  BY <1>1, <1>2, <1>3, DisplayAssumption
     DEF DisplayInit, DisplayTypeOK, Buffers, Images, NoBuffer
<1> QED  BY <1>1, <1>4 DEF DisplayInit, DisplayIInv, CountInv, RotationInv, Drawing

LEMMA DisplayKept == DisplayIInv /\ [DisplayNext]_displayVars => DisplayIInv'
<1> SUFFICES ASSUME DisplayIInv, [DisplayNext]_displayVars PROVE DisplayIInv'
  OBVIOUS
<1> USE DisplayAssumption DEF DisplayIInv, Buffers
<1>t. /\ DisplayTypeOK /\ CountInv /\ RotationInv
      /\ sent \in Seq(Transfer) /\ Len(sent) \in Nat
  BY DEF DisplayTypeOK
<1>1. CASE UNCHANGED <<inFlight, nextBuffer, finished, held, sent, secondary, panel, row, pixels>>
             /\ image' \in Images
             /\ draw' \in {"idle", "acquire", "flush", "enable", "disable", "abort"}
             /\ draw \in {"idle", "acquire", "flush", "enable", "disable"}
  BY <1>1, <1>t DEF DisplayTypeOK, CountInv, RotationInv, Drawing, FirstBank, StripeRows
<1>2. CASE BeginFrame
  <2>1. row' = 0 /\ image' \in Images /\ draw' = "acquire" /\ draw = "idle"
    BY <1>2, <1>t DEF BeginFrame, DisplayTypeOK, Images
  <2> QED  BY <1>2, <2>1, <1>t
           DEF BeginFrame, DisplayTypeOK, CountInv, RotationInv, Drawing, FirstBank, StripeRows
<1>3. CASE Acquire
  <2>1. finished' + Len(sent) = inFlight' /\ inFlight' \in 0..1 /\ finished' \in 0..2
    BY <1>3, <1>t DEF Acquire, DisplayTypeOK, CountInv
  <2>2. nextBuffer' = 1 - nextBuffer /\ nextBuffer' \in 0..1 /\ held' = nextBuffer
    BY <1>3, <1>t DEF Acquire, DisplayTypeOK
  <2>3. Len(sent) <= 1
    BY <2>1, <1>t
  <2>4. \A i \in 1..Len(sent) : sent[i].first = FirstBank(1 - nextBuffer)
    BY <1>3, <2>3, <1>t DEF Acquire, RotationInv, Drawing
  <2>5. RotationInv'
    BY <1>3, <2>1, <2>2, <2>4, <1>t
       DEF Acquire, RotationInv, Drawing, FirstBank, StripeRows, DisplayTypeOK
  <2> QED  BY <1>3, <2>1, <2>2, <2>5, <1>t DEF Acquire, DisplayTypeOK, CountInv
<1>4. CASE DrawStripe
  <2>1. draw = "draw" /\ held \in 0..1 /\ row \in 0..PanelRows - 1 /\ image \in Images
    BY <1>4, <1>t DEF DrawStripe, RotationInv, Drawing, DisplayTypeOK
  <2>2. FirstBank(held) \in 0..2 /\ RowsAt(row) \in {1, 2} /\ row + RowsAt(row) <= PanelRows
    BY <2>1, <1>t DEF FirstBank, RowsAt, StripeRows, DisplayTypeOK
  <2> DEFINE front == FirstBank(held)
  <2> DEFINE last == front + RowsAt(row) - 1
  <2>3. ASSUME NEW b \in Bank, b \in front..last PROVE <<image, row + b - front>> \in Pixels
    <3>1. row + b - front \in 0..PanelRows - 1
      BY <2>1, <2>2, <2>3 DEF Bank
    <3> QED  BY <3>1, <2>1 DEF Pixels
  <2>4. pixels' = [b \in Bank |-> IF b \in front..last THEN <<image, row + b - front>> ELSE pixels[b]]
    BY <1>4 DEF DrawStripe
  <2> HIDE DEF front, last
  <2>5. pixels' \in [Bank -> Pixels]
    BY <2>3, <2>4, <1>t DEF DisplayTypeOK
  <2>6. RotationInv' /\ CountInv'
    BY <1>4, <1>t DEF DrawStripe, RotationInv, CountInv, Drawing, FirstBank, StripeRows
  <2> QED  BY <1>4, <2>5, <2>6, <1>t DEF DrawStripe, DisplayTypeOK
<1>5. CASE Submit
  <2> DEFINE t == [first |-> FirstBank(held), top |-> row, rows |-> RowsAt(row)]
  <2>1. /\ draw = "submit" /\ held = 1 - nextBuffer /\ nextBuffer \in 0..1
        /\ row \in 0..PanelRows - 1 /\ inFlight \in 0..1
    BY <1>5, <1>t DEF Submit, RotationInv, Drawing, DisplayTypeOK
  <2>2. /\ FirstBank(held) \in Bank /\ RowsAt(row) \in {1, 2} /\ RowsAt(row) <= StripeRows
        /\ StripeRows \in {1, 2} /\ row + StripeRows <= PanelRows + 1
    BY <2>1, <1>t DEF FirstBank, RowsAt, StripeRows, DisplayTypeOK, Bank
  <2>3. t \in Transfer /\ t.first = FirstBank(held) /\ t.rows <= StripeRows
    BY <2>1, <2>2 DEF Transfer
  <2>4. sent' = Append(sent, t)
    BY <1>5 DEF Submit
  <2> HIDE DEF t
  <2>5. /\ sent' \in Seq(Transfer) /\ Len(sent') = Len(sent) + 1
        /\ \A i \in 1..Len(sent) : sent'[i] = sent[i]
        /\ sent'[Len(sent) + 1] = t
    BY <2>3, <2>4, <1>t, Appended
  <2>6. \A i \in 1..Len(sent) : sent[i].first = FirstBank(nextBuffer) /\ sent[i].rows <= StripeRows
    BY <2>1, <1>t DEF RotationInv, Drawing
  <2>7. /\ draw' = "acquire" /\ inFlight' = inFlight + 1 /\ row' = row + StripeRows
        /\ held' = NoBuffer
        /\ UNCHANGED <<secondary, nextBuffer, finished, pixels, image, panel>>
    BY <1>5 DEF Submit
  <2>8. ASSUME NEW i \in 1..Len(sent')
        PROVE  /\ sent'[i].first =
                    FirstBank(IF i = Len(sent') THEN 1 - nextBuffer ELSE nextBuffer)
               /\ sent'[i].rows <= StripeRows
    <3>1. CASE i = Len(sent')
      BY <3>1, <2>1, <2>3, <2>5, <1>t
    <3>2. CASE i # Len(sent')
      <4>1. i \in 1..Len(sent) /\ sent'[i] = sent[i]
        BY <3>2, <2>5, <1>t
      <4> QED  BY <3>2, <4>1, <2>6
    <3> QED  BY <3>1, <3>2
  <2>9. RotationInv'
    BY <2>7, <2>8 DEF RotationInv, Drawing, FirstBank, StripeRows
  <2>10. CountInv'
    BY <2>5, <2>7, <1>t DEF CountInv, DisplayTypeOK
  <2>11. DisplayTypeOK'
    BY <2>1, <2>2, <2>5, <2>7, <1>t DEF DisplayTypeOK, NoBuffer
  <2> QED  BY <2>9, <2>10, <2>11
<1>6. CASE SubmitFails
  BY <1>6, <1>t DEF SubmitFails, DisplayTypeOK, CountInv, RotationInv, Drawing, FirstBank, StripeRows
<1>7. CASE LastStripe \/ BeginRebuffer \/ FrameDone \/ AllocFails \/ FlushTimeout
  <2>1. image' \in Images
    BY <1>7, <1>t DEF LastStripe, BeginRebuffer, FrameDone, AllocFails, FlushTimeout, DisplayTypeOK
  <2> QED  BY <1>7, <1>1, <2>1
           DEF LastStripe, BeginRebuffer, FrameDone, AllocFails, FlushTimeout, InFlush
<1>8. CASE FlushOne
  BY <1>8, <1>t DEF FlushOne, InFlush, DisplayTypeOK, CountInv, RotationInv, Drawing,
                    FirstBank, StripeRows
<1>9. CASE Rebuffered
  <2>1. Len(sent) = 0 /\ secondary' \in BOOLEAN
    BY <1>9, <1>t DEF Rebuffered, CountInv, DisplayTypeOK
  <2> QED  BY <1>9, <2>1, <1>t
           DEF Rebuffered, DisplayTypeOK, CountInv, RotationInv, Drawing
<1>10. CASE Reboot
  <2>1. << >> \in Seq(Transfer) /\ Len(<< >>) = 0
    OBVIOUS
  <2>2. image' \in Images
    BY <1>10, <1>t DEF Reboot, DisplayTypeOK, Images
  <2> QED  BY <1>10, <2>1, <2>2, <1>t
           DEF Reboot, DisplayTypeOK, CountInv, RotationInv, Drawing, NoBuffer
<1>11. CASE TransferDone
  <2>1. /\ sent # << >> /\ sent' = Tail(sent) /\ draw # "abort"
        /\ UNCHANGED <<draw, secondary, inFlight, nextBuffer, held, row, pixels, image>>
    BY <1>11 DEF TransferDone
  <2>2. /\ Tail(sent) \in Seq(Transfer) /\ Head(sent) \in Transfer /\ Head(sent) = sent[1]
        /\ Len(sent) \in Nat \ {0} /\ Len(Tail(sent)) = Len(sent) - 1
        /\ \A i \in 1..Len(sent) - 1 : Tail(sent)[i] = sent[i + 1]
    BY <2>1, <1>t, ShiftedIndex
  <2>3. finished' = finished + 1 /\ finished' \in 0..2
    <3>1. finished < 2
      BY <2>2, <1>t DEF CountInv, DisplayTypeOK
    <3> QED  BY <3>1, <1>11, <1>t DEF TransferDone, DisplayTypeOK
  <2>4. CountInv'
    BY <2>1, <2>2, <2>3, <1>t DEF CountInv, DisplayTypeOK
  <2>5. ASSUME NEW i \in 1..Len(sent')
        PROVE  /\ sent'[i] = sent[i + 1] /\ i + 1 \in 1..Len(sent)
               /\ i = Len(sent') <=> i + 1 = Len(sent)
    BY <2>1, <2>2
  <2>6. RotationInv'
    BY <2>1, <2>5, <1>t DEF RotationInv, Drawing, FirstBank, StripeRows
  <2>7. panel' \in [0..PanelRows - 1 -> Pixels]
    <3> DEFINE t == Head(sent)
    <3>1. /\ t.first \in Bank /\ t.rows \in {1, 2} /\ t.top \in Nat
          /\ t.first + t.rows - 1 \in Bank
      <4>s. t = sent[1] /\ 1 \in 1..Len(sent)
        BY <2>2
      <4>1. t \in Transfer /\ t.rows <= StripeRows
        BY <4>s, <2>2, <1>t DEF RotationInv
      <4>2. t.first = FirstBank(nextBuffer) \/ t.first = FirstBank(1 - nextBuffer)
        BY <4>s, <2>1, <1>t DEF RotationInv, Drawing
      <4> QED  BY <4>1, <4>2, <1>t DEF Transfer, FirstBank, StripeRows, Bank, DisplayTypeOK
    <3>2. panel' = [r \in DOMAIN panel |-> IF r \in t.top..(t.top + t.rows - 1)
                                             THEN pixels[t.first + r - t.top] ELSE panel[r]]
      BY <1>11 DEF TransferDone
    <3> HIDE DEF t
    <3>3. ASSUME NEW r \in 0..PanelRows - 1, r \in t.top..(t.top + t.rows - 1)
          PROVE  pixels[t.first + r - t.top] \in Pixels
      <4>1. t.first + r - t.top \in Bank
        BY <3>1, <3>3 DEF Bank
      <4> QED  BY <4>1, <1>t DEF DisplayTypeOK
    <3> QED  BY <3>2, <3>3, <1>t DEF DisplayTypeOK
  <2>8. DisplayTypeOK'
    BY <2>1, <2>2, <2>3, <2>7, <1>t DEF DisplayTypeOK
  <2> QED  BY <2>4, <2>6, <2>8
<1>12. CASE UNCHANGED displayVars
  BY <1>12, <1>t DEF displayVars, DisplayTypeOK, CountInv, RotationInv, FirstBank, StripeRows
<1> QED
  BY <1>2, <1>3, <1>4, <1>5, <1>6, <1>7, <1>8, <1>9, <1>10, <1>11, <1>12
     DEF DisplayNext, DrawNext

LEMMA DisplayInductive == DisplaySpec => []DisplayIInv
  BY DisplayInitial, DisplayKept, PTL DEF DisplaySpec

(* The task never draws into memory the DMA still reads.                    *)
THEOREM NeverOverdrawn == DisplaySpec => []DrawnIsIdle
<1>1. DisplayIInv => DrawnIsIdle
  <2> SUFFICES ASSUME DisplayIInv, draw \in {"draw", "submit"}, NEW i \in DOMAIN sent
               PROVE  BanksOf(sent[i]) \cap FirstBank(held)..(FirstBank(held) + StripeRows - 1) = {}
    BY DEF DrawnIsIdle
  <2>1. sent \in Seq(Transfer) /\ i \in 1..Len(sent) /\ nextBuffer \in 0..1 /\ secondary \in BOOLEAN
    BY DEF DisplayIInv, DisplayTypeOK, Buffers
  <2>2. sent[i].first = FirstBank(nextBuffer) /\ held = 1 - nextBuffer /\ sent[i].rows <= StripeRows
    BY <2>1 DEF DisplayIInv, RotationInv, Drawing
  <2>3. sent[i].rows \in {1, 2}
    <3>1. sent[i] \in Transfer
      BY <2>1
    <3> QED  BY <3>1 DEF Transfer
  <2> QED  BY <2>1, <2>2, <2>3 DEF BanksOf, FirstBank, StripeRows
<1> QED  BY <1>1, DisplayInductive, PTL

----------------------------------------------------------------------------
(* What the panel shows.                                                    *)

Busy == {"acquire", "draw", "submit", "flush"}
RowsOf(t) == t.top..(t.top + t.rows - 1)

(* A transfer of this frame: the banks it is read from still hold the rows  *)
(* it is for, all of them behind the row to draw.                           *)
Faithful(t) ==
  /\ t.top + t.rows <= PanelRows /\ t.top + t.rows <= row
  /\ \A r \in RowsOf(t) : pixels[t.first + r - t.top] = <<image, r>>

(* Between frames nothing is in flight and the panel is whole; within one,  *)
(* every row behind the one to draw is on the panel or on its way there.    *)
BetweenInv ==
  draw \in {"idle", "enable", "disable"} =>
    /\ inFlight = 0
    /\ \A r \in 0..PanelRows - 1 : panel[r] = <<image, r>>
FrameInv ==
  draw \in Busy =>
    /\ \A i \in 1..Len(sent) : Faithful(sent[i])
    /\ \A r \in 0..PanelRows - 1 :
         r < row => panel[r] = <<image, r>> \/ \E i \in 1..Len(sent) : r \in RowsOf(sent[i])
    /\ draw = "submit" => \A k \in 0..RowsAt(row) - 1 :
                            pixels[FirstBank(held) + k] = <<image, row + k>>
    /\ draw = "flush" => row >= PanelRows

PanelIInv == DisplayIInv /\ BetweenInv /\ FrameInv

LEMMA PanelInitial == DisplayInit => PanelIInv
<1> SUFFICES ASSUME DisplayInit PROVE BetweenInv /\ FrameInv
  BY DisplayInitial DEF PanelIInv
<1> QED  BY DEF DisplayInit, BetweenInv, FrameInv, Busy

LEMMA PanelStep == PanelIInv /\ [DisplayNext]_displayVars => PanelIInv'
<1> SUFFICES ASSUME PanelIInv, [DisplayNext]_displayVars PROVE BetweenInv' /\ FrameInv'
  BY DisplayKept DEF PanelIInv
<1> USE DisplayAssumption DEF PanelIInv, Buffers
<1>t. /\ DisplayTypeOK /\ CountInv /\ RotationInv /\ BetweenInv /\ FrameInv
      /\ sent \in Seq(Transfer) /\ Len(sent) \in Nat /\ inFlight \in 0..2 /\ finished \in 0..2
      /\ row \in 0..PanelRows + 1 /\ nextBuffer \in 0..1 /\ secondary \in BOOLEAN
      /\ pixels \in [Bank -> Pixels] /\ panel \in [0..PanelRows - 1 -> Pixels]
      /\ inFlight = Len(sent) + finished
  BY DEF DisplayIInv, DisplayTypeOK, CountInv
<1>s. ASSUME NEW i \in 1..Len(sent)
      PROVE  /\ sent[i] \in Transfer /\ sent[i].top \in 0..PanelRows - 1
             /\ sent[i].rows \in {1, 2} /\ sent[i].rows <= StripeRows /\ sent[i].first \in Bank
  <2>1. sent[i] \in Transfer
    BY <1>t
  <2> QED  BY <2>1, <1>t DEF Transfer, RotationInv
<1>f. ASSUME UNCHANGED <<sent, pixels, image, panel, row, secondary>>
      PROVE  \A i \in 1..Len(sent) : Faithful(sent[i]) <=> Faithful(sent[i])'
  BY <1>f DEF Faithful, RowsOf
<1>2. CASE BeginFrame
  <2>1. Len(sent) = 0 /\ sent' = sent /\ row' = 0 /\ draw' = "acquire"
    BY <1>2, <1>t DEF BeginFrame, BetweenInv
  <2> QED  BY <2>1 DEF BetweenInv, FrameInv, Busy
<1>3. CASE Acquire
  <2>1. /\ draw = "acquire" /\ draw' = "draw"
        /\ UNCHANGED <<sent, pixels, image, panel, row, secondary>>
    BY <1>3 DEF Acquire
  <2> QED  BY <2>1, <1>f, <1>t DEF BetweenInv, FrameInv, Busy
<1>4. CASE DrawStripe
  <2> DEFINE front == FirstBank(held)
  <2> DEFINE last == front + RowsAt(row) - 1
  <2>1. /\ draw = "draw" /\ draw' = "submit" /\ held \in 0..1 /\ held = 1 - nextBuffer
        /\ row \in 0..PanelRows - 1
        /\ UNCHANGED <<sent, image, panel, row, secondary, held>>
        /\ \A i \in 1..Len(sent) : sent[i].first = FirstBank(nextBuffer)
    BY <1>4, <1>t DEF DrawStripe, RotationInv, Drawing
  <2>2. front \in 0..2 /\ RowsAt(row) \in {1, 2} /\ RowsAt(row) <= StripeRows
    BY <2>1, <1>t DEF FirstBank, RowsAt, StripeRows
  <2>3. pixels' = [b \in Bank |-> IF b \in front..last THEN <<image, row + b - front>> ELSE pixels[b]]
    BY <1>4 DEF DrawStripe
  <2>3a. last \in front..3
    BY <2>1, <2>2, <1>t DEF FirstBank, RowsAt, StripeRows
  <2>3b. last = front + RowsAt(row) - 1
    OBVIOUS
  <2>4. ASSUME NEW i \in 1..Len(sent) PROVE Faithful(sent[i])'
    <3>1. Faithful(sent[i]) /\ sent[i].first = FirstBank(nextBuffer)
      BY <2>1, <1>t DEF FrameInv, Busy
    <3>2. sent'[i] = sent[i]
      BY <2>1
    <3>3. ASSUME NEW r \in RowsOf(sent[i])
          PROVE  pixels'[sent[i].first + r - sent[i].top] = pixels[sent[i].first + r - sent[i].top]
      <4>1. /\ sent[i].first + r - sent[i].top \in Bank
            /\ sent[i].first + r - sent[i].top \notin front..last
        <5>1. PICK k \in 0..1 : k < sent[i].rows /\ r - sent[i].top = k /\ r = sent[i].top + k
          <6>1. PICK t \in Int, n \in 1..2 : t = sent[i].top /\ n = sent[i].rows
            BY <1>s
          <6>2. r \in t..(t + n - 1)
            BY <6>1 DEF RowsOf
          <6>3. r - t \in 0..1 /\ r - t < n /\ r = t + (r - t)
            BY <6>2
          <6> QED  BY <6>1, <6>3
        <5>2. sent[i].first + r - sent[i].top = FirstBank(nextBuffer) + k
          <6>1. sent[i].top \in Nat /\ sent[i].first = FirstBank(nextBuffer)
                /\ FirstBank(nextBuffer) \in Nat
            BY <3>1, <1>s, <1>t DEF FirstBank
          <6> QED  BY <5>1, <6>1
        <5>3. k < StripeRows /\ k \in 0..1
          <6>1. sent[i].rows \in {1, 2} /\ sent[i].rows <= StripeRows /\ StripeRows \in {1, 2}
            BY <1>s DEF StripeRows
          <6> QED  BY <5>1, <6>1
        <5>4. FirstBank(nextBuffer) + k \in Bank
          BY <5>3, <1>t DEF FirstBank, StripeRows, Bank
        <5>5. FirstBank(nextBuffer) + k \notin front..last
          <6>1. last <= front + StripeRows - 1 /\ front \in Nat /\ last \in Nat
            BY <2>2, <2>3a DEF StripeRows
          <6>2. CASE secondary
            BY <6>1, <6>2, <5>3, <2>1, <1>t DEF FirstBank, StripeRows
          <6>3. CASE ~secondary
            BY <6>1, <6>3, <5>3, <2>1, <1>t DEF FirstBank, StripeRows
          <6> QED  BY <6>2, <6>3
        <5> QED  BY <5>2, <5>4, <5>5
      <4> HIDE DEF front, last
      <4> QED  BY <4>1, <2>3
    <3> HIDE DEF front, last
    <3>5. sent' = sent /\ image' = image /\ row' = row
      BY <2>1
    <3> QED  BY <3>1, <3>2, <3>3, <3>5 DEF Faithful, RowsOf
  <2>5. ASSUME NEW k \in 0..RowsAt(row) - 1 PROVE pixels'[front + k] = <<image, row + k>>
    <3>1. front + k \in Bank /\ front + k \in front..last /\ row + (front + k) - front = row + k
      BY <2>1, <2>2, <2>3a, <2>3b DEF Bank
    <3> HIDE DEF front, last
    <3> QED  BY <3>1, <2>3
  <2>6. RowsAt(row)' = RowsAt(row) /\ FirstBank(held)' = FirstBank(held)
    BY <2>1 DEF RowsAt, FirstBank, StripeRows
  <2>7. FrameInv'
    BY <2>1, <2>4, <2>5, <2>6, <1>t DEF FrameInv, Busy, RowsOf
  <2> QED  BY <2>1, <2>7 DEF BetweenInv
<1>5. CASE Submit
  <2> DEFINE t == [first |-> FirstBank(held), top |-> row, rows |-> RowsAt(row)]
  <2>1. /\ draw = "submit" /\ draw' = "acquire" /\ row \in 0..PanelRows - 1 /\ held \in 0..1
        /\ row' = row + StripeRows /\ sent' = Append(sent, t)
        /\ UNCHANGED <<pixels, image, panel, secondary>>
    BY <1>5, <1>t DEF Submit, RotationInv, Drawing
  <2>2. /\ RowsAt(row) \in {1, 2} /\ row + RowsAt(row) <= PanelRows
        /\ RowsAt(row) <= StripeRows /\ StripeRows \in {1, 2}
        /\ row + RowsAt(row) = PanelRows \/ RowsAt(row) = StripeRows
        /\ FirstBank(held) \in Bank
    BY <2>1, <1>t DEF RowsAt, StripeRows, FirstBank, Bank
  <2>3. /\ t \in Transfer /\ t.first = FirstBank(held) /\ t.top = row /\ t.rows = RowsAt(row)
    BY <2>1, <2>2 DEF Transfer
  <2> HIDE DEF t
  <2>4. /\ Len(sent') = Len(sent) + 1
        /\ \A i \in 1..Len(sent) : sent'[i] = sent[i]
        /\ sent'[Len(sent) + 1] = t
    BY <2>1, <2>3, <1>t, Appended
  <2>5. \A k \in 0..RowsAt(row) - 1 : pixels[FirstBank(held) + k] = <<image, row + k>>
    BY <2>1, <1>t DEF FrameInv, Busy
  <2>6. ASSUME NEW i \in 1..Len(sent') PROVE Faithful(sent[i])'
    <3>1. CASE i = Len(sent) + 1
      <4>1. ASSUME NEW r \in RowsOf(t) PROVE pixels[t.first + r - t.top] = <<image, r>>
        <5>1. r - row \in 0..RowsAt(row) - 1 /\ row + (r - row) = r
              /\ FirstBank(held) + (r - row) = t.first + r - t.top
          BY <2>1, <2>2, <2>3 DEF RowsOf, Bank
        <5> QED  BY <5>1, <2>5
      <4>2. t.top + t.rows <= PanelRows /\ t.top + t.rows <= row'
        BY <2>1, <2>2, <2>3
      <4>3. sent'[i] = t
        BY <3>1, <2>4
      <4> QED  BY <4>1, <4>2, <4>3, <2>1 DEF Faithful, RowsOf
    <3>2. CASE i # Len(sent) + 1
      <4>1. i \in 1..Len(sent) /\ sent'[i] = sent[i]
        BY <3>2, <2>4, <1>t
      <4>2. Faithful(sent[i])
        BY <4>1, <2>1, <1>t DEF FrameInv, Busy
      <4>a. sent[i].top \in 0..PanelRows - 1 /\ sent[i].rows \in {1, 2}
        BY <4>1, <1>s
      <4>b. sent[i].top + sent[i].rows <= row /\ row' = row + StripeRows /\ StripeRows \in {1, 2}
        BY <4>2, <2>1, <2>2 DEF Faithful
      <4>3. sent[i].top + sent[i].rows <= row'
        BY <4>a, <4>b, <2>1
      <4> QED  BY <4>1, <4>2, <4>3, <2>1 DEF Faithful, RowsOf
    <3> QED  BY <3>1, <3>2
  <2>7. ASSUME NEW r \in 0..PanelRows - 1, r < row'
        PROVE  panel'[r] = <<image', r>> \/ \E i \in 1..Len(sent') : r \in RowsOf(sent'[i])
    <3>1. CASE r < row
      <4>1. panel[r] = <<image, r>> \/ \E i \in 1..Len(sent) : r \in RowsOf(sent[i])
        BY <3>1, <2>1, <1>t DEF FrameInv, Busy
      <4>2. \A i \in 1..Len(sent) : i \in 1..Len(sent') /\ sent'[i] = sent[i]
        BY <2>4, <1>t
      <4> QED  BY <4>1, <4>2, <2>1
    <3>2. CASE r >= row
      <4>1. r \in RowsOf(t)
        BY <3>2, <2>1, <2>2, <2>3, <2>7 DEF RowsOf
      <4>2. Len(sent) + 1 \in 1..Len(sent')
        BY <2>4, <1>t
      <4> QED  BY <4>1, <4>2, <2>4
    <3> QED  BY <3>1, <3>2, <2>1
  <2>8. FrameInv'
    BY <2>1, <2>6, <2>7 DEF FrameInv
  <2> QED  BY <2>1, <2>8 DEF BetweenInv
<1>6. CASE SubmitFails
  BY <1>6 DEF SubmitFails, BetweenInv, FrameInv, Busy
<1>7. CASE LastStripe
  <2>1. /\ draw = "acquire" /\ draw' = "flush" /\ row >= PanelRows
        /\ UNCHANGED <<sent, pixels, image, panel, row, secondary>>
    BY <1>7 DEF LastStripe
  <2> QED  BY <2>1, <1>f, <1>t DEF BetweenInv, FrameInv, Busy
<1>8. CASE BeginRebuffer \/ AllocFails \/ FrameDone
  <2>1. CASE FrameDone
    <3>1. Len(sent) = 0 /\ draw = "flush" /\ row >= PanelRows
      BY <2>1, <1>t DEF FrameDone, FrameInv, Busy
    <3>2. \A r \in 0..PanelRows - 1 : panel[r] = <<image, r>>
      BY <3>1, <1>t DEF FrameInv, Busy
    <3> QED  BY <2>1, <3>2 DEF FrameDone, BetweenInv, FrameInv, Busy
  <2>2. CASE BeginRebuffer \/ AllocFails
    BY <2>2, <1>t DEF BeginRebuffer, AllocFails, BetweenInv, FrameInv, Busy
  <2> QED  BY <1>8, <2>1, <2>2
<1>9. CASE FlushOne
  <2>1. /\ draw = "flush" /\ draw' = "flush"
        /\ UNCHANGED <<sent, pixels, image, panel, row, secondary>>
    BY <1>9, <1>t DEF FlushOne, InFlush, BetweenInv
  <2> QED  BY <2>1, <1>f, <1>t DEF BetweenInv, FrameInv, Busy
<1>10. CASE Rebuffered
  BY <1>10, <1>t DEF Rebuffered, BetweenInv, FrameInv, Busy
<1>11. CASE FlushTimeout
  BY <1>11, <1>t DEF FlushTimeout, InFlush, BetweenInv, FrameInv, Busy
<1>12. CASE Reboot
  BY <1>12 DEF Reboot, BetweenInv, FrameInv, Busy
<1>13. CASE TransferDone
  <2> DEFINE t == sent[1]
  <2>1. /\ sent # << >> /\ sent' = Tail(sent) /\ draw # "abort" /\ Head(sent) = sent[1]
        /\ UNCHANGED <<draw, secondary, inFlight, nextBuffer, held, row, pixels, image>>
    BY <1>13, <1>t, ShiftedIndex DEF TransferDone
  <2>2. /\ Len(sent) \in Nat \ {0} /\ Len(sent') = Len(sent) - 1
        /\ \A i \in 1..Len(sent) - 1 : sent'[i] = sent[i + 1]
    BY <2>1, <1>t, ShiftedIndex
  <2>3. panel' = [r \in DOMAIN panel |-> IF r \in RowsOf(t) THEN pixels[t.first + r - t.top]
                                                            ELSE panel[r]]
    BY <1>13, <2>1 DEF TransferDone, RowsOf
  <2>4. draw \in Busy
    BY <2>1, <2>2, <1>t DEF BetweenInv, Busy, DisplayTypeOK
  <2>5. Faithful(t)
    BY <2>2, <2>4, <1>t DEF FrameInv
  <2> HIDE DEF t
  <2>6. ASSUME NEW r \in 0..PanelRows - 1
        PROVE  /\ r \in RowsOf(t) => panel'[r] = <<image, r>>
               /\ r \notin RowsOf(t) => panel'[r] = panel[r]
    BY <2>3, <2>5, <1>t DEF Faithful
  <2>7. ASSUME NEW i \in 1..Len(sent') PROVE Faithful(sent[i])'
    <3>1. i + 1 \in 1..Len(sent) /\ sent'[i] = sent[i + 1]
      BY <2>2
    <3>2. Faithful(sent[i + 1])
      BY <3>1, <2>4, <1>t DEF FrameInv
    <3> QED  BY <3>1, <3>2, <2>1 DEF Faithful, RowsOf
  <2>8. ASSUME NEW r \in 0..PanelRows - 1, r < row
        PROVE  panel'[r] = <<image, r>> \/ \E i \in 1..Len(sent') : r \in RowsOf(sent'[i])
    <3>1. panel[r] = <<image, r>> \/ \E i \in 1..Len(sent) : r \in RowsOf(sent[i])
      BY <2>8, <2>4, <1>t DEF FrameInv
    <3>2. CASE panel[r] = <<image, r>>
      BY <3>2, <2>6
    <3>3. CASE \E i \in 1..Len(sent) : r \in RowsOf(sent[i])
      <4>1. PICK i \in 1..Len(sent) : r \in RowsOf(sent[i])
        BY <3>3
      <4>2. CASE i = 1
        BY <4>1, <4>2, <2>6 DEF t
      <4>3. CASE i # 1
        <5>1. i - 1 \in 1..Len(sent') /\ sent'[i - 1] = sent[i]
          BY <4>3, <2>2
        <5> QED  BY <5>1, <4>1
      <4> QED  BY <4>2, <4>3
    <3> QED  BY <3>1, <3>2, <3>3
  <2>9. RowsAt(row)' = RowsAt(row) /\ FirstBank(held)' = FirstBank(held)
    BY <2>1 DEF RowsAt, FirstBank, StripeRows
  <2>10. FrameInv'
    BY <2>1, <2>4, <2>7, <2>8, <2>9, <1>t DEF FrameInv
  <2> QED  BY <2>1, <2>4, <2>10 DEF BetweenInv, Busy
<1>14. CASE UNCHANGED displayVars
  <2>1. UNCHANGED <<sent, pixels, image, panel, row, secondary, draw, held, inFlight>>
    BY <1>14 DEF displayVars
  <2>2. RowsAt(row)' = RowsAt(row) /\ FirstBank(held)' = FirstBank(held)
    BY <2>1 DEF RowsAt, FirstBank, StripeRows
  <2>3. FrameInv'
    BY <2>1, <2>2, <1>f, <1>t DEF FrameInv, Busy
  <2> QED  BY <2>1, <2>3, <1>t DEF BetweenInv
<1> QED
  BY <1>2, <1>3, <1>4, <1>5, <1>6, <1>7, <1>8, <1>9, <1>10, <1>11, <1>12, <1>13, <1>14
     DEF DisplayNext, DrawNext

(* When a frame is done the panel shows all of it: whatever the height of   *)
(* the panel, with one buffer or two, across refused allocations, refused   *)
(* transfers and timeouts.                                                  *)
THEOREM FrameReachesPanel == DisplaySpec => []PanelIsWhole
<1>1. PanelIInv => PanelIsWhole
  <2> SUFFICES ASSUME PanelIInv, draw = "idle" PROVE \A r \in DOMAIN panel : panel[r] = <<image, r>>
    BY DEF PanelIsWhole
  <2>1. DOMAIN panel = 0..PanelRows - 1
    BY DEF PanelIInv, DisplayIInv, DisplayTypeOK
  <2> QED  BY <2>1 DEF PanelIInv, BetweenInv
<1> QED  BY <1>1, PanelInitial, PanelStep, PTL DEF DisplaySpec

----------------------------------------------------------------------------
(* The video services.                                                      *)

(* What a program reads in the BIOS data area: every service that moves the *)
(* cursor, the page, the mode or the shape copies all of them, and the rest *)
(* move none.                                                               *)
THEOREM BdaIsCurrent == VideoSpec => []BdaFollows
<1>1. VideoInit => BdaFollows
  BY DEF VideoInit, BdaFollows
<1>2. BdaFollows /\ [VideoNext]_videoVars => BdaFollows'
  <2> SUFFICES ASSUME BdaFollows, [VideoNext]_videoVars PROVE BdaFollows'
    OBVIOUS
  <2>1. CASE Copied
    BY <2>1 DEF Copied, BdaFollows, Fields
  <2>2. CASE UNCHANGED <<mode, page, cursor, shape, bda, served>>
    BY <2>2 DEF BdaFollows, Fields
  <2>3. CASE LaunchVideo
    BY <2>3 DEF LaunchVideo, BdaFollows, Cleared
  <2>4. VideoNext => Copied \/ UNCHANGED <<mode, page, cursor, shape, bda, served>> \/ LaunchVideo
    BY DEF VideoNext, SetVideoMode, SetShape, SetCursor, SelectPage, ScrollWindow,
           WriteCharacters, WritePixel, Teletype
  <2>5. UNCHANGED videoVars => UNCHANGED <<mode, page, cursor, shape, bda, served>>
    BY DEF videoVars
  <2> QED  BY <2>1, <2>2, <2>3, <2>4, <2>5
<1> QED  BY <1>1, <1>2, PTL DEF VideoSpec

----------------------------------------------------------------------------
(* Scrolling.                                                              *)

LEMMA ScreenSizes ==
  /\ Rows \in Nat /\ Rows > 0 /\ VramCells \in Nat
  /\ \A m : Columns(m) \in Nat /\ Columns(m) > 0
  /\ \A m : PageCells(m) \in Nat
<1>1. Rows \in Nat /\ Rows > 0 /\ Narrow \in Nat /\ Narrow > 0 /\ VramCells \in Nat
  BY VideoAssumption
<1>2. Rows * Narrow \in Nat /\ Rows * 2 * Narrow \in Nat
  BY <1>1
<1> QED
  BY <1>1, <1>2 DEF Columns, PageCells

\* The contents of the memory of the adapter.
CellPicture(X) == [Cells -> X]

LEMMA RowsBlankedTurns ==
  ASSUME NEW X, Blank \in X, NEW v \in CellPicture(X), NEW m, NEW p, NEW front \in Int,
         NEW left, NEW right, NEW n \in Nat, NEW k \in Nat, k = n + 1,
         NEW to \in Int, to = front + n
  PROVE  /\ RowsBlanked(m, p, v, front, 0, left, right) = v
         /\ RowsBlanked(m, p, v, front, n, left, right) \in CellPicture(X)
         /\ RowsBlanked(m, p, v, front, k, left, right)
              = RowBlanked(m, p, RowsBlanked(m, p, v, front, n, left, right), to, left, right)
<1> DEFINE step == [i \in Nat |-> [u \in CellPicture(X) |->
                      RowBlanked(m, p, u, front + i, left, right)]]
<1>0. \A u \in CellPicture(X) : \A t : RowBlanked(m, p, u, t, left, right) \in CellPicture(X)
  BY DEF RowBlanked, CellPicture
<1>1. step \in [Nat -> [CellPicture(X) -> CellPicture(X)]]
  BY <1>0
<1>f. PICK f : Loops(CellPicture(X), v, step, f)
  <2> HIDE DEF step
  <2> QED
    BY <1>1, Recursion
<1>2. f \in [Nat -> CellPicture(X)] /\ f[0] = v /\ \A i \in Nat : f[i + 1] = step[i][f[i]]
  <2> HIDE DEF step
  <2> QED
    BY <1>f DEF Loops
<1> DEFINE Loop(g) ==
      g = [i \in Nat |-> IF i = 0 THEN v
                         ELSE RowBlanked(m, p, g[i - 1], front + i - 1, left, right)]
<1>3. Loop(f)
  <2>1. ASSUME NEW i \in Nat
        PROVE  f[i] = IF i = 0 THEN v
                      ELSE RowBlanked(m, p, f[i - 1], front + i - 1, left, right)
    <3>1. CASE i # 0
      <4>1. PICK j \in Nat : i = j + 1 /\ j = i - 1
        BY <3>1
      <4> QED
        BY <1>2, <4>1
    <3> QED
      BY <1>2, <3>1
  <2> QED
    BY <1>2, <2>1
<1>4. PICK h : h = CHOOSE g : Loop(g)
  OBVIOUS
<1>5. Loop(h)
  <2> HIDE DEF Loop
  <2> QED
    BY <1>3, <1>4
<1>6. \A i \in Nat : RowsBlanked(m, p, v, front, i, left, right) = h[i]
  BY <1>4 DEF RowsBlanked
<1>7. h[0] = v
  BY <1>5
<1>8. \A i \in Nat : h[i + 1] = RowBlanked(m, p, h[i], front + i, left, right)
  <2>1. ASSUME NEW i \in Nat PROVE h[i + 1] = RowBlanked(m, p, h[i], front + i, left, right)
    <3>1. PICK j \in Nat : j = i + 1
      OBVIOUS
    <3>2. h[j] = RowBlanked(m, p, h[j - 1], front + j - 1, left, right)
      BY <1>5, <3>1
    <3>3. j - 1 = i /\ front + j - 1 = front + i
      BY <3>1
    <3> QED
      BY <3>1, <3>2, <3>3
  <2> QED
    BY <2>1
<1>9. \A i \in Nat : h[i] \in CellPicture(X)
  <2> DEFINE T == {i \in Nat : h[i] \in CellPicture(X)}
  <2>1. 0 \in T
    BY <1>7
  <2>2. ASSUME NEW i \in Nat, i \in T PROVE i + 1 \in T
    BY <1>0, <1>8, <2>2
  <2>3. Nat \subseteq T
    <3> HIDE DEF T
    <3> QED
      BY <2>1, <2>2, AllNumbers
  <2> QED
    BY <2>3
<1> QED
  BY <1>6, <1>7, <1>8, <1>9

\* Where a row is copied from.
Source(to, by, down) == IF down THEN to - by ELSE to + by

LEMMA RowsMovedTurns ==
  ASSUME NEW X, Blank \in X, NEW v \in CellPicture(X), NEW m, NEW p, NEW front \in Int,
         NEW by \in Int, NEW left, NEW right, NEW down,
         NEW n \in Nat, NEW k \in Nat, k = n + 1,
         NEW to \in Int, to = TurnRow(front, k, down),
         NEW from \in Int, from = Source(to, by, down)
  PROVE  /\ RowsMoved(m, p, v, front, 0, by, left, right, down) = v
         /\ RowsMoved(m, p, v, front, n, by, left, right, down) \in CellPicture(X)
         /\ RowsMoved(m, p, v, front, k, by, left, right, down)
              = RowMoved(m, p, RowsMoved(m, p, v, front, n, by, left, right, down), to, from,
                         left, right)
<1> DEFINE step == [i \in Nat |-> [u \in CellPicture(X) |->
                      RowMoved(m, p, u, TurnRow(front, i + 1, down),
                               Source(TurnRow(front, i + 1, down), by, down), left, right)]]
<1>0. \A u \in CellPicture(X) : \A t, o : RowMoved(m, p, u, t, o, left, right) \in CellPicture(X)
  BY DEF RowMoved, CellPicture, Cell
<1>1. step \in [Nat -> [CellPicture(X) -> CellPicture(X)]]
  BY <1>0
<1>f. PICK f : Loops(CellPicture(X), v, step, f)
  <2> HIDE DEF step
  <2> QED
    BY <1>1, Recursion
<1>2. f \in [Nat -> CellPicture(X)] /\ f[0] = v /\ \A i \in Nat : f[i + 1] = step[i][f[i]]
  <2> HIDE DEF step
  <2> QED
    BY <1>f DEF Loops
<1> DEFINE Loop(g) ==
      g = [i \in Nat |->
             IF i = 0 THEN v
             ELSE RowMoved(m, p, g[i - 1], TurnRow(front, i, down),
                           IF down THEN TurnRow(front, i, down) - by
                                   ELSE TurnRow(front, i, down) + by, left, right)]
<1>3. Loop(f)
  <2>1. ASSUME NEW i \in Nat
        PROVE  f[i] = IF i = 0 THEN v
                      ELSE RowMoved(m, p, f[i - 1], TurnRow(front, i, down),
                                    IF down THEN TurnRow(front, i, down) - by
                                            ELSE TurnRow(front, i, down) + by, left, right)
    <3>1. CASE i # 0
      <4>1. PICK j \in Nat : i = j + 1 /\ j = i - 1
        BY <3>1
      <4> QED
        BY <1>2, <4>1 DEF Source
    <3> QED
      BY <1>2, <3>1
  <2> QED
    BY <1>2, <2>1
<1>4. PICK h : h = CHOOSE g : Loop(g)
  OBVIOUS
<1>5. Loop(h)
  <2> HIDE DEF Loop
  <2> QED
    BY <1>3, <1>4
<1>6. \A i \in Nat : RowsMoved(m, p, v, front, i, by, left, right, down) = h[i]
  BY <1>4 DEF RowsMoved
<1>7. h[0] = v
  BY <1>5
<1>8. ASSUME NEW i \in Nat
      PROVE  h[i + 1] = RowMoved(m, p, h[i], TurnRow(front, i + 1, down),
                                 Source(TurnRow(front, i + 1, down), by, down), left, right)
  <2>1. PICK j \in Nat : j = i + 1 /\ j # 0 /\ j - 1 = i
    OBVIOUS
  <2>2. h[j] = RowMoved(m, p, h[j - 1], TurnRow(front, j, down),
                        Source(TurnRow(front, j, down), by, down), left, right)
    BY <1>5, <2>1 DEF Source
  <2> QED
    BY <2>1, <2>2
<1>9. \A i \in Nat : h[i] \in CellPicture(X)
  <2> DEFINE T == {i \in Nat : h[i] \in CellPicture(X)}
  <2>1. 0 \in T
    BY <1>7
  <2>2. ASSUME NEW i \in Nat, i \in T PROVE i + 1 \in T
    <3>1. h[i] \in CellPicture(X)
      BY <2>2
    <3>2. PICK t, o : h[i + 1] = RowMoved(m, p, h[i], t, o, left, right)
      BY <1>8
    <3>3. RowMoved(m, p, h[i], t, o, left, right) \in CellPicture(X)
      BY <1>0, <3>1
    <3> QED
      BY <3>2, <3>3
  <2>3. Nat \subseteq T
    <3> HIDE DEF T
    <3> QED
      BY <2>1, <2>2, AllNumbers
  <2> QED
    BY <2>3
<1> QED
  BY <1>6, <1>7, <1>8, <1>9

\* Two places on a page are two cells.
LEMMA CellsApart ==
  ASSUME NEW m, NEW p \in Nat, NEW r \in Int, NEW q \in Int,
         NEW c \in 0..(Columns(m) - 1), NEW x \in 0..(Columns(m) - 1),
         CellAt(m, p, r, c) = CellAt(m, p, q, x)
  PROVE  r = q /\ c = x
<1>1. PICK W \in Nat : W = Columns(m) /\ W > 0
  BY ScreenSizes
<1>2. PICK base \in Int : base = p * PageCells(m)
  BY ScreenSizes
<1>3. PICK R \in Int, Q \in Int : R = r * W /\ Q = q * W
  BY <1>1
<1>4. base + R + c = base + Q + x /\ c \in 0..(W - 1) /\ x \in 0..(W - 1)
  BY <1>1, <1>2, <1>3 DEF CellAt
<1>5. ASSUME NEW k \in Nat PROVE (q = r + 1 + k => Q >= R + W) /\ (r = q + 1 + k => R >= Q + W)
  <2>1. PICK K \in Nat : K = k * W
    BY <1>1
  <2>2. (r + 1 + k) * W = R + W + K /\ (q + 1 + k) * W = Q + W + K
    BY <1>1, <1>3, <2>1
  <2>3. CASE q = r + 1 + k
    BY <1>1, <1>3, <2>1, <2>2, <2>3
  <2>4. CASE r = q + 1 + k
    BY <1>1, <1>3, <2>1, <2>2, <2>4
  <2>5. q = r + 1 + k => Q >= R + W
    BY <1>1, <1>3, <2>1, <2>2
  <2>6. r = q + 1 + k => R >= Q + W
    BY <1>1, <1>3, <2>1, <2>2
  <2> QED
    BY <2>5, <2>6
<1>6. CASE r < q
  <2>1. PICK k \in Nat : q = r + 1 + k
    <3>1. q - r - 1 \in Nat /\ q = r + 1 + (q - r - 1)
      BY <1>6
    <3> QED
      BY <3>1
  <2> QED
    BY <1>1, <1>4, <1>5, <2>1
<1>7. CASE q < r
  <2>1. PICK k \in Nat : r = q + 1 + k
    <3>1. r - q - 1 \in Nat /\ r = q + 1 + (r - q - 1)
      BY <1>7
    <3> QED
      BY <3>1
  <2> QED
    BY <1>1, <1>4, <1>5, <2>1
<1>8. CASE r = q
  BY <1>3, <1>4, <1>8
<1> QED
  BY <1>6, <1>7, <1>8

\* What a place on the page shows.
Shown(m, p, u, r, c) == Cell(u, CellAt(m, p, r, c))

\* All of a page is in the memory of the adapter.
PageFits(m, p) ==
  \A r \in 0..(Rows - 1), c \in 0..(Columns(m) - 1) : CellAt(m, p, r, c) \in Cells

LEMMA RowMovedShows ==
  ASSUME NEW X, NEW u \in CellPicture(X), NEW m, NEW p \in Nat, PageFits(m, p),
         NEW to \in Int, to \in 0..(Rows - 1), NEW from \in Int, NEW left \in Nat,
         NEW right \in 0..(Columns(m) - 1),
         NEW r \in Int, r \in 0..(Rows - 1), NEW c \in 0..(Columns(m) - 1)
  PROVE  Shown(m, p, RowMoved(m, p, u, to, from, left, right), r, c)
           = IF r = to /\ left <= c /\ c <= right THEN Shown(m, p, u, from, c)
                                                 ELSE Shown(m, p, u, r, c)
<1>1. PICK a \in Cells : a = CellAt(m, p, r, c)
  BY DEF PageFits
<1>2. (\E x \in left..right : a = CellAt(m, p, to, x)) <=> r = to /\ left <= c /\ c <= right
  <2>1. ASSUME NEW x \in left..right, a = CellAt(m, p, to, x)
        PROVE  r = to /\ left <= c /\ c <= right
    <3>1. x \in 0..(Columns(m) - 1) /\ to \in Int /\ r \in Int
      BY ScreenSizes
    <3>2. CellAt(m, p, r, c) = CellAt(m, p, to, x)
      BY <1>1, <2>1
    <3>3. r = to /\ c = x
      BY <3>1, <3>2, CellsApart
    <3> QED
      BY <3>3
  <2> QED
    BY <1>1, <2>1
<1>3. r = to => a + CellAt(m, p, from, 0) - CellAt(m, p, to, 0) = CellAt(m, p, from, c)
  <2>1. PICK W \in Nat : W = Columns(m)
    BY ScreenSizes
  <2>2. PICK base \in Int : base = p * PageCells(m)
    BY ScreenSizes
  <2>3. PICK F \in Int, R \in Int : F = from * W /\ R = to * W
    BY <2>1
  <2> QED
    BY <1>1, <2>1, <2>2, <2>3 DEF CellAt
<1>4. RowMoved(m, p, u, to, from, left, right)[a]
        = IF r = to /\ left <= c /\ c <= right THEN Cell(u, CellAt(m, p, from, c)) ELSE u[a]
  BY <1>2, <1>3 DEF RowMoved
<1> QED
  BY <1>1, <1>4 DEF Shown, Cell

LEMMA RowBlankedShows ==
  ASSUME NEW X, NEW u \in CellPicture(X), NEW m, NEW p \in Nat, PageFits(m, p),
         NEW to \in Int, to \in 0..(Rows - 1), NEW left \in Nat, NEW right \in 0..(Columns(m) - 1),
         NEW r \in Int, r \in 0..(Rows - 1), NEW c \in 0..(Columns(m) - 1)
  PROVE  Shown(m, p, RowBlanked(m, p, u, to, left, right), r, c)
           = IF r = to /\ left <= c /\ c <= right THEN Blank ELSE Shown(m, p, u, r, c)
<1>1. PICK a \in Cells : a = CellAt(m, p, r, c)
  BY DEF PageFits
<1>2. (\E x \in left..right : a = CellAt(m, p, to, x)) <=> r = to /\ left <= c /\ c <= right
  <2>1. ASSUME NEW x \in left..right, a = CellAt(m, p, to, x)
        PROVE  r = to /\ left <= c /\ c <= right
    <3>1. x \in 0..(Columns(m) - 1) /\ to \in Int /\ r \in Int
      BY ScreenSizes
    <3>2. CellAt(m, p, r, c) = CellAt(m, p, to, x)
      BY <1>1, <2>1
    <3>3. r = to /\ c = x
      BY <3>1, <3>2, CellsApart
    <3> QED
      BY <3>3
  <2> QED
    BY <1>1, <2>1
<1>3. RowBlanked(m, p, u, to, left, right)[a]
        = IF r = to /\ left <= c /\ c <= right THEN Blank ELSE u[a]
  BY <1>2 DEF RowBlanked
<1> QED
  BY <1>1, <1>3 DEF Shown, Cell

\* The rows that n turns have copied to.
TurnedLine(front, n, down, r) ==
  IF down THEN front - n + 1 <= r /\ r <= front ELSE front <= r /\ r <= front + n - 1

LEMMA TurnedNext ==
  ASSUME NEW front \in Int, NEW n \in Nat, NEW k \in Nat, k = n + 1, NEW down,
         NEW by \in Nat, by > 0, NEW to \in Int, to = TurnRow(front, k, down),
         NEW from \in Int, from = Source(to, by, down), NEW r \in Int
  PROVE  /\ TurnedLine(front, k, down, r) <=> TurnedLine(front, n, down, r) \/ r = to
         /\ ~TurnedLine(front, n, down, from)
         /\ ~TurnedLine(front, 0, down, r)
<1>1. CASE down
  BY <1>1 DEF TurnedLine, TurnRow, Source
<1>2. CASE ~down
  BY <1>2 DEF TurnedLine, TurnRow, Source
<1> QED
  BY <1>1, <1>2

\* A row is read before it is written: copying in place is like copying into another
\* screen.
LEMMA RowsMovedShow ==
  ASSUME NEW X, Blank \in X, NEW v \in CellPicture(X), NEW m, NEW p \in Nat, PageFits(m, p),
         NEW front \in Int, front \in 0..(Rows - 1), NEW turns \in Nat, NEW by \in Nat, by > 0,
         NEW left \in Nat, NEW right \in 0..(Columns(m) - 1), NEW down,
         down => front - turns - by + 1 >= 0, ~down => front + turns + by - 1 <= Rows - 1,
         NEW r \in Int, r \in 0..(Rows - 1), NEW c \in 0..(Columns(m) - 1)
  PROVE  Shown(m, p, RowsMoved(m, p, v, front, turns, by, left, right, down), r, c)
           = IF TurnedLine(front, turns, down, r) /\ left <= c /\ c <= right
               THEN Shown(m, p, v, Source(r, by, down), c) ELSE Shown(m, p, v, r, c)
<1> DEFINE Seen(n) == RowsMoved(m, p, v, front, n, by, left, right, down)
           Right(n) == \A q \in 0..(Rows - 1), x \in 0..(Columns(m) - 1) :
             Shown(m, p, Seen(n), q, x)
               = IF TurnedLine(front, n, down, q) /\ left <= x /\ x <= right
                   THEN Shown(m, p, v, Source(q, by, down), x) ELSE Shown(m, p, v, q, x)
           T == {n \in Nat : n <= turns => Right(n)}
<1>r. by \in Int /\ \A q \in 0..(Rows - 1) : q \in Int
  BY ScreenSizes
<1>1. 0 \in T
  <2>1. PICK to \in Int, from \in Int :
          to = TurnRow(front, 1, down) /\ from = Source(to, by, down)
    <3>1. CASE down
      BY <3>1 DEF TurnRow, Source
    <3>2. CASE ~down
      BY <3>2 DEF TurnRow, Source
    <3> QED
      BY <3>1, <3>2
  <2>2. Seen(0) = v
    <3>1. 0 \in Nat /\ 1 \in Nat /\ 1 = 0 + 1
      OBVIOUS
    <3> QED
      BY <1>r, <2>1, <3>1, RowsMovedTurns
  <2>3. ASSUME NEW q \in Int PROVE ~TurnedLine(front, 0, down, q)
    BY DEF TurnedLine
  <2> QED
    BY <1>r, <2>2, <2>3
<1>2. ASSUME NEW n \in Nat, n \in T PROVE n + 1 \in T
  <2>1. PICK k \in Nat : k = n + 1
    OBVIOUS
  <2>2. SUFFICES ASSUME k <= turns, NEW q \in Int, q \in 0..(Rows - 1),
                        NEW x \in 0..(Columns(m) - 1)
                 PROVE  Shown(m, p, Seen(k), q, x)
                          = IF TurnedLine(front, k, down, q) /\ left <= x /\ x <= right
                              THEN Shown(m, p, v, Source(q, by, down), x)
                              ELSE Shown(m, p, v, q, x)
    BY <1>r, <2>1
  <2>3. PICK to \in Int, from \in Int :
          /\ to = TurnRow(front, k, down) /\ from = Source(to, by, down)
          /\ to \in 0..(Rows - 1) /\ from \in 0..(Rows - 1)
    <3>1. CASE down
      BY <2>1, <2>2, <3>1, ScreenSizes DEF TurnRow, Source
    <3>2. CASE ~down
      BY <2>1, <2>2, <3>2, ScreenSizes DEF TurnRow, Source
    <3> QED
      BY <3>1, <3>2
  <2>4. PICK u \in CellPicture(X) :
          u = Seen(n) /\ Seen(k) = RowMoved(m, p, u, to, from, left, right)
    BY <1>r, <2>1, <2>3, RowsMovedTurns
  <2>5. Right(n)
    BY <1>2, <2>1, <2>2
  <2>6. /\ TurnedLine(front, k, down, q) <=> TurnedLine(front, n, down, q) \/ q = to
        /\ ~TurnedLine(front, n, down, from)
    BY <2>1, <2>3, TurnedNext
  <2> HIDE DEF Seen
  <2>7. Shown(m, p, Seen(k), q, x)
          = IF q = to /\ left <= x /\ x <= right THEN Shown(m, p, u, from, x)
                                                ELSE Shown(m, p, u, q, x)
    <3>1. to \in 0..(Rows - 1) /\ q \in 0..(Rows - 1)
      BY <2>2, <2>3
    <3>2. Shown(m, p, RowMoved(m, p, u, to, from, left, right), q, x)
            = IF q = to /\ left <= x /\ x <= right THEN Shown(m, p, u, from, x)
                                                  ELSE Shown(m, p, u, q, x)
      BY <3>1, RowMovedShows, SMTT(60)
    <3> QED
      BY <2>4, <3>2
  <2>8. Shown(m, p, u, from, x) = Shown(m, p, v, from, x)
    BY <2>3, <2>4, <2>5, <2>6
  <2>9. Shown(m, p, u, q, x) = IF TurnedLine(front, n, down, q) /\ left <= x /\ x <= right
                                 THEN Shown(m, p, v, Source(q, by, down), x)
                                 ELSE Shown(m, p, v, q, x)
    BY <2>2, <2>4, <2>5
  <2> QED
    BY <2>3, <2>6, <2>7, <2>8, <2>9
<1>3. turns \in T
  <2> HIDE DEF T
  <2> QED
    BY <1>1, <1>2, AllNumbers
<1> QED
  BY <1>3

LEMMA RowsBlankedShow ==
  ASSUME NEW X, Blank \in X, NEW v \in CellPicture(X), NEW m, NEW p \in Nat, PageFits(m, p),
         NEW front \in Int, front \in 0..(Rows - 1), NEW turns \in Nat,
         front + turns - 1 <= Rows - 1,
         NEW left \in Nat, NEW right \in 0..(Columns(m) - 1),
         NEW r \in Int, r \in 0..(Rows - 1), NEW c \in 0..(Columns(m) - 1)
  PROVE  Shown(m, p, RowsBlanked(m, p, v, front, turns, left, right), r, c)
           = IF front <= r /\ r < front + turns /\ left <= c /\ c <= right
               THEN Blank ELSE Shown(m, p, v, r, c)
<1> DEFINE Seen(n) == RowsBlanked(m, p, v, front, n, left, right)
           Right(n) == \A q \in 0..(Rows - 1), x \in 0..(Columns(m) - 1) :
             Shown(m, p, Seen(n), q, x)
               = IF front <= q /\ q < front + n /\ left <= x /\ x <= right
                   THEN Blank ELSE Shown(m, p, v, q, x)
           T == {n \in Nat : n <= turns => Right(n)}
<1>r. \A q \in 0..(Rows - 1) : q \in Int
  BY ScreenSizes
<1>1. 0 \in T
  <2>1. Seen(0) = v
    <3>1. 0 \in Nat /\ 1 \in Nat /\ 1 = 0 + 1 /\ front = front + 0
      OBVIOUS
    <3> QED
      BY <3>1, RowsBlankedTurns
  <2>2. ASSUME NEW q \in Int PROVE ~(front <= q /\ q < front + 0)
    OBVIOUS
  <2> QED
    BY <1>r, <2>1, <2>2
<1>2. ASSUME NEW n \in Nat, n \in T PROVE n + 1 \in T
  <2>1. PICK k \in Nat : k = n + 1
    OBVIOUS
  <2>2. SUFFICES ASSUME k <= turns, NEW q \in Int, q \in 0..(Rows - 1),
                        NEW x \in 0..(Columns(m) - 1)
                 PROVE  Shown(m, p, Seen(k), q, x)
                          = IF front <= q /\ q < front + k /\ left <= x /\ x <= right
                              THEN Blank ELSE Shown(m, p, v, q, x)
    BY <1>r, <2>1
  <2>3. PICK to \in Int : to = front + n /\ to \in 0..(Rows - 1)
    BY <2>1, <2>2, ScreenSizes
  <2>4. PICK u \in CellPicture(X) : u = Seen(n) /\ Seen(k) = RowBlanked(m, p, u, to, left, right)
    BY <2>1, <2>3, RowsBlankedTurns
  <2>5. Right(n)
    BY <1>2, <2>1, <2>2
  <2>6. front <= q /\ q < front + k <=> (front <= q /\ q < front + n) \/ q = to
    BY <2>1, <2>3
  <2> HIDE DEF Seen
  <2>7. Shown(m, p, Seen(k), q, x)
          = IF q = to /\ left <= x /\ x <= right THEN Blank ELSE Shown(m, p, u, q, x)
    <3>1. to \in 0..(Rows - 1) /\ q \in 0..(Rows - 1)
      BY <2>2, <2>3
    <3>2. Shown(m, p, RowBlanked(m, p, u, to, left, right), q, x)
            = IF q = to /\ left <= x /\ x <= right THEN Blank ELSE Shown(m, p, u, q, x)
      BY <3>1, RowBlankedShows
    <3> QED
      BY <2>4, <3>2
  <2>8. Shown(m, p, u, q, x)
          = IF front <= q /\ q < front + n /\ left <= x /\ x <= right
              THEN Blank ELSE Shown(m, p, v, q, x)
    BY <2>2, <2>4, <2>5
  <2> QED
    BY <2>6, <2>7, <2>8
<1>3. turns \in T
  <2> HIDE DEF T
  <2> QED
    BY <1>1, <1>2, AllNumbers
<1> QED
  BY <1>3

\* None of a page is in the memory of the adapter.
PageAbsent(m, p) ==
  \A r \in Int, c \in 0..(Columns(m) - 1) : CellAt(m, p, r, c) \notin Cells

LEMMA AtMostIs ==
  ASSUME NEW n \in Nat, NEW limit \in Nat
  PROVE  AtMost(n, limit) \in Int /\ AtMost(n, limit) < limit
         /\ (n < limit => AtMost(n, limit) = n) /\ (n >= limit => AtMost(n, limit) = limit - 1)
BY DEF AtMost

LEMMA TurnRowInt ==
  ASSUME NEW front \in Int, NEW n \in Int, NEW down
  PROVE  TurnRow(front, n, down) \in Int
BY DEF TurnRow

LEMMA SourceInt ==
  ASSUME NEW to \in Int, NEW by \in Int, NEW down
  PROVE  Source(to, by, down) \in Int
BY DEF Source

\* The two loops that a scroll runs, and their bounds.
LoopsOver(m, p, v, lines, top, left, bottom, right, down, W, low, end, by, front, start) ==
  /\ (down => front = low /\ start = top) /\ (~down => front = top /\ start = low - by + 1)
  /\ lines = 0 \/ lines >= low - top + 1 => by = low - top + 1
  /\ ~(lines = 0 \/ lines >= low - top + 1) => by = lines
  /\ low < Rows /\ (bottom < Rows => low = bottom) /\ (bottom >= Rows => low = Rows - 1)
  /\ end < W /\ (right < W => end = right) /\ (right >= W => end = W - 1)
  /\ Scrolled(m, p, v, lines, top, left, bottom, right, down)
       = IF top >= Rows \/ left >= W \/ top > low \/ left > end THEN v
         ELSE RowsBlanked(m, p, RowsMoved(m, p, v, front, low - top + 1 - by, by, left, end, down),
                          start, by, left, end)
RunsOf(m, p, v, lines, top, left, bottom, right, down) ==
  \E W \in Nat, low \in Int, end \in Int, by \in Int, front \in Int, start \in Int :
    /\ W = Columns(m) /\ W > 0
    /\ LoopsOver(m, p, v, lines, top, left, bottom, right, down, W, low, end, by, front, start)

LEMMA ScrollRuns ==
  ASSUME NEW m, NEW p, NEW v, NEW lines \in Nat, NEW top \in Nat,
         NEW left \in Nat, NEW bottom \in Nat, NEW right \in Nat, NEW down \in BOOLEAN
  PROVE  RunsOf(m, p, v, lines, top, left, bottom, right, down)
<1>1. PICK after : after = Scrolled(m, p, v, lines, top, left, bottom, right, down)
  OBVIOUS
<1>w. PICK W \in Nat : W = Columns(m) /\ W > 0
  BY ScreenSizes
<1>a. PICK low \in Int : low = AtMost(bottom, Rows)
  BY ScreenSizes, AtMostIs
<1>b. PICK end \in Int : end = AtMost(right, W)
  BY <1>w, AtMostIs
<1>c. PICK by \in Int : by = (IF lines = 0 \/ lines >= low - top + 1 THEN low - top + 1 ELSE lines)
  <2>1. CASE lines = 0 \/ lines >= low - top + 1
    <3>1. low - top + 1 \in Int
      OBVIOUS
    <3> QED
      BY <2>1, <3>1
  <2>2. CASE ~(lines = 0 \/ lines >= low - top + 1)
    BY <2>2
  <2> QED
    BY <2>1, <2>2
<1>d. PICK front \in Int : front = (IF down THEN low ELSE top)
  <2>1. CASE down
    BY <2>1
  <2>2. CASE ~down
    BY <2>2
  <2> QED
    BY <2>1, <2>2
<1>e. PICK start \in Int : start = (IF down THEN top ELSE low - by + 1)
  <2>1. CASE down
    BY <2>1
  <2>2. CASE ~down
    <3>1. low - by + 1 \in Int
      OBVIOUS
    <3> QED
      BY <2>2, <3>1
  <2> QED
    BY <2>1, <2>2
<1>f. (down => front = low /\ start = top) /\ (~down => front = top /\ start = low - by + 1)
  <2>1. CASE down
    BY <1>d, <1>e, <2>1
  <2>2. CASE ~down
    BY <1>d, <1>e, <2>2
  <2> QED
    BY <2>1, <2>2
<1>g. (lines = 0 \/ lines >= low - top + 1 => by = low - top + 1)
      /\ (~(lines = 0 \/ lines >= low - top + 1) => by = lines)
  BY <1>c
<1>h. /\ low < Rows /\ (bottom < Rows => low = bottom) /\ (bottom >= Rows => low = Rows - 1)
      /\ end < W /\ (right < W => end = right) /\ (right >= W => end = W - 1)
  BY <1>w, <1>a, <1>b, ScreenSizes, AtMostIs
<1> DEFINE Empty == top >= Rows \/ left >= W \/ top > low \/ left > end
           Moved == RowsMoved(m, p, v, front, low - top + 1 - by, by, left, end, down)
<1>5. after = IF Empty THEN v ELSE RowsBlanked(m, p, Moved, start, by, left, end)
  BY <1>1, <1>w, <1>a, <1>b, <1>c, <1>d, <1>e DEF Scrolled
<1>6. LoopsOver(m, p, v, lines, top, left, bottom, right, down, W, low, end, by, front, start)
  BY <1>1, <1>f, <1>g, <1>h, <1>5, Zenon DEF LoopsOver
<1> QED
  BY <1>w, <1>6, Zenon DEF RunsOf

(* A scroll of any window by any number of lines, up or down, in any mode, moves the rows *)
(* of the window and blanks what they leave: copying row by row in place overwrites       *)
(* nothing that is still to be read (scroll_window).                                      *)
THEOREM ScrollMovesWindow ==
  ASSUME NEW X, Blank \in X, NEW v \in CellPicture(X), NEW m, NEW p \in Nat,
         PageFits(m, p) \/ PageAbsent(m, p), NEW lines \in Nat, NEW top \in Nat,
         NEW left \in Nat, NEW bottom \in Nat, NEW right \in Nat, NEW down \in BOOLEAN
  PROVE  ScrollShifts(m, p, v, <<top, left, bottom, right>>, lines, down,
                      Scrolled(m, p, v, lines, top, left, bottom, right, down))
<1> DEFINE Inside(r, c) == top <= r /\ r <= bottom /\ left <= c /\ c <= right
           Far(r) == IF down THEN r - (IF lines = 0 THEN Rows ELSE lines)
                             ELSE r + (IF lines = 0 THEN Rows ELSE lines)
<1>1. PICK after : after = Scrolled(m, p, v, lines, top, left, bottom, right, down)
  OBVIOUS
<1>2. SUFFICES ASSUME NEW r \in Int, r \in 0..(Rows - 1), NEW c \in 0..(Columns(m) - 1)
               PROVE  Shown(m, p, after, r, c)
                        = IF ~Inside(r, c) THEN Shown(m, p, v, r, c)
                          ELSE IF Far(r) \in 0..(Rows - 1) /\ Inside(Far(r), c)
                                 THEN Shown(m, p, v, Far(r), c) ELSE Blank
  BY <1>1, ScreenSizes DEF ScrollShifts, Shown
<1>3. CASE PageAbsent(m, p)
  BY <1>3, ScreenSizes DEF PageAbsent, Shown, Cell
<1>k. RunsOf(m, p, v, lines, top, left, bottom, right, down)
  BY ScrollRuns
<1>p. PICK W \in Nat, low \in Int, end \in Int, by \in Int, front \in Int, start \in Int :
        /\ W = Columns(m) /\ W > 0
        /\ LoopsOver(m, p, v, lines, top, left, bottom, right, down, W, low, end, by, front, start)
  BY <1>k DEF RunsOf
<1>w. W = Columns(m) /\ W > 0
  BY <1>p
<1>f. (down => front = low /\ start = top) /\ (~down => front = top /\ start = low - by + 1)
  BY <1>p DEF LoopsOver
<1>g. (lines = 0 \/ lines >= low - top + 1 => by = low - top + 1)
      /\ (~(lines = 0 \/ lines >= low - top + 1) => by = lines)
  BY <1>p DEF LoopsOver
<1>h. /\ low < Rows /\ (bottom < Rows => low = bottom) /\ (bottom >= Rows => low = Rows - 1)
      /\ end < W /\ (right < W => end = right) /\ (right >= W => end = W - 1)
  BY <1>p DEF LoopsOver
<1> DEFINE Empty == top >= Rows \/ left >= W \/ top > low \/ left > end
           Moved == RowsMoved(m, p, v, front, low - top + 1 - by, by, left, end, down)
<1>5. after = IF Empty THEN v ELSE RowsBlanked(m, p, Moved, start, by, left, end)
  BY <1>1, <1>p DEF LoopsOver
<1>6. CASE Empty
  <2>1. after = v
    BY <1>5, <1>6
  <2>2. ASSUME NEW q \in Int, q \in 0..(Rows - 1) PROVE ~Inside(q, c)
    <3>1. c \in 0..(W - 1)
      BY <1>w
    <3>2. CASE top >= Rows \/ top > low
      <4>1. PICK R \in Nat : R = Rows /\ q \in 0..(R - 1) /\ low < R
        BY <2>2, <1>h, ScreenSizes
      <4>2. (bottom < R => low = bottom) /\ (bottom >= R => low = R - 1) /\ (top >= R \/ top > low)
        BY <1>h, <3>2, <4>1
      <4>3. ~(top <= q /\ q <= bottom)
        BY <4>1, <4>2
      <4> QED
        BY <4>3
    <3>3. CASE left >= W \/ left > end
      BY <1>h, <3>1, <3>3
    <3> QED
      BY <1>6, <1>w, <3>2, <3>3
  <2>3. ~Inside(r, c)
    BY <1>2, <2>2
  <2> QED
    BY <2>1, <2>3
<1>7. CASE PageFits(m, p) /\ ~Empty
  <2>1. PICK turns \in Int : turns = low - top + 1 - by
    OBVIOUS
  <2>w. top <= low /\ left <= end /\ c \in 0..(W - 1)
    BY <1>7, <1>w
  <2>2. /\ turns \in Nat /\ by \in Nat /\ by > 0 /\ low \in 0..(Rows - 1)
        /\ end \in 0..(Columns(m) - 1) /\ top <= low
        /\ c <= end <=> c <= right
        /\ r <= low <=> r <= bottom
    <3>1. low \in 0..(Rows - 1) /\ end \in 0..(W - 1)
      BY <2>w, <1>h, ScreenSizes
    <3>2. c <= end <=> c <= right
      BY <2>w, <1>h
    <3>3. r <= low <=> r <= bottom
      BY <1>2, <1>h, ScreenSizes
    <3>4. by \in 1..(low - top + 1)
      BY <1>g, <2>w
    <3> QED
      BY <2>1, <2>w, <1>w, <3>1, <3>2, <3>3, <3>4
  <2>3. /\ front \in 0..(Rows - 1) /\ start \in 0..(Rows - 1) /\ start + by - 1 <= Rows - 1
        /\ down => front - turns - by + 1 >= 0
        /\ ~down => front + turns + by - 1 <= Rows - 1
    <3>1. CASE down
      <4>1. front = low /\ start = top
        BY <1>f, <3>1
      <4>2. /\ front \in 0..(Rows - 1) /\ start \in 0..(Rows - 1) /\ start + by - 1 <= Rows - 1
            /\ front - turns - by + 1 >= 0
        BY <2>1, <2>2, <4>1, ScreenSizes
      <4> QED
        BY <3>1, <4>2
    <3>2. CASE ~down
      <4>1. front = top /\ start = low - by + 1
        BY <1>f, <3>2
      <4>2. /\ front \in 0..(Rows - 1) /\ start \in 0..(Rows - 1) /\ start + by - 1 <= Rows - 1
            /\ front + turns + by - 1 <= Rows - 1
        BY <2>1, <2>2, <4>1, ScreenSizes
      <4> QED
        BY <3>2, <4>2
    <3> QED
      BY <3>1, <3>2
  <2>4. PICK newer \in CellPicture(X) :
          newer = RowsMoved(m, p, v, front, turns, by, left, end, down)
    <3>1. PICK next \in Nat : next = turns + 1
      BY <2>2
    <3>2. TurnRow(front, next, down) \in Int
      BY TurnRowInt
    <3>3. PICK to \in Int : to = TurnRow(front, next, down)
      BY <3>2
    <3>4. Source(to, by, down) \in Int
      BY SourceInt
    <3>5. PICK from \in Int : from = Source(to, by, down)
      BY <3>4
    <3> QED
      BY <2>2, <3>1, <3>3, <3>5, RowsMovedTurns
  <2>5. after = RowsBlanked(m, p, newer, start, by, left, end)
    BY <1>5, <1>7, <2>1, <2>4
  <2>6. Shown(m, p, newer, r, c)
          = IF TurnedLine(front, turns, down, r) /\ left <= c /\ c <= end
              THEN Shown(m, p, v, Source(r, by, down), c) ELSE Shown(m, p, v, r, c)
    <3>1. r \in 0..(Rows - 1)
      BY <1>2
    <3>2. PICK n \in Nat, b \in Nat : n = turns /\ b = by
      BY <2>2
    <3>3. /\ b > 0 /\ front \in 0..(Rows - 1) /\ end \in 0..(Columns(m) - 1) /\ PageFits(m, p)
          /\ down => front - n - b + 1 >= 0
          /\ ~down => front + n + b - 1 <= Rows - 1
      BY <1>7, <2>2, <2>3, <3>2
    <3>4. Shown(m, p, RowsMoved(m, p, v, front, n, b, left, end, down), r, c)
            = IF TurnedLine(front, n, down, r) /\ left <= c /\ c <= end
                THEN Shown(m, p, v, Source(r, b, down), c) ELSE Shown(m, p, v, r, c)
      BY <3>1, <3>3, RowsMovedShow, SMTT(60)
    <3> QED
      BY <2>4, <3>2, <3>4
  <2>7. Shown(m, p, after, r, c)
          = IF start <= r /\ r < start + by /\ left <= c /\ c <= end
              THEN Blank ELSE Shown(m, p, newer, r, c)
    <3>1. r \in 0..(Rows - 1)
      BY <1>2
    <3> QED
      BY <1>7, <2>2, <2>3, <2>5, <3>1, RowsBlankedShow
  <2>8. CASE ~Inside(r, c)
    <3>1. ~(left <= c /\ c <= end) \/ ~(top <= r /\ r <= low)
      BY <1>2, <2>2, <2>8
    <3>2. CASE ~(left <= c /\ c <= end)
      BY <2>6, <2>7, <2>8, <3>2
    <3>3. CASE ~(top <= r /\ r <= low)
      <4>1. ~TurnedLine(front, turns, down, r) /\ ~(start <= r /\ r < start + by)
        BY <1>f, <2>1, <2>2, <3>3 DEF TurnedLine
      <4> QED
        BY <2>6, <2>7, <2>8, <4>1
    <3> QED
      BY <3>1, <3>2, <3>3
  <2>9. CASE Inside(r, c)
    <3>1. left <= c /\ c <= end /\ top <= r /\ r <= low
      BY <2>2, <2>9
    <3>2. TurnedLine(front, turns, down, r) <=> ~(start <= r /\ r < start + by)
      BY <1>f, <2>1, <2>2, <3>1 DEF TurnedLine
    <3>3. TurnedLine(front, turns, down, r)
            => by = lines /\ lines # 0 /\ Far(r) = Source(r, by, down)
               /\ Far(r) \in 0..(Rows - 1) /\ Inside(Far(r), c)
      <4>1. SUFFICES ASSUME TurnedLine(front, turns, down, r)
                     PROVE  by = lines /\ lines # 0 /\ Far(r) = Source(r, by, down)
                            /\ Far(r) \in 0..(Rows - 1) /\ Inside(Far(r), c)
        OBVIOUS
      <4>2. by = lines /\ lines # 0
        BY <1>g, <1>f, <2>1, <2>2, <4>1 DEF TurnedLine
      <4>3. Far(r) = Source(r, by, down)
        BY <4>2 DEF Source
      <4>4. PICK far \in Int : far = Source(r, by, down)
        BY SourceInt
      <4>5. top <= far /\ far <= low
        BY <1>f, <2>1, <2>2, <4>1, <4>4 DEF TurnedLine, Source
      <4>6. low <= bottom /\ far \in 0..(Rows - 1)
        BY <1>h, <2>2, <4>5, ScreenSizes
      <4> QED
        BY <2>9, <4>2, <4>3, <4>4, <4>5, <4>6
    <3>4. ~TurnedLine(front, turns, down, r) => ~(Far(r) \in 0..(Rows - 1) /\ Inside(Far(r), c))
      <4>1. SUFFICES ASSUME ~TurnedLine(front, turns, down, r), Far(r) \in 0..(Rows - 1),
                            Inside(Far(r), c)
                     PROVE  FALSE
        OBVIOUS
      <4>2. PICK far \in Int : far = Far(r) /\ far \in 0..(Rows - 1) /\ top <= far /\ far <= bottom
        BY <4>1
      <4>3. far <= low
        BY <1>h, <4>2, ScreenSizes
      <4>4. lines # 0
        BY <1>2, <4>2, ScreenSizes
      <4>5. far = IF down THEN r - lines ELSE r + lines
        BY <4>2, <4>4
      <4> QED
        BY <1>f, <1>g, <2>1, <2>2, <3>1, <4>1, <4>2, <4>3, <4>4, <4>5 DEF TurnedLine
    <3> QED
      BY <2>6, <2>7, <2>9, <3>1, <3>2, <3>3, <3>4
  <2> QED
    BY <2>8, <2>9
<1> QED
  BY <1>3, <1>6, <1>7

\* A scroll leaves a picture of what was on the screen before, and blanks.
LEMMA ScrolledPicture ==
  ASSUME NEW X, Blank \in X, NEW v \in CellPicture(X), NEW m, NEW p, NEW lines \in Nat, NEW top \in Nat,
         NEW left \in Nat, NEW bottom \in Nat, NEW right \in Nat, NEW down \in BOOLEAN
  PROVE  Scrolled(m, p, v, lines, top, left, bottom, right, down) \in CellPicture(X)
<1>1. PICK after : after = Scrolled(m, p, v, lines, top, left, bottom, right, down)
  OBVIOUS
<1>k. RunsOf(m, p, v, lines, top, left, bottom, right, down)
  BY ScrollRuns
<1>p. PICK W \in Nat, low \in Int, end \in Int, by \in Int, front \in Int, start \in Int :
        /\ W = Columns(m) /\ W > 0
        /\ LoopsOver(m, p, v, lines, top, left, bottom, right, down, W, low, end, by, front, start)
  BY <1>k DEF RunsOf
<1>w. W = Columns(m) /\ W > 0
  BY <1>p
<1>f. (down => front = low /\ start = top) /\ (~down => front = top /\ start = low - by + 1)
  BY <1>p DEF LoopsOver
<1>g. (lines = 0 \/ lines >= low - top + 1 => by = low - top + 1)
      /\ (~(lines = 0 \/ lines >= low - top + 1) => by = lines)
  BY <1>p DEF LoopsOver
<1>h. /\ low < Rows /\ (bottom < Rows => low = bottom) /\ (bottom >= Rows => low = Rows - 1)
      /\ end < W /\ (right < W => end = right) /\ (right >= W => end = W - 1)
  BY <1>p DEF LoopsOver
<1> DEFINE Empty == top >= Rows \/ left >= W \/ top > low \/ left > end
           Moved == RowsMoved(m, p, v, front, low - top + 1 - by, by, left, end, down)
<1>5. after = IF Empty THEN v ELSE RowsBlanked(m, p, Moved, start, by, left, end)
  BY <1>1, <1>p DEF LoopsOver
<1>6. CASE Empty
  BY <1>1, <1>5, <1>6
<1>7. CASE ~Empty
  <2>1. PICK turns \in Nat : turns = low - top + 1 - by
    <3>1. low - top + 1 - by \in Nat
      BY <1>g, <1>7
    <3> QED
      BY <3>1
  <2>2. by \in Nat
    BY <1>g, <1>7
  <2>3. PICK newer \in CellPicture(X) :
          newer = RowsMoved(m, p, v, front, turns, by, left, end, down)
    <3>1. PICK next \in Nat : next = turns + 1
      OBVIOUS
    <3>2. TurnRow(front, next, down) \in Int
      BY TurnRowInt
    <3>3. PICK to \in Int : to = TurnRow(front, next, down)
      BY <3>2
    <3>4. Source(to, by, down) \in Int
      BY SourceInt
    <3>5. PICK from \in Int : from = Source(to, by, down)
      BY <3>4
    <3> QED
      BY <3>1, <3>3, <3>5, RowsMovedTurns
  <2>4. after = RowsBlanked(m, p, newer, start, by, left, end)
    BY <1>5, <1>7, <2>1, <2>3
  <2>5. PICK n \in Nat, next \in Nat, to \in Int : n = by /\ next = n + 1 /\ to = start + n
    <3>1. by + 1 \in Nat /\ start + by \in Int
      BY <2>2
    <3> QED
      BY <2>2, <3>1
  <2>6. RowsBlanked(m, p, newer, start, n, left, end) \in CellPicture(X)
    BY <2>5, RowsBlankedTurns
  <2> QED
    BY <1>1, <2>4, <2>5, <2>6
<1> QED
  BY <1>6, <1>7

----------------------------------------------------------------------------
(* The types of the video services.                                        *)
Drawable == Characters \cup {Blank, Dots}
CellPlaces(m) == [row : 0..(Rows - 1), column : 0..(Columns(m) - 1)]
RollOK(roll) ==
  roll.at \in Nat /\ \A q \in DOMAIN roll.struck : q \in Nat /\ roll.struck[q] \in Characters

LEMMA VideoTypes ==
  VideoTypeOK <=> /\ mode \in Modes /\ page \in Pages /\ cursor \in [Pages -> CellPlaces(mode)]
                  /\ vram \in CellPicture(Drawable) /\ served \in BOOLEAN /\ plain \in BOOLEAN
                  /\ RollOK(paper)
BY DEF VideoTypeOK, Drawable, CellPlaces, RollOK, CellPicture

LEMMA Pictures ==
  /\ Blank \in Drawable /\ [c \in Cells |-> Blank] \in CellPicture(Drawable)
  /\ Drawn \in CellPicture(Drawable)
  /\ \A v \in CellPicture(Drawable), ch \in Characters : \A S :
       [c \in Cells |-> IF c \in S THEN ch ELSE v[c]] \in CellPicture(Drawable)
  /\ \A v \in CellPicture(Drawable), ch \in Characters : \A cell :
       [c \in Cells |-> IF c = cell THEN ch ELSE v[c]] \in CellPicture(Drawable)
BY DEF Drawable, CellPicture, Drawn

LEMMA Homes == ASSUME NEW m PROVE [p \in Pages |-> Home] \in [Pages -> CellPlaces(m)]
<1>1. 0 \in 0..(Rows - 1) /\ 0 \in 0..(Columns(m) - 1)
  BY ScreenSizes
<1>2. Home \in CellPlaces(m)
  BY <1>1 DEF CellPlaces, Home
<1> QED
  BY <1>2

LEMMA EmptyRoll == RollOK(Unprinted)
BY DEF RollOK, Unprinted

LEMMA Moves ==
  ASSUME cursor \in [Pages -> CellPlaces(mode)], NEW p, NEW r \in Nat, NEW c \in Nat
  PROVE  MovedTo(p, r, c) \in [Pages -> CellPlaces(mode)]
<1>1. AtMost(r, Rows) \in 0..(Rows - 1)
  BY ScreenSizes DEF AtMost
<1>2. AtMost(c, Columns(mode)) \in 0..(Columns(mode) - 1)
  <2>1. PICK W \in Nat : W = Columns(mode) /\ W > 0
    BY ScreenSizes
  <2>2. AtMost(c, W) \in 0..(W - 1)
    BY <2>1 DEF AtMost
  <2> QED
    BY <2>1, <2>2
<1>3. [row |-> AtMost(r, Rows), column |-> AtMost(c, Columns(mode))] \in CellPlaces(mode)
  BY <1>1, <1>2 DEF CellPlaces
<1> QED
  BY <1>3 DEF MovedTo

\* Where the cursor goes behind a character.
LEMMA AfterIs ==
  ASSUME NEW at \in CellPlaces(mode), NEW ch \in Characters \cup Controls
  PROVE  /\ After(ch, at).row \in Nat /\ After(ch, at).column \in Nat
         /\ ch = "bs" => /\ After(ch, at).row = at.row
                         /\ at.column # 0 => After(ch, at).column = at.column - 1
                         /\ at.column = 0 => After(ch, at).column = 0
         /\ ch = "cr" => After(ch, at).row = at.row /\ After(ch, at).column = 0
         /\ ch = "lf" => After(ch, at).row = at.row + 1 /\ After(ch, at).column = at.column
         /\ ch = "bel" => After(ch, at).row = at.row /\ After(ch, at).column = at.column
         /\ ch \in Characters =>
              /\ at.column + 1 < Columns(mode)
                   => After(ch, at).row = at.row /\ After(ch, at).column = at.column + 1
              /\ ~(at.column + 1 < Columns(mode))
                   => After(ch, at).row = at.row + 1 /\ After(ch, at).column = 0
<1>1. PICK r \in Nat, c \in Nat : at = [row |-> r, column |-> c]
  BY ScreenSizes DEF CellPlaces
<1>2. CASE ch = "bs"
  BY <1>1, <1>2, VideoAssumption DEF After
<1>3. CASE ch = "cr"
  BY <1>1, <1>3, VideoAssumption DEF After
<1>4. CASE ch = "lf"
  BY <1>1, <1>4, VideoAssumption DEF After
<1>5. CASE ch = "bel"
  BY <1>1, <1>5, VideoAssumption DEF After
<1>6. CASE ch \in Characters
  BY <1>1, <1>6, VideoAssumption DEF After
<1> QED
  BY <1>2, <1>3, <1>4, <1>5, <1>6 DEF Controls

LEMMA Division ==
  ASSUME NEW a \in Nat, NEW d \in Nat \ {0}
  PROVE  a = d * (a \div d) + (a % d)
<1>1. a = d * (a \div d) + (a % d)
  BY Z3
<1> QED
  BY <1>1

\* Where the paper is behind a character.
LEMMA TypedIs ==
  ASSUME NEW at \in Nat, NEW ch \in Characters \cup Controls
  PROVE  /\ TypedAt(at, ch) \in Nat
         /\ ch = "bs" => /\ at % Columns(mode) = 0 => TypedAt(at, ch) = at
                         /\ at % Columns(mode) # 0 => TypedAt(at, ch) = at - 1
         /\ ch = "cr" => TypedAt(at, ch) = at - (at % Columns(mode))
         /\ ch = "lf" => TypedAt(at, ch) = at + Columns(mode)
         /\ ch = "bel" => TypedAt(at, ch) = at
         /\ ch \in Characters => TypedAt(at, ch) = at + 1
<1>1. PICK W \in Nat : W = Columns(mode) /\ W > 0
  BY ScreenSizes
<1>2. at % W \in Nat /\ at % W <= at
  <2>1. PICK q \in Int, x \in Int : q = at \div W /\ x = at % W
    BY <1>1
  <2>2. x \in 0..(W - 1)
    BY <1>1, <2>1
  <2>3. at = W * q + x
    <3>1. W \in Nat \ {0}
      BY <1>1
    <3>2. at = W * (at \div W) + (at % W)
      BY <3>1, Division
    <3> QED
      BY <2>1, <3>2
  <2>4. PICK y \in Int : y = W * q
    BY <1>1
  <2>5. q >= 0
    BY <1>1, <2>1
  <2>6. y >= 0
    BY <1>1, <2>4, <2>5
  <2> QED
    BY <2>1, <2>2, <2>3, <2>4, <2>6
<1>3. CASE ch = "bs"
  BY <1>1, <1>2, <1>3, VideoAssumption DEF TypedAt
<1>4. CASE ch = "cr"
  BY <1>1, <1>2, <1>4, VideoAssumption DEF TypedAt
<1>5. CASE ch = "lf"
  BY <1>1, <1>5, VideoAssumption DEF TypedAt
<1>6. CASE ch = "bel"
  BY <1>6, VideoAssumption DEF TypedAt
<1>7. CASE ch \in Characters
  BY <1>7, VideoAssumption DEF TypedAt
<1> QED
  BY <1>3, <1>4, <1>5, <1>6, <1>7 DEF Controls

LEMMA TypedRoll ==
  ASSUME NEW roll, RollOK(roll), NEW ch \in Characters \cup Controls
  PROVE  RollOK(Rolled(roll, ch))
<1>1. PICK at \in Nat : at = roll.at
  BY DEF RollOK
<1>2. TypedAt(at, ch) \in Nat
  BY TypedIs
<1>3. CASE ch \in Characters
  BY <1>1, <1>2, <1>3 DEF RollOK, Rolled
<1>4. CASE ch \notin Characters
  BY <1>1, <1>2, <1>4 DEF RollOK, Rolled
<1> QED
  BY <1>3, <1>4

\* The types, and the pieces of them that an action leaves.
VideoParts(m, p, at, v, pl, roll) ==
  /\ m \in Modes /\ p \in Pages /\ at \in [Pages -> CellPlaces(m)]
  /\ v \in CellPicture(Drawable) /\ pl \in BOOLEAN /\ RollOK(roll)

LEMMA VideoPartsNow ==
  VideoTypeOK <=> VideoParts(mode, page, cursor, vram, plain, paper) /\ served \in BOOLEAN
BY VideoTypes DEF VideoParts

LEMMA VideoPartsNext ==
  VideoTypeOK' <=> VideoParts(mode', page', cursor', vram', plain', paper') /\ served' \in BOOLEAN
<1>1. VideoTypeOK' <=> (VideoParts(mode, page, cursor, vram, plain, paper) /\ served \in BOOLEAN)'
  BY VideoPartsNow, PTL
<1>2. VideoParts(mode, page, cursor, vram, plain, paper)'
        <=> VideoParts(mode', page', cursor', vram', plain', paper')
  BY DEF VideoParts, CellPlaces, Drawable, CellPicture, Cells, RollOK, Blank, Dots
<1> QED
  BY <1>1, <1>2

LEMMA ModesPages == 3 \in Modes /\ 0 \in Pages /\ \A m \in Modes : m \in Int
BY VideoAssumption DEF Modes, Pages

LEMMA VideoStart == VideoInit => VideoTypeOK
<1> SUFFICES ASSUME VideoInit PROVE VideoTypeOK
  OBVIOUS
<1>1. cursor \in [Pages -> CellPlaces(mode)]
  BY Homes DEF VideoInit
<1>2. vram \in CellPicture(Drawable)
  BY Pictures DEF VideoInit
<1>3. mode \in Modes /\ page \in Pages /\ served \in BOOLEAN /\ plain \in BOOLEAN /\ RollOK(paper)
  BY ModesPages, EmptyRoll DEF VideoInit
<1> QED
  BY <1>1, <1>2, <1>3, VideoTypes

LEMMA TeletypePicture ==
  ASSUME VideoTypeOK, NEW ch \in Characters \cup Controls, NEW cell
  PROVE  (IF ch \notin Characters THEN vram
          ELSE IF IsText(mode) THEN [c \in Cells |-> IF c = cell THEN ch ELSE vram[c]] ELSE Drawn)
            \in CellPicture(Drawable)
<1>0. vram \in CellPicture(Drawable)
  BY VideoTypes
<1>1. CASE ch \notin Characters
  BY <1>0, <1>1
<1>2. CASE ch \in Characters /\ IsText(mode)
  <2>1. [c \in Cells |-> IF c = cell THEN ch ELSE vram[c]] \in CellPicture(Drawable)
    BY <1>0, <1>2, Pictures
  <2> QED
    BY <1>2, <2>1
<1>3. CASE ch \in Characters /\ ~IsText(mode)
  BY <1>3, Pictures
<1> QED
  BY <1>1, <1>2, <1>3

LEMMA VideoKeepsTypes ==
  ASSUME VideoTypeOK, [VideoNext]_videoVars
  PROVE  VideoTypeOK'
<1>0. /\ mode \in Modes /\ page \in Pages /\ cursor \in [Pages -> CellPlaces(mode)]
      /\ vram \in CellPicture(Drawable) /\ served \in BOOLEAN /\ plain \in BOOLEAN /\ RollOK(paper)
  BY VideoTypes
<1>s. served' \in BOOLEAN
  BY <1>0 DEF VideoNext, videoVars, LaunchVideo, SetVideoMode, SetShape, SetCursor, SelectPage,
     ScrollWindow, WriteCharacters, WritePixel, Teletype, Copied
<1>1. SUFFICES VideoParts(mode', page', cursor', vram', plain', paper')
  BY <1>s, VideoPartsNext
<1>2. CASE LaunchVideo
  <2>1. cursor' \in [Pages -> CellPlaces(mode')]
    BY <1>2, Homes DEF LaunchVideo
  <2>2. vram' \in CellPicture(Drawable)
    BY <1>2, Pictures DEF LaunchVideo
  <2>3. mode' \in Modes /\ page' \in Pages /\ plain' \in BOOLEAN /\ RollOK(paper')
    BY <1>2, ModesPages, EmptyRoll DEF LaunchVideo
  <2> QED
    BY <2>1, <2>2, <2>3 DEF VideoParts
<1>3. CASE SetVideoMode
  <2>1. cursor' \in [Pages -> CellPlaces(mode')]
    BY <1>3, Homes DEF SetVideoMode
  <2>2. vram' \in CellPicture(Drawable)
    BY <1>0, <1>3, Pictures DEF SetVideoMode
  <2>3. mode' \in Modes /\ page' \in Pages /\ RollOK(paper')
    BY <1>3, ModesPages, EmptyRoll DEF SetVideoMode
  <2>4. plain' \in BOOLEAN
    <3>1. ASSUME NEW m \in Modes PROVE IsText(m) \in BOOLEAN
      BY ModesPages DEF IsText
    <3> QED
      BY <1>3, <3>1 DEF SetVideoMode
  <2> QED
    BY <2>1, <2>2, <2>3, <2>4 DEF VideoParts
<1>4. CASE SetShape
  BY <1>0, <1>4 DEF SetShape, VideoParts
<1>5. CASE SetCursor
  <2>1. PICK p \in Pages, r \in 0..Rows, c \in 0..(2 * Narrow) : cursor' = MovedTo(p, r, c)
    BY <1>5 DEF SetCursor
  <2>2. r \in Nat /\ c \in Nat
    BY VideoAssumption
  <2>3. cursor' \in [Pages -> CellPlaces(mode)]
    BY <1>0, <2>1, <2>2, Moves
  <2> QED
    BY <1>0, <1>5, <2>3, EmptyRoll DEF SetCursor, VideoParts
<1>6. CASE SelectPage
  BY <1>0, <1>6, EmptyRoll DEF SelectPage, VideoParts
<1>7. CASE ScrollWindow
  <2>1. PICK w \in Windows, lines \in 0..Rows, down \in BOOLEAN :
          vram' = Scrolled(mode, page, vram, lines, w[1], w[2], w[3], w[4], down)
    BY <1>7 DEF ScrollWindow
  <2>2. PICK top \in Nat, left \in Nat, bottom \in Nat, right \in Nat :
          top = w[1] /\ left = w[2] /\ bottom = w[3] /\ right = w[4]
    BY VideoAssumption
  <2>3. lines \in Nat
    BY ScreenSizes
  <2>4. Scrolled(mode, page, vram, lines, top, left, bottom, right, down) \in CellPicture(Drawable)
    BY <1>0, <2>3, Pictures, ScrolledPicture
  <2>5. vram' \in CellPicture(Drawable)
    BY <2>1, <2>2, <2>4
  <2> QED
    BY <1>0, <1>7, <2>5, EmptyRoll DEF ScrollWindow, VideoParts
<1>8. CASE WriteCharacters
  <2>1. vram' \in CellPicture(Drawable)
    <3>1. PICK p \in Pages, count \in 0..MaxCount, ch \in Characters :
            LET start == cursor[p].row * Columns(mode) + cursor[p].column
                written == {CellAt(mode, p, 0, (start + k) % (Rows * Columns(mode)))
                              : k \in 0..count - 1}
            IN  IF IsText(mode)
                  THEN vram' = [c \in Cells |-> IF c \in written THEN ch ELSE vram[c]]
                  ELSE vram' = Drawn
      BY <1>8 DEF WriteCharacters
    <3>2. CASE IsText(mode)
      <4>1. PICK S : vram' = [c \in Cells |-> IF c \in S THEN ch ELSE vram[c]]
        BY <3>1, <3>2
      <4> QED
        BY <1>0, <4>1, Pictures
    <3>3. CASE ~IsText(mode)
      BY <3>1, <3>3, Pictures
    <3> QED
      BY <3>2, <3>3
  <2> QED
    BY <1>0, <1>8, <2>1, EmptyRoll DEF WriteCharacters, VideoParts
<1>9. CASE WritePixel
  BY <1>0, <1>9, Pictures DEF WritePixel, VideoParts
<1>10. CASE Teletype
  <2>1. PICK ch \in Characters \cup Controls :
          LET at == cursor[page]
              cell == CellAt(mode, page, at.row, at.column)
              next == After(ch, at)
              printed == IF ch \notin Characters THEN vram
                         ELSE IF IsText(mode)
                           THEN [c \in Cells |-> IF c = cell THEN ch ELSE vram[c]]
                           ELSE Drawn
          IN  /\ vram' = IF next.row >= Rows
                           THEN Scrolled(mode, page, printed, 1, 0, 0, Rows - 1,
                                         Columns(mode) - 1, FALSE)
                           ELSE printed
              /\ cursor' = MovedTo(page, next.row, next.column)
              /\ paper' = IF plain THEN Rolled(paper, ch) ELSE paper
    BY <1>10 DEF Teletype
  <2>2. PICK at \in CellPlaces(mode) : at = cursor[page]
    BY <1>0
  <2>3. PICK cell : cell = CellAt(mode, page, at.row, at.column)
    OBVIOUS
  <2>4. PICK r \in Nat, c \in Nat : r = After(ch, at).row /\ c = After(ch, at).column
    BY <2>2, AfterIs
  <2>5. PICK printed \in CellPicture(Drawable) :
          printed = IF ch \notin Characters THEN vram
                    ELSE IF IsText(mode) THEN [i \in Cells |-> IF i = cell THEN ch ELSE vram[i]]
                                         ELSE Drawn
    BY TeletypePicture
  <2>6. Scrolled(mode, page, printed, 1, 0, 0, Rows - 1, Columns(mode) - 1, FALSE)
          \in CellPicture(Drawable)
    <3>1. PICK bottom \in Nat, right \in Nat : bottom = Rows - 1 /\ right = Columns(mode) - 1
      <4>1. Rows - 1 \in Nat /\ Columns(mode) - 1 \in Nat
        BY ScreenSizes
      <4> QED
        BY <4>1
    <3>2. Scrolled(mode, page, printed, 1, 0, 0, bottom, right, FALSE) \in CellPicture(Drawable)
      BY Pictures, ScrolledPicture
    <3> QED
      BY <3>1, <3>2
  <2>7. vram' \in CellPicture(Drawable)
    <3>1. vram' = IF r >= Rows
                    THEN Scrolled(mode, page, printed, 1, 0, 0, Rows - 1, Columns(mode) - 1, FALSE)
                    ELSE printed
      BY <2>1, <2>2, <2>3, <2>4, <2>5, Zenon
    <3> QED
      BY <2>6, <3>1
  <2>8. cursor' \in [Pages -> CellPlaces(mode)]
    BY <1>0, <2>1, <2>2, <2>4, Moves
  <2>9. RollOK(paper')
    <3>1. RollOK(Rolled(paper, ch))
      BY <1>0, TypedRoll
    <3>2. paper' = IF plain THEN Rolled(paper, ch) ELSE paper
      BY <2>1
    <3> QED
      BY <1>0, <3>1, <3>2
  <2> QED
    BY <1>0, <1>10, <2>7, <2>8, <2>9 DEF Teletype, VideoParts
<1>11. CASE UNCHANGED videoVars
  BY <1>0, <1>11 DEF videoVars, VideoParts
<1> QED
  BY <1>2, <1>3, <1>4, <1>5, <1>6, <1>7, <1>8, <1>9, <1>10, <1>11 DEF VideoNext

(* Every service leaves the video state well formed: cursors on the screen of the mode,   *)
(* a page that exists, memory that holds characters, blanks or dots.                      *)
THEOREM VideoTypeCorrect == VideoSpec => []VideoTypeOK
<1>1. VideoInit => VideoTypeOK
  BY VideoStart
<1>2. VideoTypeOK /\ [VideoNext]_videoVars => VideoTypeOK'
  BY VideoKeepsTypes
<1> QED
  BY <1>1, <1>2, PTL DEF VideoSpec

----------------------------------------------------------------------------
(* Teletype. The screen shows the last rows of the paper, as far as it is   *)
(* printed: above is what has left the screen, line the line printed on.    *)
Above(W, line) == IF line < Rows THEN 0 ELSE (line - (Rows - 1)) * W

Resembles(v, struck, W, line) ==
  \A c \in 0..(Rows * W - 1) :
    v[c] = IF c + Above(W, line) \in DOMAIN struck THEN struck[c + Above(W, line)] ELSE Blank

Printed(struck, W, line) == \A q \in DOMAIN struck : q \in Nat /\ q < (line + 1) * W

PaperAt(m, p, at, v, roll, W, line) ==
  /\ IsText(m) /\ p = 0
  /\ roll.at = line * W + at[0].column
  /\ at[0].row = IF line < Rows THEN line ELSE Rows - 1
  /\ Printed(roll.struck, W, line)
  /\ Resembles(v, roll.struck, W, line)

OnPaper(m, p, at, v, roll) ==
  \E W \in Nat, line \in Nat : W = Columns(m) /\ PaperAt(m, p, at, v, roll, W, line)

PaperInv == plain => OnPaper(mode, page, cursor, vram, paper)

LEMMA TimesUp ==
  ASSUME NEW a \in Nat, NEW b \in Nat, NEW W \in Nat, a <= b
  PROVE  a * W <= b * W /\ a * W \in Nat
<1>1. PICK k \in Nat : b = a + k
  <2>1. b - a \in Nat /\ b = a + (b - a)
    OBVIOUS
  <2> QED
    BY <2>1
<1>2. PICK K \in Nat, A \in Nat : K = k * W /\ A = a * W
  OBVIOUS
<1>3. (a + k) * W = A + K
  BY <1>2
<1> QED
  BY <1>1, <1>2, <1>3

LEMMA Dist ==
  ASSUME NEW a \in Int, NEW b \in Int, NEW W \in Int
  PROVE  a * W + b * W = (a + b) * W /\ a * W \in Int
OBVIOUS

LEMMA PageZero ==
  ASSUME NEW m, NEW W \in Nat, W = Columns(m)
  PROVE  /\ W > 0 /\ Rows * W \in Nat /\ 0..(Rows * W - 1) \subseteq Cells
         /\ \A r \in Int, c \in Int : CellAt(m, 0, r, c) = r * W + c
         /\ \A r \in 0..(Rows - 1), c \in 0..(W - 1) : r * W + c \in 0..(Rows * W - 1)
         /\ PageFits(m, 0)
<1>1. W > 0 /\ Rows \in Nat /\ Rows > 0 /\ VramCells \in Nat
  BY ScreenSizes
<1>2. Rows * W \in Nat /\ Rows * W <= VramCells
  <2>1. PICK a \in Nat : a = Rows * Narrow
    BY VideoAssumption
  <2>2. Rows * 2 * Narrow = 2 * a /\ Rows * (2 * Narrow) = 2 * a
    BY <2>1, VideoAssumption
  <2>3. VramCells >= 2 * a
    BY <2>2, VideoAssumption
  <2>4. Rows * W = a \/ Rows * W = 2 * a
    BY <2>1, <2>2 DEF Columns
  <2> QED
    BY <1>1, <2>3, <2>4
<1>3. 0..(Rows * W - 1) \subseteq Cells
  BY <1>1, <1>2 DEF Cells
<1>4. ASSUME NEW r \in Int, NEW c \in Int PROVE CellAt(m, 0, r, c) = r * W + c
  <2>1. PICK z \in Int : z = PageCells(m)
    BY ScreenSizes
  <2>2. 0 * z = 0 /\ r * W \in Int
    BY <2>1
  <2> QED
    BY <2>1, <2>2 DEF CellAt
<1>5. ASSUME NEW r \in 0..(Rows - 1), NEW c \in 0..(W - 1) PROVE r * W + c \in 0..(Rows * W - 1)
  <2>1. (r + 1) * W <= Rows * W /\ r * W \in Nat
    <3>1. r \in Nat /\ r + 1 \in Nat /\ r + 1 <= Rows
      BY <1>1
    <3> QED
      BY <1>1, <3>1, TimesUp
  <2>2. (r + 1) * W = r * W + W
    BY <1>1
  <2>3. PICK R \in Nat, Z \in Nat : R = r * W /\ Z = Rows * W
    BY <1>2, <2>1
  <2> QED
    BY <2>1, <2>2, <2>3
<1>6. PageFits(m, 0)
  <2>1. ASSUME NEW r \in 0..(Rows - 1), NEW c \in 0..(Columns(m) - 1)
        PROVE  CellAt(m, 0, r, c) \in Cells
    <3>1. r \in Int /\ c \in Int
      BY <1>1, ScreenSizes
    <3> QED
      BY <1>3, <1>4, <1>5, <3>1
  <2> QED
    BY <2>1 DEF PageFits
<1> QED
  BY <1>1, <1>2, <1>3, <1>4, <1>5, <1>6

\* What the line behind the last takes away from the screen.
LEMMA AboveNext ==
  ASSUME NEW W \in Nat, NEW line \in Nat
  PROVE  /\ Above(W, line) \in Nat
         /\ line + 1 < Rows => Above(W, line) = 0 /\ Above(W, line + 1) = 0
         /\ line + 1 >= Rows => Above(W, line + 1) = Above(W, line) + W
         /\ line >= Rows - 1 => Above(W, line) + (Rows - 1) * W = line * W
         /\ line < Rows => Above(W, line) = 0
<1>0. Rows \in Nat /\ Rows > 0
  BY ScreenSizes
<1>1. CASE line < Rows - 1
  BY <1>0, <1>1 DEF Above
<1>2. CASE line >= Rows - 1
  <2>1. PICK k \in Nat : line = k + (Rows - 1) /\ k = line - (Rows - 1)
    <3>1. line - (Rows - 1) \in Nat /\ line = (line - (Rows - 1)) + (Rows - 1)
      BY <1>0, <1>2
    <3> QED
      BY <3>1
  <2>2. PICK K \in Nat, R \in Nat : K = k * W /\ R = (Rows - 1) * W
    <3>1. k * W \in Nat /\ (Rows - 1) * W \in Nat
      BY <1>0
    <3> QED
      BY <3>1
  <2>3. Above(W, line) = K
    <3>1. CASE k = 0
      BY <1>0, <2>1, <2>2, <3>1 DEF Above
    <3>2. CASE k > 0
      BY <1>0, <2>1, <2>2, <3>2 DEF Above
    <3> QED
      BY <3>1, <3>2
  <2>4. Above(W, line + 1) = K + W
    <3>1. (k + 1) * W = K + W
      BY <2>2
    <3>2. ~(line + 1 < Rows) /\ line + 1 - (Rows - 1) = k + 1
      BY <1>0, <2>1
    <3>3. PICK next \in Nat : next = line + 1
      OBVIOUS
    <3>4. PICK d \in Nat : d = next - (Rows - 1) /\ d = k + 1
      <4>1. k + 1 \in Nat
        OBVIOUS
      <4> QED
        BY <1>0, <3>2, <3>3, <4>1
    <3>5. Above(W, next) = d * W
      BY <3>2, <3>3, <3>4, Zenon DEF Above
    <3> QED
      BY <3>1, <3>3, <3>4, <3>5
  <2>5. line * W = K + R
    <3>1. (k + (Rows - 1)) * W = k * W + (Rows - 1) * W
      BY <1>0
    <3> QED
      BY <2>1, <2>2, <3>1
  <2>6. line < Rows => K = 0
    BY <1>0, <2>1, <2>2
  <2> QED
    BY <1>0, <1>2, <2>2, <2>3, <2>4, <2>5, <2>6
<1> QED
  BY <1>1, <1>2, <1>0

\* A row and the one under it; the cell of a place.
Under(r, next) == next = r + 1
Place(W, r, x, c) == c = r * W + x

\* A character struck on the roll, and on the screen.
StruckOn(struck, at, ch) == [q \in DOMAIN struck \cup {at} |-> IF q = at THEN ch ELSE struck[q]]
ShownAt(v, cell, ch) == [c \in Cells |-> IF c = cell THEN ch ELSE v[c]]

LEMMA SameShift ==
  ASSUME NEW c \in Int, NEW cell \in Int, NEW by \in Int, NEW at \in Int, cell + by = at
  PROVE  c = cell <=> c + by = at
OBVIOUS

\* A character struck at the cursor.
LEMMA Strike ==
  ASSUME NEW W \in Nat, NEW m, W = Columns(m), NEW line \in Nat, NEW col \in 0..(W - 1),
         NEW y \in Nat, line < Rows => y = line, ~(line < Rows) => y = Rows - 1,
         NEW v, NEW struck, NEW ch, NEW at \in Nat, Place(W, line, col, at),
         NEW cell \in Int, Place(W, y, col, cell),
         Printed(struck, W, line), Resembles(v, struck, W, line)
  PROVE  /\ Printed(StruckOn(struck, at, ch), W, line)
         /\ Resembles(ShownAt(v, cell, ch), StruckOn(struck, at, ch), W, line)
<1>0. at = line * W + col /\ cell = y * W + col
  BY DEF Place
<1>1. PICK more : more = StruckOn(struck, at, ch)
  OBVIOUS
<1>2. PICK shown : shown = ShownAt(v, cell, ch)
  OBVIOUS
<1>3. PICK A \in Nat : A = Above(W, line)
  BY AboveNext
<1>4. cell + A = at
  <2>0. Rows \in Nat /\ Rows > 0
    BY ScreenSizes
  <2>1. CASE line < Rows
    BY <1>0, <1>3, <2>0, <2>1, AboveNext
  <2>2. CASE line >= Rows
    <3>1. y = Rows - 1
      BY <2>0, <2>2
    <3>2. A + (Rows - 1) * W = line * W
      BY <1>3, <2>0, <2>2, AboveNext
    <3>3. PICK L \in Nat, R \in Int : L = line * W /\ R = (Rows - 1) * W
      <4>1. line * W \in Nat /\ (Rows - 1) * W \in Int
        BY <2>0
      <4> QED
        BY <4>1
    <3> QED
      BY <1>0, <3>1, <3>2, <3>3
  <2> QED
    BY <2>0, <2>1, <2>2
<1>s. \A c \in Int : c = cell <=> c + A = at
  BY <1>4, SameShift
<1>5. Printed(more, W, line)
  <2>1. PICK L \in Nat : L = line * W /\ (line + 1) * W = L + W
    BY PageZero
  <2>2. at < (line + 1) * W
    BY <1>0, <2>1
  <2> QED
    BY <1>1, <2>2 DEF Printed, StruckOn
<1>6. Resembles(shown, more, W, line)
  <2>1. SUFFICES ASSUME NEW c \in 0..(Rows * W - 1)
                 PROVE  shown[c] = IF c + A \in DOMAIN more THEN more[c + A] ELSE Blank
    BY <1>3 DEF Resembles
  <2>2. c \in Cells /\ c \in Int
    BY PageZero
  <2>3. v[c] = IF c + A \in DOMAIN struck THEN struck[c + A] ELSE Blank
    BY <1>3 DEF Resembles
  <2>4. c = cell <=> c + A = at
    BY <1>s, <2>2
  <2>5. CASE c = cell
    BY <1>1, <1>2, <2>2, <2>4, <2>5 DEF StruckOn, ShownAt
  <2>6. CASE c # cell
    BY <1>1, <1>2, <2>2, <2>3, <2>4, <2>6 DEF StruckOn, ShownAt
  <2> QED
    BY <2>5, <2>6
<1> QED
  BY <1>1, <1>2, <1>5, <1>6

\* Every cell of the screen is at a row and a column.
OnScreen(W, c) ==
  \E r \in Int, x \in Int : r \in 0..(Rows - 1) /\ x \in 0..(W - 1) /\ c = r * W + x

LEMMA RowColumn ==
  ASSUME NEW W \in Nat, W > 0, NEW c \in Nat, c < Rows * W
  PROVE  OnScreen(W, c)
<1>0. Rows \in Nat
  BY ScreenSizes
<1>1. PICK r \in Int, x \in Int : r = c \div W /\ x = c % W
  BY W > 0
<1>2. x \in 0..(W - 1)
  BY <1>1
<1>3. c = W * r + x
  <2>1. W \in Nat \ {0}
    OBVIOUS
  <2>2. c = W * (c \div W) + (c % W)
    BY <2>1, Division
  <2> QED
    BY <1>1, <2>2
<1>4. r >= 0
  BY <1>1
<1>5. r < Rows
  <2>1. SUFFICES ASSUME r >= Rows PROVE FALSE
    BY <1>0
  <2>2. Rows * W <= r * W
    BY <1>0, <1>4, <2>1, TimesUp
  <2>3. PICK R \in Int, Z \in Int : R = W * r /\ Z = Rows * W /\ R = r * W
    BY <1>0
  <2> QED
    BY <1>2, <1>3, <2>2, <2>3
<1>6. r \in 0..(Rows - 1) /\ c = r * W + x
  BY <1>0, <1>3, <1>4, <1>5
<1> QED
  BY <1>2, <1>6 DEF OnScreen

LEMMA AllOnScreen ==
  ASSUME NEW W \in Nat, W > 0
  PROVE  \A c \in 0..(Rows * W - 1) : OnScreen(W, c)
<1>1. Rows * W \in Nat
  BY ScreenSizes
<1>2. ASSUME NEW c \in 0..(Rows * W - 1) PROVE OnScreen(W, c)
  <2>1. c \in Nat /\ c < Rows * W
    BY <1>1
  <2> QED
    BY <2>1, RowColumn
<1> QED
  BY <1>2

LEMMA RowUp ==
  ASSUME NEW X, Blank \in X, NEW v \in CellPicture(X), NEW m, NEW W \in Nat, W = Columns(m),
         NEW w, w[1] = 0, w[2] = 0, w[3] = Rows - 1, w[4] = W - 1, NEW p, p = 0,
         NEW down, ~down,
         NEW after, ScrollShifts(m, p, v, w, 1, down, after),
         NEW r \in Int, r \in 0..(Rows - 1), NEW x \in Int, x \in 0..(W - 1),
         NEW next \in Int, Under(r, next),
         NEW c \in Int, Place(W, r, x, c), NEW d \in Int, Place(W, next, x, d)
  PROVE  /\ next < Rows => after[c] = v[d]
         /\ ~(next < Rows) => after[c] = Blank
<1>0. Rows \in Nat /\ Rows > 0 /\ W > 0 /\ next = r + 1 /\ c = r * W + x /\ d = next * W + x
  BY ScreenSizes DEF Under, Place
<1>1. /\ next \in 0..(Rows - 1) /\ next <= w[3]
           => Cell(after, CellAt(m, 0, r, x)) = Cell(v, CellAt(m, 0, next, x))
      /\ next \notin 0..(Rows - 1) => Cell(after, CellAt(m, 0, r, x)) = Blank
  <2>1. r \in 0..(Rows - 1) /\ x \in 0..(Columns(m) - 1) /\ r <= w[3] /\ x <= w[4]
    BY <1>0
  <2>3. Cell(after, CellAt(m, p, r, x))
          = IF ~(w[1] <= r /\ r <= w[3] /\ w[2] <= x /\ x <= w[4]) THEN Cell(v, CellAt(m, p, r, x))
            ELSE IF r + 1 \in 0..(Rows - 1)
                    /\ w[1] <= r + 1 /\ r + 1 <= w[3] /\ w[2] <= x /\ x <= w[4]
                   THEN Cell(v, CellAt(m, p, r + 1, x)) ELSE Blank
    BY <2>1 DEF ScrollShifts
  <2>4. w[1] <= r /\ r <= w[3] /\ w[2] <= x /\ x <= w[4]
    BY <1>0
  <2>5. next \in 0..(Rows - 1) /\ next <= w[3] => w[1] <= next /\ next <= w[3]
    BY <1>0
  <2>6. Cell(after, CellAt(m, p, r, x))
          = IF next \in 0..(Rows - 1) /\ w[1] <= next /\ next <= w[3]
              THEN Cell(v, CellAt(m, p, next, x)) ELSE Blank
    BY <1>0, <2>3, <2>4
  <2> QED
    BY <2>5, <2>6
<1>2. CellAt(m, 0, r, x) = r * W + x /\ CellAt(m, 0, next, x) = next * W + x
  BY PageZero
<1>3. r * W + x \in Cells
  BY PageZero
<1>4. next \in 0..(Rows - 1) => next * W + x \in Cells
  BY PageZero
<1>5. (next \in 0..(Rows - 1) <=> next < Rows) /\ (next < Rows <=> next <= w[3])
  BY <1>0
<1>6. /\ next < Rows => after[c] = v[d]
      /\ ~(next < Rows) => after[c] = Blank
  BY <1>0, <1>1, <1>2, <1>3, <1>4, <1>5 DEF Cell
<1> QED
  BY <1>6

\* The scroll of teletype: each row takes the place of the one above.
ShiftedUp(after, v, W) ==
  \A c \in 0..(Rows * W - 1) :
    /\ c + W < Rows * W => after[c] = v[c + W]
    /\ ~(c + W < Rows * W) => after[c] = Blank

LEMMA ScrolledUp ==
  ASSUME NEW X, Blank \in X, NEW v \in CellPicture(X), NEW m, NEW W \in Nat, W = Columns(m),
         NEW bottom \in Nat, bottom = Rows - 1, NEW right \in Nat, right = W - 1,
         NEW w, w = <<0, 0, bottom, right>>, NEW p, p = 0,
         NEW down, ~down,
         NEW after, ScrollShifts(m, p, v, w, 1, down, after)
  PROVE  ShiftedUp(after, v, W)
<1>0. Rows \in Nat /\ Rows > 0 /\ W > 0
  BY ScreenSizes
<1>1. PICK total \in Nat : total = Rows * W
  BY <1>0
<1>2. \A c \in 0..(total - 1) : OnScreen(W, c)
  BY <1>0, <1>1, AllOnScreen
<1>w. w[1] = 0 /\ w[2] = 0 /\ w[3] = Rows - 1 /\ w[4] = W - 1
  OBVIOUS
<1>3. ASSUME NEW c \in 0..(total - 1)
      PROVE  /\ c + W < total => after[c] = v[c + W]
             /\ ~(c + W < total) => after[c] = Blank
  <2>1. PICK r \in Int, x \in Int : r \in 0..(Rows - 1) /\ x \in 0..(W - 1) /\ c = r * W + x
    BY <1>2 DEF OnScreen
  <2>2. PICK next \in Int : next = r + 1
    OBVIOUS
  <2>3. PICK R \in Int : R = r * W /\ next * W = R + W
    BY <2>2
  <2>4. PICK d \in Int : d = next * W + x /\ d = c + W
    BY <2>1, <2>3
  <2>5. c \in Int
    BY <1>1
  <2>6. /\ next < Rows => after[c] = v[d]
        /\ ~(next < Rows) => after[c] = Blank
    <3>1. Under(r, next) /\ Place(W, r, x, c) /\ Place(W, next, x, d)
      BY <2>1, <2>2, <2>4 DEF Under, Place
    <3> QED
      BY <1>w, <2>1, <2>5, <3>1, RowUp, SMTT(30)
  <2>7. next < Rows <=> c + W < total
    <3>1. CASE next < Rows
      <4>1. next \in Nat /\ next + 1 \in Nat /\ next + 1 <= Rows
        BY <1>0, <2>1, <2>2, <3>1
      <4>2. (next + 1) * W <= Rows * W
        BY <1>0, <4>1, TimesUp
      <4>3. (next + 1) * W = next * W + W
        BY <4>1
      <4> QED
        BY <1>1, <2>1, <2>3, <2>4, <3>1, <4>2, <4>3
    <3>2. CASE ~(next < Rows)
      <4>1. next = Rows
        BY <1>0, <2>1, <2>2, <3>2
      <4> QED
        BY <1>1, <2>1, <2>3, <2>4, <3>2, <4>1
    <3> QED
      BY <3>1, <3>2
  <2> QED
    BY <2>4, <2>6, <2>7
<1> QED
  BY <1>1, <1>3 DEF ShiftedUp

\* The next line on the paper is the next row of the screen, or scrolls it.
LEMMA NextRow ==
  ASSUME NEW W \in Nat, NEW line \in Nat, NEW next \in Nat, next = line + 1, next < Rows,
         NEW v, NEW struck, Resembles(v, struck, W, line)
  PROVE  Resembles(v, struck, W, next)
<1>1. Above(W, line) = 0 /\ Above(W, next) = 0
  BY AboveNext
<1> QED
  BY <1>1 DEF Resembles

LEMMA NextScroll ==
  ASSUME NEW W \in Nat, NEW line \in Nat, NEW next \in Nat, next = line + 1, ~(next < Rows),
         NEW v, NEW after, ShiftedUp(after, v, W), NEW struck,
         Printed(struck, W, line), Resembles(v, struck, W, line)
  PROVE  Resembles(after, struck, W, next)
<1>0. Rows \in Nat /\ Rows > 0
  BY ScreenSizes
<1>1. PICK A \in Nat : A = Above(W, line)
  BY AboveNext
<1>2. Above(W, next) = A + W
  BY <1>0, <1>1, AboveNext
<1>3. PICK L \in Int, R \in Int, total \in Nat :
        L = line * W /\ R = (Rows - 1) * W /\ (line + 1) * W = L + W /\ total = Rows * W
        /\ total = R + W
  <2>1. line * W \in Int /\ (Rows - 1) * W \in Int /\ (line + 1) * W = line * W + W
        /\ Rows * W \in Nat /\ Rows * W = (Rows - 1) * W + W
    BY <1>0
  <2> QED
    BY <2>1
<1>4. A + R = L
  BY <1>0, <1>1, <1>3, AboveNext
<1>5. ASSUME NEW c \in 0..(total - 1)
      PROVE  after[c] = IF c + (A + W) \in DOMAIN struck THEN struck[c + (A + W)] ELSE Blank
  <2>1. CASE c + W < total
    <3>1. PICK d \in 0..(total - 1) : d = c + W /\ d + A = c + (A + W)
      BY <2>1
    <3>2. after[c] = v[d]
      BY <1>3, <2>1, <3>1 DEF ShiftedUp
    <3>3. v[d] = IF d + A \in DOMAIN struck THEN struck[d + A] ELSE Blank
      BY <1>1, <1>3 DEF Resembles
    <3> QED
      BY <3>1, <3>2, <3>3
  <2>2. CASE ~(c + W < total)
    <3>1. ~(c + (A + W) < L + W)
      BY <1>3, <1>4, <2>2
    <3>2. c + (A + W) \notin DOMAIN struck
      BY <1>3, <3>1 DEF Printed
    <3>3. after[c] = Blank
      BY <1>3, <2>2 DEF ShiftedUp
    <3> QED
      BY <3>2, <3>3
  <2> QED
    BY <2>1, <2>2
<1> QED
  BY <1>2, <1>3, <1>5 DEF Resembles

LEMMA PrintedOn ==
  ASSUME NEW W \in Nat, NEW line \in Nat, NEW next \in Nat, next = line + 1, NEW struck,
         Printed(struck, W, line)
  PROVE  Printed(struck, W, next)
<1>1. PICK L \in Nat : L = (line + 1) * W /\ (next + 1) * W = L + W
  OBVIOUS
<1> QED
  BY <1>1 DEF Printed

\* Where the line and the column on the paper are.
LEMMA LineColumn ==
  ASSUME NEW W \in Nat, NEW line \in Nat, NEW col \in 0..(W - 1), NEW at \in Nat,
         Place(W, line, col, at)
  PROVE  at % W = col /\ at \div W = line
BY DEF Place

(* The theorem in a form that its uses can instantiate.                      *)
LEMMA AnyScroll ==
  ASSUME NEW X, Blank \in X, NEW v \in CellPicture(X), NEW m, NEW p \in Nat, PageFits(m, p),
         NEW down \in BOOLEAN
  PROVE  \A lines, top, left, bottom, right \in Nat :
           ScrollShifts(m, p, v, <<top, left, bottom, right>>, lines, down,
                        Scrolled(m, p, v, lines, top, left, bottom, right, down))
<1>1. ASSUME NEW lines \in Nat, NEW top \in Nat, NEW left \in Nat, NEW bottom \in Nat,
             NEW right \in Nat
      PROVE  ScrollShifts(m, p, v, <<top, left, bottom, right>>, lines, down,
                          Scrolled(m, p, v, lines, top, left, bottom, right, down))
  BY ScrollMovesWindow, SMTT(60)
<1> QED
  BY <1>1

LEMMA ScrollOne ==
  ASSUME NEW X, Blank \in X, NEW v \in CellPicture(X), NEW m, NEW W \in Nat, W = Columns(m),
         NEW bottom \in Nat, bottom = Rows - 1, NEW right \in Nat, right = W - 1,
         NEW down \in BOOLEAN, ~down, NEW p \in Nat, p = 0
  PROVE  ShiftedUp(Scrolled(m, p, v, 1, 0, 0, bottom, right, down), v, W)
<1>1. PICK after : after = Scrolled(m, p, v, 1, 0, 0, bottom, right, down)
  OBVIOUS
<1>2. PageFits(m, p)
  BY PageZero
<1>3. ScrollShifts(m, p, v, <<0, 0, bottom, right>>, 1, down,
                   Scrolled(m, p, v, 1, 0, 0, bottom, right, down))
  BY <1>2, AnyScroll, SMTT(60)
<1>4. PICK w : w = <<0, 0, bottom, right>>
  OBVIOUS
<1>5. ScrollShifts(m, p, v, w, 1, down, after)
  BY <1>1, <1>3, <1>4
<1>6. ShiftedUp(after, v, W)
  BY <1>4, <1>5, ScrolledUp
<1> QED
  BY <1>1, <1>6

\* The cursor on the next line, and the screen under it.
LEMMA Advance ==
  ASSUME NEW X, Blank \in X, NEW v \in CellPicture(X), NEW m, NEW W \in Nat, W = Columns(m),
         NEW line \in Nat, NEW next \in Nat, Under(line, next),
         NEW y \in Nat, line < Rows => y = line, ~(line < Rows) => y = Rows - 1,
         NEW under \in Nat, Under(y, under),
         NEW struck, Printed(struck, W, line), Resembles(v, struck, W, line),
         NEW scrolled, ShiftedUp(scrolled, v, W),
         NEW after, under >= Rows => after = scrolled, ~(under >= Rows) => after = v
  PROVE  /\ Printed(struck, W, next) /\ Resembles(after, struck, W, next)
         /\ AtMost(under, Rows) = IF next < Rows THEN next ELSE Rows - 1
<1>0. Rows \in Nat /\ Rows > 0 /\ next = line + 1 /\ under = y + 1
  BY ScreenSizes DEF Under
<1>1. Printed(struck, W, next)
  BY <1>0, PrintedOn
<1>2. under >= Rows <=> ~(next < Rows)
  BY <1>0
<1>3. CASE next < Rows
  <2>1. after = v /\ under = next
    BY <1>0, <1>2, <1>3
  <2>2. Resembles(v, struck, W, next)
    BY <1>0, <1>3, NextRow
  <2>3. AtMost(under, Rows) = next
    BY <1>0, <1>3, <2>1 DEF AtMost
  <2> QED
    BY <1>1, <1>3, <2>1, <2>2, <2>3
<1>4. CASE ~(next < Rows)
  <2>1. after = scrolled
    BY <1>2, <1>4
  <2>2. Resembles(scrolled, struck, W, next)
    BY <1>0, <1>4, NextScroll
  <2>3. AtMost(under, Rows) = Rows - 1
    BY <1>0, <1>2, <1>4 DEF AtMost
  <2> QED
    BY <1>1, <1>4, <2>1, <2>2, <2>3
<1> QED
  BY <1>3, <1>4

LEMMA MovedShows ==
  ASSUME cursor \in [Pages -> CellPlaces(mode)], NEW r \in Nat, NEW c \in Nat, NEW p \in Pages
  PROVE  /\ MovedTo(p, r, c)[p].row = AtMost(r, Rows)
         /\ MovedTo(p, r, c)[p].column = AtMost(c, Columns(mode))
BY DEF MovedTo

LEMMA PaperIs ==
  ASSUME NEW m, NEW W \in Nat, W = Columns(m), NEW line \in Nat, IsText(m), NEW at, NEW v, NEW roll,
         roll.at = line * W + at[0].column,
         at[0].row = (IF line < Rows THEN line ELSE Rows - 1),
         Printed(roll.struck, W, line), Resembles(v, roll.struck, W, line)
  PROVE  OnPaper(m, 0, at, v, roll)
<1>1. PaperAt(m, 0, at, v, roll, W, line)
  BY DEF PaperAt
<1> QED
  BY <1>1 DEF OnPaper

\* A new screen, and a new roll.
LEMMA NewPaper ==
  ASSUME NEW m \in Modes, IsText(m)
  PROVE  OnPaper(m, 0, [p \in Pages |-> Home], [c \in Cells |-> Blank], Unprinted)
<1>1. PICK W \in Nat : W = Columns(m)
  BY ScreenSizes
<1>2. PICK at : at = [p \in Pages |-> Home]
  OBVIOUS
<1>3. at[0].row = 0 /\ at[0].column = 0
  BY <1>2, ModesPages DEF Home
<1>4. PICK roll : roll = Unprinted
  OBVIOUS
<1>5. roll.at = 0 /\ DOMAIN roll.struck = {}
  BY <1>4 DEF Unprinted
<1>6. PICK v : v = [c \in Cells |-> Blank]
  OBVIOUS
<1>7. Printed(roll.struck, W, 0)
  BY <1>5 DEF Printed
<1>8. Resembles(v, roll.struck, W, 0)
  BY <1>1, <1>5, <1>6, PageZero DEF Resembles
<1>9. roll.at = 0 * W + at[0].column /\ at[0].row = (IF 0 < Rows THEN 0 ELSE Rows - 1)
  BY <1>3, <1>5, ScreenSizes
<1>10. OnPaper(m, 0, at, v, roll)
  BY <1>1, <1>7, <1>8, <1>9, PaperIs
<1> QED
  BY <1>2, <1>4, <1>6, <1>10

\* Teletype, on the screen and on the paper.
LEMMA TypeOnPaper ==
  ASSUME VideoTypeOK, OnPaper(mode, page, cursor, vram, paper), plain, Teletype
  PROVE  OnPaper(mode, 0, cursor', vram', paper')
<1>0. /\ mode \in Modes /\ page \in Pages /\ cursor \in [Pages -> CellPlaces(mode)]
      /\ vram \in CellPicture(Drawable) /\ RollOK(paper)
  BY VideoTypes
<1>1. PICK W \in Nat, line \in Nat :
        W = Columns(mode) /\ PaperAt(mode, page, cursor, vram, paper, W, line)
  BY DEF OnPaper
<1>2. IsText(mode) /\ page = 0 /\ 0 \in Pages
  BY <1>1, ModesPages DEF PaperAt
<1>3. PICK ch \in Characters \cup Controls :
        LET at == cursor[page]
            cell == CellAt(mode, page, at.row, at.column)
            next == After(ch, at)
            printed == IF ch \notin Characters THEN vram
                       ELSE IF IsText(mode)
                         THEN [c \in Cells |-> IF c = cell THEN ch ELSE vram[c]]
                         ELSE Drawn
        IN  /\ vram' = IF next.row >= Rows
                         THEN Scrolled(mode, page, printed, 1, 0, 0, Rows - 1,
                                       Columns(mode) - 1, FALSE)
                         ELSE printed
            /\ cursor' = MovedTo(page, next.row, next.column)
            /\ paper' = IF plain THEN Rolled(paper, ch) ELSE paper
  BY DEF Teletype
<1>4. PICK at \in CellPlaces(mode) : at = cursor[page]
  BY <1>0
<1>5. PICK y \in Nat, col \in Nat : y = at.row /\ col = at.column /\ col \in 0..(W - 1)
  BY <1>1, ScreenSizes DEF CellPlaces
<1>6. W > 0 /\ Rows \in Nat /\ Rows > 0
  BY <1>1, ScreenSizes
<1>7. PICK place \in Nat : place = paper.at /\ place = line * W + col
  BY <1>0, <1>1, <1>2, <1>4, <1>5 DEF PaperAt, RollOK
<1>8. /\ y = (IF line < Rows THEN line ELSE Rows - 1)
      /\ Printed(paper.struck, W, line) /\ Resembles(vram, paper.struck, W, line)
  BY <1>1, <1>2, <1>4, <1>5 DEF PaperAt
<1>9. PICK cell \in Int : cell = CellAt(mode, page, at.row, at.column) /\ cell = y * W + col
  <2>1. CellAt(mode, 0, y, col) = y * W + col
    BY <1>1, PageZero
  <2>2. y * W + col \in Int
    OBVIOUS
  <2> QED
    BY <1>2, <1>5, <2>1, <2>2
<1>10. PICK printed \in CellPicture(Drawable) :
         printed = IF ch \notin Characters THEN vram
                   ELSE IF IsText(mode) THEN [c \in Cells |-> IF c = cell THEN ch ELSE vram[c]]
                                        ELSE Drawn
  BY TeletypePicture
<1>11. PICK r \in Nat, c \in Nat : r = After(ch, at).row /\ c = After(ch, at).column
  BY <1>4, AfterIs
<1>12. PICK roll : roll = paper'
  OBVIOUS
<1>13. roll.at = TypedAt(place, ch) /\ (ch \notin Characters => roll.struck = paper.struck)
       /\ (ch \in Characters =>
             roll.struck = [q \in DOMAIN paper.struck \cup {place} |->
                              IF q = place THEN ch ELSE paper.struck[q]])
  BY <1>3, <1>7, <1>12 DEF Rolled
<1>14. Printed(roll.struck, W, line) /\ Resembles(printed, roll.struck, W, line)
  <2>1. CASE ch \notin Characters
    BY <1>8, <1>10, <1>13, <2>1
  <2>2. CASE ch \in Characters
    <3>1. printed = [i \in Cells |-> IF i = cell THEN ch ELSE vram[i]]
      BY <1>2, <1>10, <2>2
    <3>2. roll.struck = [q \in DOMAIN paper.struck \cup {place} |->
                           IF q = place THEN ch ELSE paper.struck[q]]
      BY <1>13, <2>2
    <3>3. Place(W, line, col, place) /\ Place(W, y, col, cell)
      BY <1>7, <1>9 DEF Place
    <3>4. (line < Rows => y = line) /\ (~(line < Rows) => y = Rows - 1)
      BY <1>8
    <3>5. /\ Printed(StruckOn(paper.struck, place, ch), W, line)
          /\ Resembles(ShownAt(vram, cell, ch), StruckOn(paper.struck, place, ch), W, line)
      BY <1>1, <1>5, <1>8, <3>3, <3>4, Strike
    <3> QED
      BY <3>1, <3>2, <3>5 DEF StruckOn, ShownAt
  <2> QED
    BY <2>1, <2>2
<1>15. PICK scrolled :
         scrolled = Scrolled(mode, page, printed, 1, 0, 0, Rows - 1, Columns(mode) - 1, FALSE)
  OBVIOUS
<1>16. ShiftedUp(scrolled, printed, W)
  <2>1. PICK bottom \in Nat, right \in Nat : bottom = Rows - 1 /\ right = W - 1
    <3>1. Rows - 1 \in Nat /\ W - 1 \in Nat
      BY <1>6
    <3> QED
      BY <3>1
  <2>2. PICK down \in BOOLEAN : ~down /\ down = FALSE
    OBVIOUS
  <2>3. PICK p \in Nat : p = 0 /\ p = page
    BY <1>2
  <2>4. ShiftedUp(Scrolled(mode, p, printed, 1, 0, 0, bottom, right, down), printed, W)
    BY <1>1, <2>1, <2>2, <2>3, Pictures, ScrollOne
  <2> QED
    BY <1>1, <1>15, <2>1, <2>2, <2>3, <2>4
<1>17. PICK after : after = vram' /\ after = (IF r >= Rows THEN scrolled ELSE printed)
  BY <1>3, <1>4, <1>9, <1>10, <1>11, <1>15, Zenon
<1>18. PICK newer : newer = cursor' /\ newer[0].row = AtMost(r, Rows) /\ newer[0].column = AtMost(c, W)
  BY <1>0, <1>1, <1>2, <1>3, <1>4, <1>11, MovedShows
<1>19. place % W = col
  <2>1. Place(W, line, col, place)
    BY <1>7 DEF Place
  <2> QED
    BY <1>5, <2>1, LineColumn
\* On the same line.
<1>20. ASSUME r = y, c \in 0..(W - 1), roll.at = line * W + c
       PROVE  OnPaper(mode, 0, newer, after, roll)
  <2>1. after = printed
    BY <1>6, <1>8, <1>17, <1>20
  <2>2. newer[0].row = y /\ newer[0].column = c
    BY <1>6, <1>8, <1>18, <1>20 DEF AtMost
  <2>3. /\ roll.at = line * W + newer[0].column
        /\ newer[0].row = (IF line < Rows THEN line ELSE Rows - 1)
    BY <1>8, <1>20, <2>2
  <2> QED
    BY <1>1, <1>2, <1>14, <2>1, <2>3, PaperIs
\* On the next.
<1>21. ASSUME r = y + 1, c \in 0..(W - 1), roll.at = (line + 1) * W + c
       PROVE  OnPaper(mode, 0, newer, after, roll)
  <2>1. PICK next \in Nat : next = line + 1
    OBVIOUS
  <2>2. (line < Rows => y = line) /\ (~(line < Rows) => y = Rows - 1)
    BY <1>8
  <2>3. (r >= Rows => after = scrolled) /\ (~(r >= Rows) => after = printed)
    BY <1>17
  <2>4. /\ Printed(roll.struck, W, next) /\ Resembles(after, roll.struck, W, next)
        /\ AtMost(r, Rows) = IF next < Rows THEN next ELSE Rows - 1
    <3>1. Under(line, next) /\ Under(y, r)
      BY <1>21, <2>1 DEF Under
    <3> QED
      BY <1>1, <1>14, <1>16, <2>2, <2>3, <3>1, Pictures, Advance
  <2>5. newer[0].column = c
    BY <1>6, <1>18, <1>21 DEF AtMost
  <2>6. /\ roll.at = next * W + newer[0].column
        /\ newer[0].row = (IF next < Rows THEN next ELSE Rows - 1)
    BY <1>18, <1>21, <2>1, <2>4, <2>5
  <2> QED
    BY <1>1, <1>2, <2>4, <2>6, PaperIs
<1>22. OnPaper(mode, 0, newer, after, roll)
  <2>1. CASE ch = "bs"
    <3>1. r = y /\ (col # 0 => c = col - 1) /\ (col = 0 => c = 0)
      BY <1>4, <1>5, <1>11, <2>1, AfterIs
    <3>2. roll.at = line * W + c
      <4>1. (col = 0 => roll.at = place) /\ (col # 0 => roll.at = place - 1)
        BY <1>1, <1>13, <1>19, <2>1, TypedIs
      <4> QED
        BY <1>7, <3>1, <4>1
    <3> QED
      BY <1>5, <1>20, <3>1, <3>2
  <2>2. CASE ch = "cr"
    <3>1. r = y /\ c = 0
      BY <1>4, <1>5, <1>11, <2>2, AfterIs
    <3>2. roll.at = place - col
      BY <1>1, <1>13, <1>19, <2>2, TypedIs
    <3> QED
      BY <1>6, <1>7, <1>20, <3>1, <3>2
  <2>3. CASE ch = "lf"
    <3>1. r = y + 1 /\ c = col
      BY <1>4, <1>5, <1>11, <2>3, AfterIs
    <3>2. roll.at = place + W
      BY <1>1, <1>13, <2>3, TypedIs
    <3>3. (line + 1) * W = line * W + W
      OBVIOUS
    <3> QED
      BY <1>5, <1>7, <1>21, <3>1, <3>2, <3>3
  <2>4. CASE ch = "bel"
    <3>1. r = y /\ c = col
      BY <1>4, <1>5, <1>11, <2>4, AfterIs
    <3>2. roll.at = place
      BY <1>1, <1>13, <2>4, TypedIs
    <3> QED
      BY <1>5, <1>7, <1>20, <3>1, <3>2
  <2>5. CASE ch \in Characters
    <3>1. roll.at = place + 1
      BY <1>1, <1>13, <2>5, TypedIs
    <3>2. CASE col + 1 < W
      <4>1. r = y /\ c = col + 1
        BY <1>1, <1>4, <1>5, <1>11, <2>5, <3>2, AfterIs
      <4> QED
        BY <1>5, <1>7, <1>20, <3>1, <3>2, <4>1
    <3>3. CASE ~(col + 1 < W)
      <4>1. r = y + 1 /\ c = 0
        BY <1>1, <1>4, <1>5, <1>11, <2>5, <3>3, AfterIs
      <4>2. (line + 1) * W = line * W + W /\ col + 1 = W
        BY <1>5, <1>6, <3>3
      <4> QED
        BY <1>6, <1>7, <1>21, <3>1, <4>1, <4>2
    <3> QED
      BY <3>2, <3>3
  <2> QED
    BY <2>1, <2>2, <2>3, <2>4, <2>5 DEF Controls
<1> QED
  BY <1>12, <1>17, <1>18, <1>22

LEMMA PaperNext ==
  PaperInv' <=> (plain' => OnPaper(mode', page', cursor', vram', paper'))
<1>1. OnPaper(mode, page, cursor, vram, paper)' <=> OnPaper(mode', page', cursor', vram', paper')
  BY DEF OnPaper, PaperAt, Columns, IsText, Printed, Resembles, Above, Blank
<1> QED
  BY <1>1 DEF PaperInv

LEMMA VideoKeepsPaper ==
  ASSUME VideoTypeOK, PaperInv, [VideoNext]_videoVars
  PROVE  PaperInv'
<1>0. mode \in Modes /\ page \in Pages
  BY VideoTypes
<1>1. SUFFICES ASSUME plain' PROVE OnPaper(mode', page', cursor', vram', paper')
  BY PaperNext
<1>2. CASE LaunchVideo
  <2>1. 3 \in Modes /\ IsText(3)
    BY ModesPages DEF IsText
  <2>2. OnPaper(3, 0, [p \in Pages |-> Home], [c \in Cells |-> Blank], Unprinted)
    BY <2>1, NewPaper
  <2> QED
    BY <1>2, <2>2 DEF LaunchVideo
<1>3. CASE SetVideoMode
  <2>1. mode' \in Modes /\ page' = 0 /\ cursor' = [p \in Pages |-> Home] /\ paper' = Unprinted
    BY <1>3 DEF SetVideoMode
  <2>2. vram' = [c \in Cells |-> Blank] /\ IsText(mode')
    <3>1. ~(UNCHANGED vram /\ plain' = FALSE)
      BY <1>1
    <3>2. vram' = [c \in Cells |-> Blank] /\ plain' = IsText(mode')
      BY <1>3, <3>1 DEF SetVideoMode
    <3> QED
      BY <1>1, <3>2
  <2>3. PICK m \in Modes : m = mode' /\ IsText(m)
    BY <2>1, <2>2
  <2>4. OnPaper(m, 0, [p \in Pages |-> Home], [c \in Cells |-> Blank], Unprinted)
    BY <2>3, NewPaper
  <2> QED
    BY <2>1, <2>2, <2>3, <2>4
<1>4. ASSUME plain, UNCHANGED <<mode, page, cursor, vram, paper>>
      PROVE  OnPaper(mode', page', cursor', vram', paper')
  BY <1>4 DEF PaperInv
<1>5. CASE SetShape
  BY <1>1, <1>4, <1>5 DEF SetShape
<1>6. CASE SetCursor
  BY <1>1, <1>6 DEF SetCursor
<1>7. CASE SelectPage
  BY <1>1, <1>7 DEF SelectPage
<1>8. CASE ScrollWindow
  BY <1>1, <1>8 DEF ScrollWindow
<1>9. CASE WriteCharacters
  BY <1>1, <1>9 DEF WriteCharacters
<1>10. CASE WritePixel
  <2>1. plain /\ ~IsText(mode)
    BY <1>1, <1>10 DEF WritePixel
  <2>2. IsText(mode)
    BY <2>1 DEF PaperInv, OnPaper, PaperAt
  <2> QED
    BY <2>1, <2>2
<1>11. CASE Teletype
  <2>1. plain /\ mode' = mode /\ page' = page
    BY <1>1, <1>11 DEF Teletype
  <2>2. OnPaper(mode, page, cursor, vram, paper)
    BY <2>1 DEF PaperInv
  <2>3. page = 0
    BY <2>2 DEF OnPaper, PaperAt
  <2>4. OnPaper(mode, 0, cursor', vram', paper')
    BY <1>11, <2>1, <2>2, TypeOnPaper
  <2> QED
    BY <2>1, <2>3, <2>4
<1>12. CASE UNCHANGED videoVars
  BY <1>1, <1>4, <1>12 DEF videoVars
<1> QED
  BY <1>2, <1>3, <1>5, <1>6, <1>7, <1>8, <1>9, <1>10, <1>11, <1>12 DEF VideoNext

LEMMA PaperStart == VideoInit => PaperInv
<1> SUFFICES ASSUME VideoInit PROVE PaperInv
  OBVIOUS
<1>1. 3 \in Modes /\ IsText(3)
  BY ModesPages DEF IsText
<1>2. OnPaper(3, 0, [p \in Pages |-> Home], [c \in Cells |-> Blank], Unprinted)
  BY <1>1, NewPaper
<1> QED
  BY <1>2 DEF VideoInit, PaperInv

\* The line of a place on the paper, and what the screen shows of it.
LEMMA PaperShown == ASSUME VideoTypeOK, PaperInv PROVE TeletypeLikePaper
<1>1. SUFFICES ASSUME plain
               PROVE  LET width == Columns(mode)
                          line == paper.at \div width
                          above == IF line < Rows THEN 0 ELSE (line - (Rows - 1)) * width
                      IN  /\ cursor[0].row * width + cursor[0].column = paper.at - above
                          /\ \A c \in 0..Rows * width - 1 :
                               vram[c] = IF c + above \in DOMAIN paper.struck
                                           THEN paper.struck[c + above] ELSE Blank
  BY DEF TeletypeLikePaper
<1>2. PICK W \in Nat, line \in Nat :
        W = Columns(mode) /\ PaperAt(mode, page, cursor, vram, paper, W, line)
  BY <1>1 DEF PaperInv, OnPaper
<1>3. cursor \in [Pages -> CellPlaces(mode)] /\ RollOK(paper) /\ 0 \in Pages
  BY VideoTypes, ModesPages
<1>4. Rows \in Nat /\ Rows > 0
  BY ScreenSizes
<1>5. PICK y \in Nat, col \in Nat :
        y = cursor[0].row /\ col = cursor[0].column /\ col \in 0..(W - 1)
  BY <1>2, <1>3, <1>4, ScreenSizes DEF CellPlaces
<1>6. PICK at \in Nat : at = paper.at /\ at = line * W + col
  BY <1>2, <1>3, <1>5 DEF PaperAt, RollOK
<1>7. at \div W = line
  <2>1. Place(W, line, col, at)
    BY <1>6 DEF Place
  <2> QED
    BY <1>5, <2>1, LineColumn
<1>8. PICK A \in Nat : A = Above(W, line)
  BY AboveNext
<1>9. y * W + col = at - A
  <2>1. CASE line < Rows
    <3>1. y = line /\ A = 0
      BY <1>2, <1>5, <1>8, <2>1, AboveNext DEF PaperAt
    <3> QED
      BY <1>6, <3>1
  <2>2. CASE ~(line < Rows)
    <3>1. y = Rows - 1
      BY <1>2, <1>5, <2>2 DEF PaperAt
    <3>2. A + (Rows - 1) * W = line * W
      BY <1>4, <1>8, <2>2, AboveNext
    <3>3. PICK L \in Int, R \in Int : L = line * W /\ R = (Rows - 1) * W
      <4>1. line * W \in Int /\ (Rows - 1) * W \in Int
        BY <1>4
      <4> QED
        BY <4>1
    <3>4. y * W = R
      BY <3>1, <3>3
    <3>5. A + R = L /\ at = L + col
      BY <1>6, <3>2, <3>3
    <3> QED
      BY <3>4, <3>5
  <2> QED
    BY <2>1, <2>2
<1>10. \A c \in 0..Rows * W - 1 :
         vram[c] = IF c + A \in DOMAIN paper.struck THEN paper.struck[c + A] ELSE Blank
  BY <1>2, <1>8 DEF PaperAt, Resembles
<1>11. A = IF line < Rows THEN 0 ELSE (line - (Rows - 1)) * W
  BY <1>8 DEF Above
<1> QED
  BY <1>2, <1>5, <1>6, <1>7, <1>9, <1>10, <1>11, Zenon

(* After any sequence of services, what was printed by teletype since a text mode was     *)
(* set stands on the screen as on a roll of paper of which the screen shows the end, and  *)
(* the cursor is where the paper is printed next: the wrap at the last column, backspace, *)
(* and the scroll at the last row agree (AH=0Eh of pc_at.c).                              *)
THEOREM TeletypeIsPaper == VideoSpec => []TeletypeLikePaper
<1>1. VideoInit => VideoTypeOK /\ PaperInv
  BY VideoStart, PaperStart
<1>2. VideoTypeOK /\ PaperInv /\ [VideoNext]_videoVars => VideoTypeOK' /\ PaperInv'
  BY VideoKeepsTypes, VideoKeepsPaper
<1>3. VideoTypeOK /\ PaperInv => TeletypeLikePaper
  BY PaperShown
<1> QED
  BY <1>1, <1>2, <1>3, PTL DEF VideoSpec

-----------------------------------------------------------------------------
(* The cursor stays within memory, so that it never wraps, and behind       *)
(* everything handed out.                                                   *)
CursorInv ==
  /\ allocation <= MemoryEnd
  /\ \/ psp > MemoryEnd /\ allocation = MemoryEnd /\ blocks = {}
     \/ psp + pspParas <= allocation /\ \A b \in blocks : b[2] <= allocation

DosMemoryIInv == DosMemoryTypeOK /\ CursorInv /\ BlocksDisjoint

LEMMA AvailableBounds ==
  ASSUME NEW s \in Segment
  PROVE  /\ Available(s) \in Segment
         /\ s < MemoryEnd => s + Available(s) = MemoryEnd
         /\ s >= MemoryEnd => Available(s) = 0
  BY DosMemoryAssumption DEF Available, Segment

LEMMA NoWrap == \A x \in Segment : x % SegmentLimit = x
  BY DosMemoryAssumption DEF Segment

LEMMA PreparedHolds ==
  ASSUME NEW s \in Segment
  PROVE  /\ Available(s) \in Segment /\ MemoryEnd \in Segment
         /\ (s > MemoryEnd \/ s + Available(s) <= MemoryEnd)
  BY AvailableBounds, DosMemoryAssumption DEF Segment

LEMMA DosMemoryInitial == DosMemoryInit => DosMemoryIInv
<1> SUFFICES ASSUME DosMemoryInit PROVE DosMemoryIInv
  OBVIOUS
<1>1. /\ psp \in Segment /\ pspParas = Available(psp) /\ allocation = MemoryEnd
      /\ strategy = 0 /\ blocks = {}
  BY DEF DosMemoryInit
<1>2. DosMemoryTypeOK
  <2>1. 0 \in 0..2 /\ {} \subseteq Segment \X Segment /\ FALSE \in BOOLEAN
    OBVIOUS
  <2>2. Available(psp) \in Segment /\ MemoryEnd \in Segment
    BY <1>1, PreparedHolds
  <2> QED  BY <1>1, <2>1, <2>2 DEF DosMemoryTypeOK
<1>3. psp > MemoryEnd \/ psp + pspParas <= allocation
  BY <1>1, PreparedHolds
<1>4. allocation <= MemoryEnd
  BY <1>1, DosMemoryAssumption
<1> QED  BY <1>1, <1>2, <1>3, <1>4 DEF DosMemoryIInv, CursorInv, BlocksDisjoint

LEMMA DosMemoryStep == DosMemoryIInv /\ [DosMemoryNext]_dosMemoryVars => DosMemoryIInv'
<1> SUFFICES ASSUME DosMemoryIInv, [DosMemoryNext]_dosMemoryVars PROVE DosMemoryIInv'
  OBVIOUS
<1> USE DosMemoryAssumption
<1>t. DosMemoryTypeOK /\ CursorInv /\ BlocksDisjoint
  BY DEF DosMemoryIInv
<1>1. CASE Prepare
  <2>1. PICK s \in Segment : Prepared(s)
    BY <1>1 DEF Prepare
  <2>2. /\ psp' = s /\ pspParas' = Available(s) /\ allocation' = MemoryEnd
        /\ strategy' = 0 /\ blocks' = {}
    BY <2>1 DEF Prepared
  <2>3. DosMemoryTypeOK'
    <3>1. 0 \in 0..2 /\ {} \subseteq Segment \X Segment /\ FALSE \in BOOLEAN
      OBVIOUS
    <3>2. Available(s) \in Segment /\ MemoryEnd \in Segment
      BY PreparedHolds
    <3> QED  BY <2>2, <3>1, <3>2 DEF DosMemoryTypeOK
  <2>4. psp' > MemoryEnd \/ psp' + pspParas' <= allocation'
    BY <2>2, PreparedHolds
  <2>5. allocation' <= MemoryEnd
    BY <2>2
  <2> QED  BY <2>2, <2>3, <2>4, <2>5 DEF DosMemoryIInv, CursorInv, BlocksDisjoint
<1>2. CASE Allocate
  <2>1. PICK n \in Segment : /\ n # 0 /\ n <= Available(allocation)
                          /\ allocation' = (allocation + n) % SegmentLimit
                          /\ blocks' = blocks \cup {<<allocation, allocation + n>>}
                          /\ UNCHANGED <<psp, pspParas, strategy>>
    BY <1>2 DEF Allocate
  <2>2. /\ allocation \in Segment /\ n \in Nat \ {0} /\ allocation < MemoryEnd
        /\ allocation + n <= MemoryEnd /\ allocation + n \in Segment
    BY <2>1, <1>t DEF DosMemoryTypeOK, Segment, Available
  <2>3. allocation' = allocation + n
    BY <2>1, <2>2, NoWrap
  <2> DEFINE new == <<allocation, allocation + n>>
  <2>4. new \in Segment \X Segment /\ new[1] = allocation /\ new[2] = allocation + n
    BY <2>2
  <2> HIDE DEF new
  <2>5. blocks' = blocks \cup {new}
    BY <2>1 DEF new
  <2>6. DosMemoryTypeOK'
    BY <2>1, <2>2, <2>3, <2>4, <2>5, <1>t DEF DosMemoryTypeOK
  <2>7. /\ psp + pspParas <= allocation
        /\ \A b \in blocks : /\ b[1] \in Int /\ b[2] \in Int /\ b[2] <= allocation
                             /\ psp + pspParas <= b[1] /\ b[1] < b[2]
        /\ \A b, c \in blocks : b = c \/ b[2] <= c[1] \/ c[2] <= b[1]
    <3>1. \A b \in blocks : b[1] \in Int /\ b[2] \in Int
      BY <1>t DEF DosMemoryTypeOK, Segment
    <3>2. psp + pspParas <= allocation /\ \A b \in blocks : b[2] <= allocation
      BY <2>2, <1>t DEF CursorInv
    <3> QED  BY <3>1, <3>2, <1>t DEF BlocksDisjoint
  <2>8. ASSUME NEW b \in blocks'
        PROVE  /\ b = new \/ b \in blocks
               /\ b[2] <= allocation' /\ psp + pspParas <= b[1] /\ b[1] < b[2] /\ b[2] <= MemoryEnd
    <3>1. b = new \/ b \in blocks
      BY <2>5
    <3>2. CASE b = new
      BY <3>2, <2>2, <2>3, <2>4, <2>7, <2>8
    <3>3. CASE b \in blocks
      BY <3>3, <2>2, <2>3, <2>7, <2>8
    <3> QED  BY <3>1, <3>2, <3>3
  <2>9. ASSUME NEW b \in blocks', NEW c \in blocks'
        PROVE  b = c \/ b[2] <= c[1] \/ c[2] <= b[1]
    <3>1. b = new \/ b \in blocks
      BY <2>5
    <3>2. c = new \/ c \in blocks
      BY <2>5
    <3> QED  BY <3>1, <3>2, <2>4, <2>7, <2>9
  <2>10. BlocksDisjoint'
    BY <2>1, <2>8, <2>9 DEF BlocksDisjoint
  <2>11. allocation' <= MemoryEnd /\ psp + pspParas <= allocation'
    BY <2>2, <2>3, <2>7, <1>t DEF DosMemoryTypeOK, Segment
  <2>12. CursorInv'
    BY <2>1, <2>8, <2>11 DEF CursorInv
  <2> QED  BY <2>6, <2>10, <2>12 DEF DosMemoryIInv
<1>3. CASE Resize
  <2>1. PICK n \in Segment : /\ n # 0 /\ n <= Available(psp)
                          /\ pspParas' = n
                          /\ allocation' = (psp + n) % SegmentLimit
                          /\ blocks' = {}
                          /\ UNCHANGED <<psp, strategy>>
    BY <1>3 DEF Resize
  <2>2. psp \in Segment /\ n \in Nat /\ psp + n <= MemoryEnd /\ psp + n \in Segment
    BY <2>1, <1>t DEF DosMemoryTypeOK, Segment, Available
  <2>3. allocation' = psp + n
    BY <2>1, <2>2, NoWrap
  <2>4. DosMemoryTypeOK'
    BY <2>1, <2>2, <2>3, <1>t DEF DosMemoryTypeOK
  <2>5. allocation' <= MemoryEnd /\ psp' + pspParas' <= allocation'
    BY <2>1, <2>2, <2>3 DEF Segment
  <2> QED  BY <2>1, <2>4, <2>5 DEF CursorInv, BlocksDisjoint, DosMemoryIInv
<1>4. CASE SetStrategy \/ UNCHANGED dosMemoryVars
  BY <1>4, <1>t DEF SetStrategy, dosMemoryVars, DosMemoryIInv, DosMemoryTypeOK, CursorInv,
                    BlocksDisjoint
<1> QED  BY <1>1, <1>2, <1>3, <1>4 DEF DosMemoryNext

(* After any sequence of calls, what was handed out since the PSP block was *)
(* last resized is disjoint, within memory and behind that block.           *)
THEOREM BlocksAreDisjoint == DosMemorySpec => []BlocksDisjoint
<1>1. DosMemoryIInv => BlocksDisjoint
  BY DEF DosMemoryIInv
<1> QED  BY <1>1, DosMemoryInitial, DosMemoryStep, PTL DEF DosMemorySpec

-----------------------------------------------------------------------------
SearchState ==
  [open : BOOLEAN, left : SUBSET FileNames, pattern : Patterns \cup {{}}, allowed : Attributes]

WantedOf(s) == {n \in FileNames : Wanted(s, n)}
Count(open) == IF open THEN 1 ELSE 0

FilesInv ==
  /\ files \in [Slot -> Open \cup {Closed}]
  /\ streams = Cardinality(OpenSlots)

(* A search has reported or passed over what it has not left to look at.    *)
SearchInv ==
  /\ search \in SearchState /\ begun \in BOOLEAN
  /\ search.open \/ search.left = {}
  /\ directories = Count(search.open)
  /\ told \subseteq WantedOf(search)
  /\ begun => told \cup skipped \cup (search.left \cap WantedOf(search)) = WantedOf(search)
  /\ answer = NoMoreFiles => search.left = {}

LEMMA FilesInvImplies == FilesInv /\ SearchInv => StreamsAreOwned /\ SearchFindsAll
<1> SUFFICES ASSUME FilesInv, SearchInv PROVE StreamsAreOwned /\ SearchFindsAll
  OBVIOUS
<1>1. StreamsAreOwned
  BY DEF FilesInv, SearchInv, StreamsAreOwned, Count
<1>2. SearchFindsAll
  BY DEF SearchInv, SearchFindsAll, WantedOf
<1> QED  BY <1>1, <1>2

----------------------------------------------------------------------------
LEMMA SlotsFinite == IsFiniteSet(Slot) /\ Slot \subseteq Nat
<1>1. FileSlots \in Nat
  BY DosFilesAssumption
<1>2. 0 \in Int /\ FileSlots - 1 \in Int
  BY <1>1
<1>3. IsFiniteSet(0..FileSlots - 1)
  BY <1>2, FS_Interval
<1>4. 0..FileSlots - 1 \subseteq Nat
  BY <1>1
<1> QED  BY <1>3, <1>4 DEF Slot

LEMMA FirstSlot ==
  ASSUME NEW T, T \subseteq Slot, T # {}
  PROVE  \E i \in T : \A j \in T : i <= j
<1> DEFINE R == {ss \in Nat \X Nat : ss[1] < ss[2]}
<1>1. IsWellFoundedOn(R, Nat)
  BY NatLessThanWellFounded DEF OpToRel
<1>2. T \subseteq Nat
  BY SlotsFinite
<1>3. PICK i \in T : \A j \in T : ~ (<<j, i>> \in R)
  <2> HIDE DEF R
  <2> QED  BY <1>1, <1>2, WFMin
<1>4. ASSUME NEW j \in T PROVE i <= j
  <2>1. i \in Nat /\ j \in Nat
    BY <1>2
  <2>2. ~ (j < i)
    <3>1. j < i => <<j, i>> \in R
      BY <2>1
    <3> QED  BY <1>3, <3>1
  <2> QED  BY <2>1, <2>2
<1> QED  BY <1>3, <1>4

(* Opening fills a slot, closing empties it.                                *)
LEMMA OpenKeepsCount ==
  ASSUME FilesInv, NEW name \in FileNames, OpenFile(name)
  PROVE  FilesInv'
<1> DEFINE i == CHOOSE i \in FreeSlots : \A j \in FreeSlots : i <= j
           entry == [name |-> name, position |-> 0]
<1>1. FreeSlots # {} /\ files' = [files EXCEPT ![i] = entry] /\ streams' = streams + 1
  BY DEF OpenFile
<1>2. i \in FreeSlots
  <2>1. FreeSlots \subseteq Slot
    BY DEF FreeSlots
  <2>2. \E k \in FreeSlots : \A j \in FreeSlots : k <= j
    BY <1>1, <2>1, FirstSlot
  <2> QED  BY <2>2
<1> HIDE DEF i
<1>3. entry \in Open /\ entry # Closed
  BY DosFilesAssumption DEF Open, Closed
<1> HIDE DEF entry
<1>4. files' \in [Slot -> Open \cup {Closed}]
  BY <1>1, <1>3 DEF FilesInv
<1>5. OpenSlots' = OpenSlots \cup {i} /\ i \notin OpenSlots
  BY <1>1, <1>2, <1>3 DEF FilesInv, OpenSlots, FreeSlots
<1>6. IsFiniteSet(OpenSlots)
  BY SlotsFinite, FS_Subset DEF OpenSlots
<1>7. Cardinality(OpenSlots') = Cardinality(OpenSlots) + 1
  BY <1>5, <1>6, FS_AddElement
<1> QED  BY <1>1, <1>4, <1>7 DEF FilesInv

LEMMA CloseKeepsCount ==
  ASSUME FilesInv, NEW i \in Slot, CloseFile(i)
  PROVE  FilesInv'
<1>1. i \in OpenSlots /\ files' = [files EXCEPT ![i] = Closed] /\ streams' = streams - 1
  BY DEF CloseFile
<1>2. files' \in [Slot -> Open \cup {Closed}]
  BY <1>1 DEF FilesInv
<1>3. OpenSlots' = OpenSlots \ {i}
  BY <1>1 DEF FilesInv, OpenSlots
<1>4. IsFiniteSet(OpenSlots)
  BY SlotsFinite, FS_Subset DEF OpenSlots
<1>5. Cardinality(OpenSlots') = Cardinality(OpenSlots) - 1
  BY <1>1, <1>3, <1>4, FS_RemoveElement
<1> QED  BY <1>1, <1>2, <1>5 DEF FilesInv

(* A read or a seek moves a position and closes nothing.                    *)
LEMMA MoveKeepsCount ==
  ASSUME FilesInv, NEW i \in OpenSlots, NEW n \in Nat,
         files' = [files EXCEPT ![i].position = n], UNCHANGED streams
  PROVE  FilesInv'
<1>1. i \in Slot /\ files[i] \in Open
  BY DEF OpenSlots, FilesInv
<1>2. [files[i] EXCEPT !.position = n] \in Open /\ [files[i] EXCEPT !.position = n] # Closed
  <2>1. [files[i] EXCEPT !.position = n] \in Open
    BY <1>1 DEF Open
  <2>2. [files[i] EXCEPT !.position = n].name \in FileNames
    BY <1>1 DEF Open
  <2> QED  BY <2>1, <2>2, DosFilesAssumption DEF Closed
<1>3. files' = [files EXCEPT ![i] = [files[i] EXCEPT !.position = n]]
  OBVIOUS
<1>4. files' \in [Slot -> Open \cup {Closed}]
  BY <1>1, <1>2, <1>3 DEF FilesInv
<1>5. OpenSlots' = OpenSlots
  BY <1>1, <1>2, <1>3 DEF FilesInv, OpenSlots
<1> QED  BY <1>4, <1>5 DEF FilesInv

----------------------------------------------------------------------------
(* A search that goes on from a state in which everything it wants has been *)
(* told, passed over or is left, is in such a state again.                  *)
LEMMA SearchGoesOn ==
  ASSUME NEW s \in SearchState, NEW t, NEW u, NEW b \in BOOLEAN, NEW d,
         s.open \/ s.left = {}, d = Count(s.open), t \subseteq WantedOf(s),
         b => t \cup u \cup (s.left \cap WantedOf(s)) = WantedOf(s),
         FindNextFrom(s, t, u, d), begun' = b
  PROVE  SearchInv'
<1>s. /\ s.open \in BOOLEAN /\ s.left \subseteq FileNames
      /\ s = [open |-> s.open, left |-> s.left, pattern |-> s.pattern, allowed |-> s.allowed]
      /\ s.pattern \in Patterns \cup {{}} /\ s.allowed \in Attributes
  BY DEF SearchState
<1>1. PICK over \in SUBSET s.left :
        LET failing == {n \in over : Wanted(s, n)}
            rest == s.left \ over
        IN  /\ failing # {} => "stat" \in FileFaults
            /\ \/ \E name \in rest :
                    /\ s.open /\ Wanted(s, name)
                    /\ search' = [s EXCEPT !.left = rest \ {name}]
                    /\ told' = t \cup {name} /\ skipped' = u \cup failing
                    /\ directories' = d
                    /\ answer' = Ok
               \/ /\ s.open => rest = {}
                  /\ s.open \/ over = {}
                  /\ search' = [s EXCEPT !.open = FALSE, !.left = {}]
                  /\ told' = t /\ skipped' = u \cup failing
                  /\ directories' = IF s.open THEN d - 1 ELSE d
                  /\ answer' = NoMoreFiles
  BY DEF FindNextFrom
<1> DEFINE failing == {n \in over : Wanted(s, n)}
           rest == s.left \ over
<1>2. failing = over \cap WantedOf(s)
  BY <1>s DEF WantedOf
<1>3. CASE \E name \in rest :
             /\ s.open /\ Wanted(s, name)
             /\ search' = [s EXCEPT !.left = rest \ {name}]
             /\ told' = t \cup {name} /\ skipped' = u \cup failing
             /\ directories' = d
             /\ answer' = Ok
  <2>1. PICK name \in rest :
             /\ s.open /\ Wanted(s, name)
             /\ search' = [s EXCEPT !.left = rest \ {name}]
             /\ told' = t \cup {name} /\ skipped' = u \cup failing
             /\ directories' = d
             /\ answer' = Ok
    BY <1>3
  <2>2. search' = [open |-> s.open, left |-> rest \ {name}, pattern |-> s.pattern, allowed |-> s.allowed]
    BY <1>s, <2>1
  <2>3. search' \in SearchState
    BY <1>s, <2>2 DEF SearchState
  <2>4. WantedOf(search)' = WantedOf(s)
    BY <2>2 DEF WantedOf, Wanted
  <2>5. name \in WantedOf(s)
    BY <1>s, <2>1 DEF WantedOf
  <2>6. b => (t \cup {name}) \cup (u \cup failing) \cup ((rest \ {name}) \cap WantedOf(s)) = WantedOf(s)
    BY <1>2, <2>5
  <2>7. Ok # NoMoreFiles
    BY DEF Ok, NoMoreFiles
  <2>8. search'.open /\ search'.left = rest \ {name}
    BY <2>1, <2>2
  <2>9. directories' = Count(search.open)'
    BY <2>1, <2>8 DEF Count
  <2>10. told' \subseteq WantedOf(search)'
    BY <2>1, <2>4, <2>5
  <2>11. begun' => told' \cup skipped' \cup (search'.left \cap WantedOf(search)') = WantedOf(search)'
    BY <2>1, <2>4, <2>6, <2>8
  <2> QED  BY <2>1, <2>3, <2>7, <2>8, <2>9, <2>10, <2>11 DEF SearchInv
<1>4. CASE /\ s.open => rest = {}
           /\ s.open \/ over = {}
           /\ search' = [s EXCEPT !.open = FALSE, !.left = {}]
           /\ told' = t /\ skipped' = u \cup failing
           /\ directories' = IF s.open THEN d - 1 ELSE d
           /\ answer' = NoMoreFiles
  <2>2. search' = [open |-> FALSE, left |-> {}, pattern |-> s.pattern, allowed |-> s.allowed]
    BY <1>s, <1>4
  <2>3. search' \in SearchState
    BY <1>s, <2>2 DEF SearchState
  <2>4. WantedOf(search)' = WantedOf(s)
    BY <2>2 DEF WantedOf, Wanted
  <2>5. over = s.left
    BY <1>4
  <2>6. b => t \cup (u \cup failing) = WantedOf(s)
    BY <1>2, <2>5
  <2>7. ~search'.open /\ search'.left = {}
    BY <2>2
  <2>8. directories' = Count(search.open)'
    BY <1>4, <2>7 DEF Count
  <2>9. told' \subseteq WantedOf(search)'
    BY <1>4, <2>4
  <2>10. begun' => told' \cup skipped' \cup (search'.left \cap WantedOf(search)') = WantedOf(search)'
    BY <1>4, <2>4, <2>6, <2>7
  <2> QED  BY <2>3, <2>7, <2>8, <2>9, <2>10 DEF SearchInv
<1> QED  BY <1>1, <1>3, <1>4

LEMMA NewSearch ==
  ASSUME NEW pattern \in Patterns \cup {{}}, NEW allowed \in Attributes, NEW left \in SUBSET FileNames,
         NEW open \in BOOLEAN
  PROVE  [open |-> open, left |-> left, pattern |-> pattern, allowed |-> allowed] \in SearchState
  BY DEF SearchState

LEMMA ClosesFirst == SearchInv => AfterClose = 0
  BY DEF SearchInv, AfterClose, Count

(* The calls that leave the search alone.                                   *)
LEMMA SearchKept ==
  ASSUME SearchInv, SearchStays, answer' # NoMoreFiles
  PROVE  SearchInv'
<1>1. UNCHANGED <<search, directories, told, skipped, begun>>
  BY DEF SearchStays
<1>2. WantedOf(search)' = WantedOf(search)
  BY <1>1 DEF WantedOf, Wanted
<1> QED  BY <1>1, <1>2 DEF SearchInv

LEMMA FilesInitial == DosFilesInit => FilesInv /\ SearchInv
<1> SUFFICES ASSUME DosFilesInit PROVE FilesInv /\ SearchInv
  OBVIOUS
<1>1. FilesInv
  <2>1. files = [i \in Slot |-> Closed] /\ streams = 0
    BY DEF DosFilesInit
  <2>2. OpenSlots = {}
    BY <2>1 DEF OpenSlots
  <2> QED  BY <2>1, <2>2, FS_EmptySet DEF FilesInv
<1>2. SearchInv
  <2>1. NoSearch \in SearchState
    BY NewSearch DEF NoSearch, Attributes
  <2> QED  BY <2>1 DEF DosFilesInit, SearchInv, NoSearch, Count, Ok, NoMoreFiles
<1> QED  BY <1>1, <1>2

LEMMA FilesKept == FilesInv /\ SearchInv /\ [DosFilesNext]_dosFilesVars => FilesInv' /\ SearchInv'
<1> SUFFICES ASSUME FilesInv, SearchInv, [DosFilesNext]_dosFilesVars PROVE FilesInv' /\ SearchInv'
  OBVIOUS
<1>k. ASSUME UNCHANGED <<files, streams>> PROVE FilesInv'
  BY <1>k DEF FilesInv, OpenSlots
<1>1. ASSUME NEW name \in FileNames, OpenFile(name) PROVE FilesInv' /\ SearchInv'
  <2>1. SearchStays /\ answer' # NoMoreFiles
    BY <1>1 DEF OpenFile, Ok, NoMoreFiles
  <2> QED  BY <1>1, <2>1, OpenKeepsCount, SearchKept
<1>2. CASE OpenRefused \/ BadHandle
  <2>1. SearchStays /\ answer' # NoMoreFiles /\ UNCHANGED <<files, streams>>
    BY <1>2 DEF OpenRefused, BadHandle, NoMoreFiles
  <2> QED  BY <1>k, <2>1, SearchKept
<1>3. ASSUME NEW i \in Slot, CloseFile(i) PROVE FilesInv' /\ SearchInv'
  <2>1. SearchStays /\ answer' # NoMoreFiles
    BY <1>3 DEF CloseFile, Ok, NoMoreFiles
  <2> QED  BY <1>3, <2>1, CloseKeepsCount, SearchKept
<1>4. ASSUME NEW i \in Slot, ReadFile(i) PROVE FilesInv' /\ SearchInv'
  <2>1. SearchStays /\ answer' # NoMoreFiles /\ i \in OpenSlots /\ UNCHANGED streams
    BY <1>4 DEF ReadFile, Ok, NoMoreFiles
  <2>2. files[i].position \in Nat /\ FileSize(files[i].name) \in Nat
    BY <2>1, DosFilesAssumption DEF OpenSlots, FilesInv, Open
  <2>3. PICK n \in Nat : files' = [files EXCEPT ![i].position = n]
    <3> DEFINE from == files[i].position
               size == FileSize(files[i].name)
               rest == IF from < size THEN size - from ELSE 0
    <3>1. PICK count \in 0..MaxRead :
            \/ files' = [files EXCEPT ![i].position = from + (IF count < rest THEN count ELSE rest)]
            \/ \E part \in 0..(IF count < rest THEN count ELSE rest) :
                 files' = [files EXCEPT ![i].position = from + part]
      <4>1. \E count \in 0..MaxRead :
              \/ files' = [files EXCEPT ![i].position = from + (IF count < rest THEN count ELSE rest)]
              \/ \E part \in 0..(IF count < rest THEN count ELSE rest) :
                   files' = [files EXCEPT ![i].position = from + part]
        BY <1>4, Zenon DEF ReadFile
      <4> QED  BY <4>1
    <3>2. rest \in Nat /\ from \in Nat
      BY <2>2
    <3>3. count \in Nat
      <4>1. MaxRead \in Nat
        BY DosFilesAssumption
      <4> QED  BY <3>1, <4>1
    <3> HIDE DEF from, rest
    <3> DEFINE taken == IF count < rest THEN count ELSE rest
    <3>4. taken \in Nat /\ \A part \in 0..taken : from + part \in Nat
      BY <3>2, <3>3
    <3>5. from + taken \in Nat
      BY <3>2, <3>4
    <3> HIDE DEF taken
    <3>6. \/ files' = [files EXCEPT ![i].position = from + taken]
          \/ \E part \in 0..taken : files' = [files EXCEPT ![i].position = from + part]
      BY <3>1 DEF taken
    <3> QED  BY <3>4, <3>5, <3>6
  <2> QED  BY <2>1, <2>3, MoveKeepsCount, SearchKept
<1>5. ASSUME NEW i \in Slot, SeekFile(i) PROVE FilesInv' /\ SearchInv'
  <2>1. SearchStays /\ answer' # NoMoreFiles /\ i \in OpenSlots /\ UNCHANGED streams
    BY <1>5 DEF SeekFile, Ok, NoMoreFiles
  <2>2. files[i].position \in Nat /\ FileSize(files[i].name) \in Nat
    BY <2>1, DosFilesAssumption DEF OpenSlots, FilesInv, Open
  <2>3. PICK origin \in {0, files[i].position, FileSize(files[i].name)}, offset \in -MaxRead..MaxRead :
          IF origin + offset < 0
            THEN answer' = 1 /\ UNCHANGED files
            ELSE files' = [files EXCEPT ![i].position = origin + offset] /\ answer' = Ok
    BY <1>5 DEF SeekFile
  <2>4. origin + offset \in Int
    <3>1. origin \in Int
      BY <2>2
    <3>2. offset \in Int
      <4>1. MaxRead \in Nat
        BY DosFilesAssumption
      <4> QED  BY <2>3, <4>1
    <3> QED  BY <3>1, <3>2
  <2>5. CASE origin + offset < 0
    BY <1>k, <2>1, <2>3, <2>5, SearchKept
  <2>6. CASE ~ (origin + offset < 0)
    <3>1. origin + offset \in Nat
      BY <2>4, <2>6
    <3> QED  BY <2>1, <2>3, <2>6, <3>1, MoveKeepsCount, SearchKept
  <2> QED  BY <2>5, <2>6
<1>6. CASE FindFirst
  <2>1. PICK pattern \in Patterns, allowed \in Attributes :
          FindNextFrom([open |-> TRUE, left |-> FileNames, pattern |-> pattern, allowed |-> allowed],
                       {}, {}, AfterClose + 1)
    BY <1>6 DEF FindFirst
  <2> DEFINE s == [open |-> TRUE, left |-> FileNames, pattern |-> pattern, allowed |-> allowed]
  <2>2. s \in SearchState
    BY NewSearch
  <2>3. s.open /\ {} \cup {} \cup (s.left \cap WantedOf(s)) = WantedOf(s)
    BY DEF WantedOf
  <2>4. AfterClose + 1 = Count(s.open)
    BY ClosesFirst DEF Count
  <2>5. begun' = TRUE /\ UNCHANGED <<files, streams>>
    BY <1>6 DEF FindFirst
  <2> HIDE DEF s
  <2>6. SearchInv'
    BY <2>1, <2>2, <2>3, <2>4, <2>5, SearchGoesOn, ZenonT(60) DEF s
  <2> QED  BY <1>k, <2>5, <2>6
<1>7. CASE FindFirstRefused
  <2>1. PICK pattern \in Patterns \cup {search.pattern}, allowed \in Attributes \cup {search.allowed} :
          search' = [open |-> FALSE, left |-> {}, pattern |-> pattern, allowed |-> allowed]
    BY <1>7 DEF FindFirstRefused
  <2>2. pattern \in Patterns \cup {{}} /\ allowed \in Attributes
    BY DEF SearchInv, SearchState
  <2>3. search' \in SearchState
    BY <2>1, <2>2, NewSearch
  <2>4. directories' = 0 /\ told' = {} /\ begun' = FALSE /\ answer' = 3 /\ UNCHANGED <<files, streams>>
    BY <1>7, ClosesFirst DEF FindFirstRefused
  <2>5. SearchInv'
    BY <2>1, <2>3, <2>4 DEF SearchInv, Count, NoMoreFiles
  <2> QED  BY <1>k, <2>4, <2>5
<1>8. CASE FindNext
  <2>1. FindNextFrom(search, told, skipped, directories) /\ UNCHANGED <<files, streams, begun>>
    BY <1>8 DEF FindNext
  <2>2. SearchInv'
    <3>1. /\ search \in SearchState /\ begun \in BOOLEAN
          /\ search.open \/ search.left = {}
          /\ directories = Count(search.open) /\ told \subseteq WantedOf(search)
          /\ begun => told \cup skipped \cup (search.left \cap WantedOf(search)) = WantedOf(search)
      BY DEF SearchInv
    <3>2. begun' = begun
      BY <2>1
    <3> QED  BY <2>1, <3>1, <3>2, SearchGoesOn
  <2> QED  BY <1>k, <2>1, <2>2
<1>9. CASE ResetFiles
  <2>1. FilesInv'
    <3>1. files' = [i \in Slot |-> Closed] /\ streams' = streams - Cardinality(OpenSlots)
      BY <1>9 DEF ResetFiles
    <3>2. OpenSlots' = {}
      BY <3>1 DEF OpenSlots
    <3>3. Cardinality(OpenSlots) \in Nat
      BY SlotsFinite, FS_Subset, FS_CardinalityType DEF OpenSlots
    <3>4. streams' = 0
      BY <3>1, <3>3 DEF FilesInv
    <3>5. files' \in [Slot -> Open \cup {Closed}]
      BY <3>1
    <3>6. Cardinality({}) = 0
      BY FS_EmptySet
    <3> QED  BY <3>2, <3>4, <3>5, <3>6 DEF FilesInv
  <2>2. SearchInv'
    <3>1. NoSearch \in SearchState
      BY NewSearch DEF NoSearch, Attributes
    <3>2. search' = NoSearch /\ directories' = 0 /\ told' = {} /\ begun' = FALSE /\ answer' = Ok
      BY <1>9, ClosesFirst DEF ResetFiles
    <3> QED  BY <3>1, <3>2 DEF SearchInv, NoSearch, Count, Ok, NoMoreFiles
  <2> QED  BY <2>1, <2>2
<1>10. CASE UNCHANGED dosFilesVars
  BY <1>10 DEF dosFilesVars, FilesInv, SearchInv, OpenSlots, WantedOf, Wanted, Count
<1> QED  BY <1>1, <1>2, <1>3, <1>4, <1>5, <1>6, <1>7, <1>8, <1>9, <1>10 DEF DosFilesNext

(* Whatever fails, and however programs and searches follow on each other,  *)
(* no stream and no directory of the host is left open or closed twice.     *)
THEOREM NothingLeaks == DosFilesSpec => []StreamsAreOwned
<1>1. DosFilesInit => FilesInv /\ SearchInv
  BY FilesInitial
<1>2. FilesInv /\ SearchInv /\ [DosFilesNext]_dosFilesVars => FilesInv' /\ SearchInv'
  BY FilesKept
<1>3. FilesInv /\ SearchInv => StreamsAreOwned
  BY FilesInvImplies
<1> QED  BY <1>1, <1>2, <1>3, PTL DEF DosFilesSpec

(* A search that ends has reported what it was asked for, and nothing else. *)
THEOREM SearchIsComplete == DosFilesSpec => []SearchFindsAll
<1>1. DosFilesInit => FilesInv /\ SearchInv
  BY FilesInitial
<1>2. FilesInv /\ SearchInv /\ [DosFilesNext]_dosFilesVars => FilesInv' /\ SearchInv'
  BY FilesKept
<1>3. FilesInv /\ SearchInv => SearchFindsAll
  BY FilesInvImplies
<1> QED  BY <1>1, <1>2, <1>3, PTL DEF DosFilesSpec

(* What FilesInv and SearchInv do not say of the types.                     *)
AnswerInv == skipped \subseteq FileNames /\ answer \in Answers

LEMMA SearchAnswers ==
  ASSUME NEW s, s.left \subseteq FileNames, NEW t, NEW u, u \subseteq FileNames, NEW d,
         FindNextFrom(s, t, u, d)
  PROVE  AnswerInv'
<1>1. PICK over \in SUBSET s.left :
        /\ skipped' = u \cup {n \in over : Wanted(s, n)}
        /\ answer' = Ok \/ answer' = NoMoreFiles
  BY Zenon DEF FindNextFrom
<1> QED  BY <1>1 DEF AnswerInv, Answers

LEMMA AnswersKept == SearchInv /\ AnswerInv /\ [DosFilesNext]_dosFilesVars => AnswerInv'
<1> SUFFICES ASSUME SearchInv, AnswerInv, [DosFilesNext]_dosFilesVars PROVE AnswerInv'
  OBVIOUS
<1>k. ASSUME SearchStays, answer' \in Answers PROVE AnswerInv'
  BY <1>k DEF SearchStays, AnswerInv
<1>1. ASSUME NEW name \in FileNames, OpenFile(name) PROVE AnswerInv'
  BY <1>1, <1>k DEF OpenFile, Ok, Answers
<1>2. CASE OpenRefused \/ BadHandle
  BY <1>2, <1>k DEF OpenRefused, BadHandle, Answers
<1>3. ASSUME NEW i \in Slot, CloseFile(i) \/ ReadFile(i) \/ SeekFile(i) PROVE AnswerInv'
  <2>1. SearchStays
    BY <1>3 DEF CloseFile, ReadFile, SeekFile
  <2>2. answer' = Ok \/ answer' = 1 \/ answer' = 5
    <3>1. CASE CloseFile(i)
      BY <3>1 DEF CloseFile
    <3>2. CASE ReadFile(i)
      BY <3>2, Zenon DEF ReadFile
    <3>3. CASE SeekFile(i)
      BY <3>3 DEF SeekFile
    <3> QED  BY <1>3, <3>1, <3>2, <3>3
  <2> QED  BY <1>k, <2>1, <2>2 DEF Ok, Answers
<1>4. CASE FindFirst
  <2>1. PICK pattern \in Patterns, allowed \in Attributes :
          FindNextFrom([open |-> TRUE, left |-> FileNames, pattern |-> pattern, allowed |-> allowed],
                       {}, {}, AfterClose + 1)
    BY <1>4 DEF FindFirst
  <2> QED  BY <2>1, SearchAnswers
<1>5. CASE FindFirstRefused \/ ResetFiles
  BY <1>5 DEF FindFirstRefused, ResetFiles, AnswerInv, Answers, Ok
<1>6. CASE FindNext
  <2>1. FindNextFrom(search, told, skipped, directories)
    BY <1>6 DEF FindNext
  <2>2. search.left \subseteq FileNames /\ skipped \subseteq FileNames
    BY DEF SearchInv, SearchState, AnswerInv
  <2> QED  BY <2>1, <2>2, SearchAnswers
<1>7. CASE UNCHANGED dosFilesVars
  BY <1>7 DEF dosFilesVars, AnswerInv
<1> QED  BY <1>1, <1>2, <1>3, <1>4, <1>5, <1>6, <1>7 DEF DosFilesNext

LEMMA FilesTyped == FilesInv /\ SearchInv /\ AnswerInv => DosFilesTypeOK
<1> SUFFICES ASSUME FilesInv, SearchInv, AnswerInv PROVE DosFilesTypeOK
  OBVIOUS
<1>1. \A i \in Slot : files[i] = Closed \/ files[i] \in Open
  BY DEF FilesInv
<1>2. streams \in Nat
  <2>1. IsFiniteSet(OpenSlots)
    BY SlotsFinite, FS_Subset DEF OpenSlots
  <2> QED  BY <2>1, FS_CardinalityType DEF FilesInv
<1>3. directories \in Nat /\ search.open \in BOOLEAN /\ search.left \subseteq FileNames
  BY DEF SearchInv, SearchState, Count
<1>4. told \subseteq FileNames /\ begun \in BOOLEAN
  BY DEF SearchInv, WantedOf
<1> QED  BY <1>1, <1>2, <1>3, <1>4 DEF DosFilesTypeOK, AnswerInv

(* A file table, a search and an answer keep their types, whatever the host *)
(* fails to do.                                                             *)
THEOREM FilesTypeCorrect == DosFilesSpec => []DosFilesTypeOK
<1>1. DosFilesInit => FilesInv /\ SearchInv /\ AnswerInv
  BY FilesInitial DEF DosFilesInit, AnswerInv, Answers, Ok
<1>2. FilesInv /\ SearchInv /\ AnswerInv /\ [DosFilesNext]_dosFilesVars
        => FilesInv' /\ SearchInv' /\ AnswerInv'
  BY FilesKept, AnswersKept
<1> QED  BY <1>1, <1>2, FilesTyped, PTL DEF DosFilesSpec

----------------------------------------------------------------------------

(* The day of a time. The clock's counters relate days, never ticks.        *)
DayOf(t) == t \div Day
TickOf(t) == t % Day

LEMMA DayAndTick ==
  ASSUME NEW t \in Nat
  PROVE  DayOf(t) \in Nat /\ TickOf(t) \in 0..Day - 1 /\ t = Day * DayOf(t) + TickOf(t)
<1>1. Day \in Nat /\ Day > 0
  BY ClockAssumption
<1>2. t \div Day \in Int /\ t % Day \in 0..Day - 1 /\ t = Day * (t \div Day) + (t % Day)
  BY <1>1
<1> DEFINE q == t \div Day
           r == t % Day
<1>3. q \in Int /\ r \in 0..Day - 1 /\ t = Day * q + r
  BY <1>2
<1> HIDE DEF q, r
<1>4. q >= 0
  <2> SUFFICES ASSUME q <= -1 PROVE FALSE
    BY <1>3
  <2>1. Day * q <= -Day
    BY <1>1, <1>3
  <2> QED  BY <1>1, <1>3, <2>1
<1> QED  BY <1>1, <1>3, <1>4 DEF DayOf, TickOf, q, r

LEMMA DaysInOrder ==
  ASSUME NEW s \in Nat, NEW t \in Nat, s <= t
  PROVE  DayOf(s) <= DayOf(t)
<1> DEFINE p == DayOf(s)
           q == DayOf(t)
           x == TickOf(s)
           y == TickOf(t)
<1>1. /\ p \in Nat /\ q \in Nat /\ x \in 0..Day - 1 /\ y \in 0..Day - 1
      /\ s = Day * p + x /\ t = Day * q + y
  BY DayAndTick
<1>2. Day \in Nat /\ Day > 0
  BY ClockAssumption
<1> HIDE DEF p, q, x, y
<1>3. p <= q
  <2> SUFFICES ASSUME p >= q + 1 PROVE FALSE
    BY <1>1
  <2>1. Day * p >= Day * (q + 1)
    BY <1>1, <1>2
  <2>2. Day * (q + 1) = Day * q + Day
    BY <1>1, <1>2
  <2>3. Day * q \in Nat /\ Day * p \in Nat
    BY <1>1, <1>2
  <2> QED  BY <1>1, <1>2, <2>1, <2>2, <2>3
<1> QED  BY <1>3 DEF p, q

(* How many days a reading lies behind the first one, and what is told.     *)
ClockInv ==
  /\ ClockTypeOK
  /\ lastDay <= DayOf(timer)
  /\ updated # Untaken => updated <= timer /\ ticks = TickOf(updated) /\ lastDay = DayOf(updated)
  /\ Measuring =>
       /\ updated # Untaken /\ latest.at # Untaken
       /\ first.at <= latest.at /\ latest.at <= updated
       /\ first.ticks = TickOf(first.at) /\ latest.ticks = TickOf(latest.at)
       /\ counted <= DayOf(latest.at) - DayOf(first.at)
       /\ ~missed => counted = DayOf(latest.at) - DayOf(first.at)
       /\ counted + rollover <= lastDay - DayOf(first.at)
       /\ ~missed => counted + rollover = lastDay - DayOf(first.at)

LEMMA ClockInvImplies == ClockInv => ElapsedIsRight
<1> SUFFICES ASSUME ClockInv, Measuring, latest.at # Untaken
    PROVE  LET measured == counted * Day + latest.ticks - first.ticks
               elapsed == latest.at - first.at
           IN  measured <= elapsed /\ (~missed => measured = elapsed)
  BY DEF ElapsedIsRight
<1> DEFINE f == DayOf(first.at)
           l == DayOf(latest.at)
           x == TickOf(first.at)
           y == TickOf(latest.at)
<1>1. first.at \in Nat /\ latest.at \in Nat
  BY DEF ClockInv, ClockTypeOK, Reading, Measuring
<1>2. /\ f \in Nat /\ l \in Nat /\ x \in Int /\ y \in Int
      /\ first.at = Day * f + x /\ latest.at = Day * l + y
  BY <1>1, DayAndTick
<1>3. first.ticks = x /\ latest.ticks = y /\ counted <= l - f /\ (~missed => counted = l - f)
  BY DEF ClockInv
<1>4. counted \in Nat /\ Day \in Nat /\ Day > 0
  BY ClockAssumption DEF ClockInv, ClockTypeOK
<1> HIDE DEF f, l, x, y
<1>5. latest.at - first.at = (l - f) * Day + y - x
  <2>1. (l - f) * Day = Day * l - Day * f
    BY <1>2, <1>4
  <2>2. Day * l \in Int /\ Day * f \in Int
    BY <1>2, <1>4
  <2> QED  BY <1>2, <2>1, <2>2
<1>6. counted * Day <= (l - f) * Day
  BY <1>2, <1>3, <1>4
<1>7. (l - f) * Day \in Int /\ counted * Day \in Int
  BY <1>2, <1>4
<1>8. counted * Day + y - x <= (l - f) * Day + y - x
  BY <1>2, <1>6, <1>7
<1>9. ~missed => counted * Day + y - x = (l - f) * Day + y - x
  BY <1>3
<1> QED  BY <1>3, <1>5, <1>8, <1>9

LEMMA ClockInitial == ClockInit => ClockInv
<1> SUFFICES ASSUME ClockInit PROVE ClockInv
  OBVIOUS
<1>1. Day \in Nat /\ Day > 0 /\ RolloverSize \in Nat /\ RolloverSize > 0
  BY ClockAssumption
<1>2. 0 \in 0..Day - 1 /\ 0 \in 0..RolloverSize - 1
  BY <1>1
<1>3. Never \in Reading /\ Never.at = Untaken
  BY <1>2 DEF Never, Reading
<1>4. ClockTypeOK
  BY <1>2, <1>3 DEF ClockInit, ClockTypeOK
<1>5. 0 <= DayOf(0)
  BY DayAndTick
<1> QED  BY <1>3, <1>4, <1>5 DEF ClockInit, ClockInv, Measuring

(* The rollover of an update is never more than the days it stands for.     *)
LEMMA PassedBound ==
  ASSUME NEW day \in Nat, lastDay \in Nat, lastDay <= day
  PROVE  /\ Passed(day) \in 0..RolloverSize - 1
         /\ Passed(day) <= day - lastDay
         /\ day - lastDay < RolloverSize => Passed(day) = day - lastDay
<1> DEFINE n == day - lastDay
<1>1. n \in Nat /\ RolloverSize \in Nat /\ RolloverSize > 0
  BY ClockAssumption
<1>2. (day > lastDay <=> n > 0) /\ (~ (day > lastDay) => n = 0)
  OBVIOUS
<1>3. Passed(day) = IF day > lastDay THEN n % RolloverSize ELSE 0
  BY DEF Passed
<1> HIDE DEF n
<1>4. n % RolloverSize \in 0..RolloverSize - 1 /\ n % RolloverSize <= n
        /\ (n < RolloverSize => n % RolloverSize = n)
  <2>1. n % RolloverSize \in 0..RolloverSize - 1
    BY <1>1
  <2>2. n < RolloverSize => n % RolloverSize = n
    BY <1>1
  <2> QED  BY <1>1, <2>1, <2>2
<1>5. /\ Passed(day) \in 0..RolloverSize - 1
      /\ Passed(day) <= n
      /\ n < RolloverSize => Passed(day) = n
  BY <1>1, <1>2, <1>3, <1>4
<1> QED  BY <1>5 DEF n

LEMMA UpdateKeeps == ClockInv /\ UpdateClock => ClockInv'
<1> SUFFICES ASSUME ClockInv, UpdateClock PROVE ClockInv'
  OBVIOUS
<1> DEFINE day == DayOf(timer)
<1>1. /\ ticks' = TickOf(timer) /\ rollover' = Passed(day) /\ lastDay' = day
      /\ missed' = (missed \/ (Measuring /\ (rollover # 0 \/ day - lastDay >= RolloverSize)))
      /\ updated' = timer
      /\ UNCHANGED <<timer, running, first, counted, latest>>
  BY DEF UpdateClock, DayOf, TickOf
<1>2. /\ timer \in Nat /\ lastDay \in Nat /\ rollover \in Nat /\ counted \in Nat
      /\ missed \in BOOLEAN /\ first \in Reading /\ latest \in Reading
      /\ RolloverSize \in Nat
  BY ClockAssumption DEF ClockInv, ClockTypeOK
<1>3. day \in Nat /\ TickOf(timer) \in 0..Day - 1
  BY <1>2, DayAndTick
<1>4. lastDay <= day
  BY DEF ClockInv
<1>5. /\ Passed(day) \in 0..RolloverSize - 1
      /\ Passed(day) <= day - lastDay
      /\ day - lastDay < RolloverSize => Passed(day) = day - lastDay
  BY <1>2, <1>3, <1>4, PassedBound
<1>6. ClockTypeOK'
  <2>1. missed' \in BOOLEAN
    BY <1>1, <1>2
  <2>2. ClockTypeOK
    BY DEF ClockInv
  <2> HIDE DEF day
  <2> QED  BY <1>1, <1>2, <1>3, <1>5, <2>1, <2>2 DEF ClockTypeOK
<1>7. lastDay' <= DayOf(timer)'
  BY <1>1, <1>3
<1>8. updated' <= timer' /\ ticks' = TickOf(updated)' /\ lastDay' = DayOf(updated)'
  BY <1>1, <1>2
<1>9. ASSUME Measuring' PROVE
       /\ updated' # Untaken /\ latest'.at # Untaken
       /\ first'.at <= latest'.at /\ latest'.at <= updated'
       /\ first'.ticks = TickOf(first.at)' /\ latest'.ticks = TickOf(latest.at)'
       /\ counted' <= DayOf(latest.at)' - DayOf(first.at)'
       /\ ~missed' => counted' = DayOf(latest.at)' - DayOf(first.at)'
       /\ counted' + rollover' <= lastDay' - DayOf(first.at)'
       /\ ~missed' => counted' + rollover' = lastDay' - DayOf(first.at)'
  <2> DEFINE f == DayOf(first.at)
             l == DayOf(latest.at)
  <2>1. Measuring
    BY <1>1, <1>9 DEF Measuring
  <2>2. /\ updated # Untaken /\ updated <= timer /\ latest.at # Untaken
        /\ first.at <= latest.at /\ latest.at <= updated
        /\ first.ticks = TickOf(first.at) /\ latest.ticks = TickOf(latest.at)
        /\ counted <= l - f
        /\ ~missed => counted = l - f
        /\ counted + rollover <= lastDay - f
        /\ ~missed => counted + rollover = lastDay - f
    BY <2>1 DEF ClockInv
  <2>3. first.at \in Nat /\ latest.at \in Nat /\ updated \in Nat
    BY <2>1, <2>2 DEF Measuring, ClockInv, ClockTypeOK, Reading
  <2>4. f \in Nat /\ l \in Nat
    BY <2>3, DayAndTick
  <2>5. timer # Untaken /\ latest.at <= timer
    BY <1>2, <2>2, <2>3 DEF Untaken
  <2> HIDE DEF f, l, day
  <2>6. ~missed' => ~missed /\ rollover = 0 /\ day - lastDay < RolloverSize
    <3>1. ~missed' => ~missed /\ ~(rollover # 0) /\ ~(day - lastDay >= RolloverSize)
      BY <1>1, <2>1, Zenon DEF day
    <3>2. ~(day - lastDay >= RolloverSize) => day - lastDay < RolloverSize
      BY <1>2, <1>3
    <3> QED  BY <3>1, <3>2
  <2>7. counted + Passed(day) <= day - f
    BY <1>2, <1>3, <1>5, <2>2, <2>4
  <2>8. ~missed' => counted + Passed(day) = day - f
    <3> SUFFICES ASSUME ~missed' PROVE counted + Passed(day) = day - f
      OBVIOUS
    <3>1. Passed(day) = day - lastDay /\ counted = lastDay - f
      BY <1>2, <1>5, <2>2, <2>4, <2>6
    <3> QED  BY <1>2, <1>3, <2>4, <3>1
  <2>9. ~missed' => counted = l - f
    BY <2>2, <2>6
  <2>10. l = DayOf(latest.at)' /\ f = DayOf(first.at)'
    BY <1>1 DEF l, f
  <2> QED  BY <1>1, <2>2, <2>5, <2>7, <2>8, <2>9, <2>10 DEF l, f
<1> QED  BY <1>6, <1>7, <1>8, <1>9 DEF ClockInv

LEMMA GetTicksKeeps == ClockInv /\ GetTicks => ClockInv'
<1> SUFFICES ASSUME ClockInv, GetTicks PROVE ClockInv'
  OBVIOUS
<1> DEFINE now == [ticks |-> ticks, at |-> updated]
<1>1. /\ first' = IF Measuring THEN first ELSE now
      /\ latest' = now
      /\ counted' = IF Measuring THEN counted + rollover ELSE 0
      /\ rollover' = 0
      /\ UNCHANGED <<timer, lastDay, running, ticks, updated, missed>>
  BY DEF GetTicks
<1>2. /\ ClockTypeOK /\ rollover \in Nat /\ counted \in Nat /\ 0 \in 0..RolloverSize - 1
      /\ lastDay \in Nat
  BY ClockAssumption DEF ClockInv, ClockTypeOK
<1>3. now \in Reading /\ now.at = updated /\ now.ticks = ticks
  BY <1>2 DEF ClockTypeOK, Reading
<1> HIDE DEF now
<1>4. ClockTypeOK'
  <2>1. first' \in Reading
    BY <1>1, <1>2, <1>3 DEF ClockTypeOK
  <2>2. counted' \in Nat
    BY <1>1, <1>2
  <2> QED  BY <1>1, <1>2, <1>3, <2>1, <2>2 DEF ClockTypeOK
<1>5. /\ lastDay' <= DayOf(timer)'
      /\ updated' # Untaken => updated' <= timer' /\ ticks' = TickOf(updated)' /\ lastDay' = DayOf(updated)'
  BY <1>1 DEF ClockInv
<1>6. CASE Measuring
  <2>1. first' = first /\ counted' = counted + rollover
    BY <1>1, <1>6
  <2>2. /\ updated # Untaken /\ updated <= timer /\ ticks = TickOf(updated) /\ lastDay = DayOf(updated)
        /\ first.at <= latest.at /\ latest.at <= updated
        /\ first.ticks = TickOf(first.at)
        /\ counted + rollover <= lastDay - DayOf(first.at)
        /\ ~missed => counted + rollover = lastDay - DayOf(first.at)
    BY <1>6 DEF ClockInv
  <2>3. first.at \in Nat /\ latest.at \in Nat /\ updated \in Nat
    BY <1>6, <2>2 DEF Measuring, ClockInv, ClockTypeOK, Reading
  <2>4. first.at <= updated
    BY <2>2, <2>3
  <2>5. latest'.at = updated /\ latest'.ticks = ticks
    BY <1>1, <1>3
  <2>6. counted' + rollover' = counted + rollover
    BY <1>1, <1>2, <2>1
  <2> QED  BY <1>1, <1>4, <1>5, <2>1, <2>2, <2>3, <2>4, <2>5, <2>6 DEF ClockInv
<1>7. CASE ~Measuring
  <2>1. first' = now /\ counted' = 0 /\ rollover' = 0 /\ latest' = now
    BY <1>1, <1>7
  <2>2. CASE updated = Untaken
    <3>1. ~Measuring'
      BY <1>3, <2>1, <2>2 DEF Measuring
    <3> QED  BY <1>4, <1>5, <3>1 DEF ClockInv
  <2>3. CASE updated # Untaken
    <3>1. updated \in Nat /\ updated <= timer /\ ticks = TickOf(updated) /\ lastDay = DayOf(updated)
      BY <2>3 DEF ClockInv, ClockTypeOK
    <3>2. DayOf(updated) \in Nat
      BY <3>1, DayAndTick
    <3>3. first'.at = updated /\ latest'.at = updated /\ first'.ticks = ticks /\ latest'.ticks = ticks
      BY <1>3, <2>1
    <3>4. DayOf(updated) - DayOf(updated) = 0 /\ updated <= updated /\ 0 + 0 = 0 /\ 0 <= 0
      BY <3>1, <3>2
    <3> QED  BY <1>1, <1>4, <1>5, <2>1, <2>3, <3>1, <3>3, <3>4 DEF ClockInv
  <2> QED  BY <2>2, <2>3
<1> QED  BY <1>6, <1>7

LEMMA ClockKept == ClockInv /\ [ClockNext]_clockVars => ClockInv'
<1> SUFFICES ASSUME ClockInv, [ClockNext]_clockVars PROVE ClockInv'
  OBVIOUS
<1>0. /\ ClockTypeOK /\ lastDay <= DayOf(timer)
      /\ Never \in Reading /\ Never.at = Untaken
      /\ 0 \in 0..Day - 1 /\ 0 \in 0..RolloverSize - 1
  BY ClockAssumption DEF ClockInv, Never, Reading
<1>r. ASSUME first' = Never, latest' = Never, rollover' = 0, counted' = 0, missed' = FALSE,
             updated' = Untaken, ticks' \in 0..Day - 1, running' \in BOOLEAN,
             UNCHANGED <<timer, lastDay>>
      PROVE  ClockInv'
  <2>1. ClockTypeOK'
    BY <1>0, <1>r DEF ClockTypeOK
  <2>2. ~Measuring'
    BY <1>0, <1>r DEF Measuring
  <2> QED  BY <1>0, <1>r, <2>1, <2>2 DEF ClockInv
<1>1. CASE StartClock
  BY <1>0, <1>1, <1>r DEF StartClock
<1>2. CASE StopClock
  <2>1. ClockTypeOK' /\ (Measuring' <=> Measuring)
    BY <1>0, <1>2 DEF StopClock, ClockTypeOK, Measuring
  <2> QED  BY <1>2, <2>1 DEF StopClock, ClockInv
<1>3. CASE TimePasses
  <2>1. PICK d \in 1..MaxStep : timer' = timer + d
    BY <1>3 DEF TimePasses
  <2>2. UNCHANGED <<lastDay, running, ticks, rollover, updated, first, counted, latest, missed>>
    BY <1>3 DEF TimePasses
  <2>3. timer \in Nat /\ d \in Nat
    BY <1>0, <2>1 DEF ClockTypeOK
  <2>4. timer' \in Nat /\ timer <= timer'
    BY <2>1, <2>3
  <2>5. DayOf(timer) <= DayOf(timer') /\ DayOf(timer) \in Nat /\ DayOf(timer') \in Nat
    BY <2>3, <2>4, DaysInOrder, DayAndTick
  <2>6. lastDay' <= DayOf(timer)'
    <3>1. lastDay \in Nat
      BY <1>0 DEF ClockTypeOK
    <3> QED  BY <1>0, <2>2, <2>5, <3>1
  <2>7. ClockTypeOK'
    BY <1>0, <2>2, <2>4 DEF ClockTypeOK
  <2>8. updated # Untaken => updated <= timer'
    <3>1. updated # Untaken => updated \in Nat /\ updated <= timer
      BY DEF ClockInv, ClockTypeOK
    <3> QED  BY <2>3, <2>4, <3>1
  <2>9. Measuring' <=> Measuring
    BY <2>2 DEF Measuring
  <2> QED  BY <2>2, <2>6, <2>7, <2>8, <2>9 DEF ClockInv
<1>4. CASE UpdateClock
  BY <1>4, UpdateKeeps
<1>5. CASE GetTicks
  BY <1>5, GetTicksKeeps
<1>6. CASE SetTicks
  <2>1. running' \in BOOLEAN
    BY <1>0, <1>6 DEF SetTicks, ClockTypeOK
  <2> QED  BY <1>6, <1>r, <2>1 DEF SetTicks
<1>7. CASE UNCHANGED clockVars
  <2>1. ClockTypeOK' /\ (Measuring' <=> Measuring)
    BY <1>0, <1>7 DEF clockVars, ClockTypeOK, Measuring
  <2> QED  BY <1>7, <2>1 DEF clockVars, ClockInv
<1> QED  BY <1>1, <1>2, <1>3, <1>4, <1>5, <1>6, <1>7 DEF ClockNext

(* A program never measures more time than has passed, and measures all of  *)
(* it unless a midnight was overwritten, whatever the lengths of a day, of  *)
(* a frame and of the rollover's byte.                                      *)
THEOREM TimeIsNotInvented == ClockSpec => []ElapsedIsRight
<1>1. ClockInit => ClockInv
  BY ClockInitial
<1>2. ClockInv /\ [ClockNext]_clockVars => ClockInv'
  BY ClockKept
<1>3. ClockInv => ElapsedIsRight
  BY ClockInvImplies
<1> QED  BY <1>1, <1>2, <1>3, PTL DEF ClockSpec

-----------------------------------------------------------------------------
(* The half that waits for its other half is what the machine holds, and    *)
(* the counter stands still between the halves of a reading.                *)
HalvesInv ==
  /\ writeHigh => access = Both /\ lowWritten = latch
  /\ lowRead # None => lowRead = counter

PitIInv == PitTypeOK /\ HalvesInv /\ PairsAreWhole /\ SpeakerFollowsPorts

(* The sizes: a word splits into its halves, and halves make a word.        *)
LEMMA Square == HalfSize * HalfSize \in Nat \ {0, 1} /\ HalfSize <= HalfSize * HalfSize
<1>1. HalfSize \in Int /\ HalfSize >= 2
  BY PitAssumption
<1> QED  BY <1>1

LEMMA Splits ==
  ASSUME NEW w \in PitWord
  PROVE  Low(w) \in Half /\ High(w) \in Int /\ Together(Low(w), High(w)) = w
<1>1. HalfSize \in Nat /\ HalfSize > 0 /\ w \in Int
  BY PitAssumption, Square DEF PitWord
<1>2. w % HalfSize \in 0..HalfSize - 1
  BY <1>1
<1>3. w = HalfSize * (w \div HalfSize) + (w % HalfSize) /\ w \div HalfSize \in Int
  BY <1>1
<1> QED  BY <1>1, <1>2, <1>3 DEF Low, High, Together, Half

LEMMA HighIsHalf ==
  ASSUME NEW w \in PitWord
  PROVE  High(w) \in Half
<1> DEFINE q == w \div HalfSize
<1>1. HalfSize \in Nat /\ HalfSize > 0 /\ w \in Int /\ 0 <= w /\ w < HalfSize * HalfSize
  BY PitAssumption, Square DEF PitWord
<1>2. w = HalfSize * q + (w % HalfSize) /\ q \in Int /\ w % HalfSize \in 0..HalfSize - 1
  BY <1>1
<1> HIDE DEF q
<1>3. HalfSize * q <= w /\ w < HalfSize * q + HalfSize
  BY <1>1, <1>2
<1>4. q < HalfSize
  <2> SUFFICES ASSUME q >= HalfSize PROVE FALSE
    BY <1>1, <1>2
  <2>1. HalfSize * q >= HalfSize * HalfSize
    BY <1>1, <1>2
  <2> QED  BY <2>1, <1>1, <1>2, <1>3
<1>5. q >= 0
  <2> SUFFICES ASSUME q <= -1 PROVE FALSE
    BY <1>1, <1>2
  <2>1. HalfSize * q <= -HalfSize
    BY <1>1, <1>2
  <2> QED  BY <2>1, <1>1, <1>2, <1>3
<1> QED  BY <1>1, <1>2, <1>4, <1>5 DEF High, Half, q

LEMMA Joins ==
  ASSUME NEW l \in Half, NEW h \in Half
  PROVE  Together(l, h) \in PitWord
<1>1. HalfSize \in Nat /\ HalfSize > 0 /\ l \in Int /\ h \in Int
        /\ 0 <= l /\ l < HalfSize /\ 0 <= h /\ h <= HalfSize - 1
  BY PitAssumption DEF Half
<1>2. HalfSize * h <= HalfSize * (HalfSize - 1) /\ HalfSize * h >= 0 /\ HalfSize * h \in Int
  BY <1>1
<1>3. HalfSize * (HalfSize - 1) = HalfSize * HalfSize - HalfSize
  BY <1>1
<1>4. HalfSize * HalfSize \in Int
  BY <1>1
<1> QED  BY <1>1, <1>2, <1>3, <1>4 DEF Together, PitWord

LEMMA CountedIsWord ==
  ASSUME PitTypeOK
  PROVE  Counted \in PitWord
<1> DEFINE w == HalfSize * HalfSize
<1>1. w \in Nat /\ w > 0 /\ HalfSize + 1 \in Int
  BY Square, PitAssumption
<1>2. counter \in PitWord /\ counter \in Int
  BY Square DEF PitTypeOK, PitWord
<1>3. (counter - (HalfSize + 1)) % w \in 0..w - 1
  <2> HIDE DEF w
  <2> QED  BY <1>1, <1>2
<1> QED  BY <1>2, <1>3 DEF Counted, PitWord

LEMMA LoadedIsWord ==
  ASSUME PitTypeOK, NEW v \in Half
  PROVE  Loaded(v) \in PitWord
<1>1. access \in {LowOnly, HighOnly, Both} /\ latch \in Half /\ reload \in PitWord
  BY DEF PitTypeOK
<1>2. Low(reload) \in Half /\ High(reload) \in Half
  BY <1>1, Splits, HighIsHalf
<1>3. CASE access = Both
  BY <1>1, <1>3, Joins DEF Loaded, LowOnly, HighOnly, Both
<1>4. CASE access = HighOnly
  BY <1>2, <1>4, Joins DEF Loaded, HighOnly, Both
<1>5. CASE access = LowOnly
  <2>1. Loaded(v) = Together(v, High(reload))
    BY <1>5 DEF Loaded, LowOnly, HighOnly, Both
  <2> QED  BY <1>2, <2>1, Joins
<1> QED  BY <1>1, <1>3, <1>4, <1>5

----------------------------------------------------------------------------
LEMMA PitInitial == PitInit => PitIInv
<1> SUFFICES ASSUME PitInit PROVE PitIInv
  OBVIOUS
<1>1. /\ access = Both /\ pitMode = 3 /\ reload = HalfSize * HalfSize - 1
      /\ counter = HalfSize * HalfSize - 1 /\ readHigh = FALSE /\ writeHigh = FALSE /\ latch = 0
      /\ portB = [gate |-> 0, data |-> 0, refresh |-> 0]
      /\ speaker = Told(reload, pitMode, portB)
      /\ lowRead = None /\ lowWritten = None /\ pair = [seen |-> 0, is |-> 0]
  BY DEF PitInit, PowerOn, NoPair
<1>2. HalfSize * HalfSize - 1 \in PitWord /\ 0 \in PitWord /\ 0 \in Half
  BY Square, PitAssumption DEF PitWord, Half
<1>3. 3 \in PitModes
  BY PitAssumption
<1>4. speaker \in [reload : PitWord, mode : PitModes, gate : {0, 1}, data : {0, 1}]
  BY <1>1, <1>2, <1>3 DEF Told
<1>5. pair \in [seen : PitWord, is : PitWord]
  BY <1>1, <1>2
<1>6. PitTypeOK
  BY <1>1, <1>2, <1>3, <1>4, <1>5 DEF PitTypeOK
<1>7. PairsAreWhole
  BY <1>1 DEF PairsAreWhole
<1> QED  BY <1>1, <1>6, <1>7 DEF PitIInv, HalvesInv, SpeakerFollowsPorts

(* What the speaker is told is a control, whatever the ports hold.          *)
LEMMA ToldIsControl ==
  ASSUME NEW w \in PitWord, NEW m \in PitModes,
         NEW b \in [gate : {0, 1}, data : {0, 1}, refresh : {0, 1}]
  PROVE  Told(w, m, b) \in [reload : PitWord, mode : PitModes, gate : {0, 1}, data : {0, 1}]
  BY DEF Told

LEMMA ReadCounterKeeps == PitIInv /\ ReadCounter => PitIInv'
<1> SUFFICES ASSUME PitIInv, ReadCounter PROVE PitIInv'
  OBVIOUS
<1>0. PitTypeOK /\ HalvesInv /\ PairsAreWhole /\ SpeakerFollowsPorts
  BY DEF PitIInv
<1>1. Counted \in PitWord /\ counter' = Counted
  BY <1>0, CountedIsWord DEF ReadCounter
<1>2. UNCHANGED <<access, pitMode, reload, writeHigh, latch, portB, speaker, lowWritten>>
  BY DEF ReadCounter
<1>3. readHigh' \in BOOLEAN
  BY <1>0 DEF ReadCounter, PitTypeOK
<1>4. CASE access = Both /\ ~readHigh
  <2>1. lowRead' = Counted /\ pair' = pair
    BY <1>4 DEF ReadCounter
  <2>2. PitTypeOK'
    BY <1>0, <1>1, <1>2, <1>3, <2>1 DEF PitTypeOK
  <2>3. HalvesInv'
    BY <1>0, <1>1, <1>2, <2>1 DEF HalvesInv
  <2> QED  BY <1>0, <1>2, <2>1, <2>2, <2>3 DEF PitIInv, PairsAreWhole, SpeakerFollowsPorts
<1>5. CASE ~(access = Both /\ ~readHigh)
  <2>1. lowRead' = None
    BY <1>5 DEF ReadCounter
  <2>2. pair' = IF access = Both /\ lowRead # None
                  THEN [seen |-> Together(Low(lowRead), High(Counted)), is |-> lowRead] ELSE pair
    BY <1>5 DEF ReadCounter
  <2>3. pair' \in [seen : PitWord, is : PitWord] /\ PairsAreWhole'
    <3>1. CASE access = Both /\ lowRead # None
      <4>1. Counted = counter
        BY <1>5, <3>1 DEF Counted
      <4>2. lowRead = counter /\ counter \in PitWord
        BY <1>0, <3>1 DEF HalvesInv, PitTypeOK
      <4>3. Together(Low(counter), High(counter)) = counter
        BY <4>2, Splits
      <4>4. pair' = [seen |-> counter, is |-> counter]
        BY <2>2, <3>1, <4>1, <4>2, <4>3
      <4> QED  BY <4>2, <4>4 DEF PairsAreWhole
    <3>2. CASE ~(access = Both /\ lowRead # None)
      BY <1>0, <2>2, <3>2 DEF PairsAreWhole, PitTypeOK
    <3> QED  BY <3>1, <3>2
  <2>4. PitTypeOK'
    BY <1>0, <1>1, <1>2, <1>3, <2>1, <2>3 DEF PitTypeOK
  <2>5. HalvesInv'
    BY <1>0, <1>2, <2>1 DEF HalvesInv
  <2> QED  BY <1>0, <1>2, <2>3, <2>4, <2>5 DEF PitIInv, SpeakerFollowsPorts
<1> QED  BY <1>4, <1>5

LEMMA CompleteWordKeeps == PitIInv /\ CompleteWord => PitIInv'
<1> SUFFICES ASSUME PitIInv, CompleteWord PROVE PitIInv'
  OBVIOUS
<1>0. PitTypeOK /\ HalvesInv /\ PairsAreWhole /\ SpeakerFollowsPorts
  BY DEF PitIInv
<1>1. PICK v \in Half :
        /\ reload' = Loaded(v) /\ counter' = Loaded(v)
        /\ speaker' = Told(Loaded(v), pitMode, portB)
        /\ pair' = IF access = Both
                     THEN [seen |-> Loaded(v), is |-> Together(lowWritten, v)] ELSE pair
  BY DEF CompleteWord
<1>2. /\ access # Both \/ writeHigh
      /\ writeHigh' = IF access = Both THEN FALSE ELSE writeHigh
      /\ lowRead' = None /\ lowWritten' = None
      /\ UNCHANGED <<access, pitMode, readHigh, latch, portB>>
  BY DEF CompleteWord
<1>3. Loaded(v) \in PitWord
  BY <1>0, LoadedIsWord
<1>4. speaker' = Told(reload', pitMode', portB')
  BY <1>1, <1>2
<1>5. speaker' \in [reload : PitWord, mode : PitModes, gate : {0, 1}, data : {0, 1}]
  BY <1>0, <1>1, <1>3, ToldIsControl DEF PitTypeOK
<1>6. pair' \in [seen : PitWord, is : PitWord] /\ PairsAreWhole'
  <2>1. CASE access = Both
    <3>1. lowWritten = latch
      BY <1>0, <1>2, <2>1 DEF HalvesInv
    <3>2. Loaded(v) = Together(latch, v)
      BY <2>1 DEF Loaded, LowOnly, HighOnly, Both
    <3>3. pair' = [seen |-> Loaded(v), is |-> Loaded(v)]
      BY <1>1, <2>1, <3>1, <3>2
    <3> QED  BY <1>3, <3>3 DEF PairsAreWhole
  <2>2. CASE access # Both
    BY <1>0, <1>1, <2>2 DEF PairsAreWhole, PitTypeOK
  <2> QED  BY <2>1, <2>2
<1>7. writeHigh' \in BOOLEAN /\ (writeHigh' => access # Both)
  BY <1>0, <1>2 DEF PitTypeOK
<1>8. PitTypeOK'
  BY <1>0, <1>1, <1>2, <1>3, <1>5, <1>6, <1>7 DEF PitTypeOK
<1>9. HalvesInv'
  <2>1. ~writeHigh'
    BY <1>0, <1>2, <1>7 DEF HalvesInv
  <2> QED  BY <1>2, <2>1 DEF HalvesInv
<1> QED  BY <1>4, <1>6, <1>8, <1>9 DEF PitIInv, SpeakerFollowsPorts

LEMMA PitKept == PitIInv /\ [PitNext]_pitVars => PitIInv'
<1> SUFFICES ASSUME PitIInv, [PitNext]_pitVars PROVE PitIInv'
  OBVIOUS
<1>0. PitTypeOK /\ HalvesInv /\ PairsAreWhole /\ SpeakerFollowsPorts
  BY DEF PitIInv
<1>1. CASE PitReset
  <2>1. PitInit'
    BY <1>1 DEF PitReset, PitInit
  <2>2. PitInit' => PitIInv'
    BY PitInitial, PTL
  <2> QED  BY <2>1, <2>2
<1>2. CASE ReadCounter
  BY <1>2, ReadCounterKeeps
<1>3. CASE LatchCommand
  BY <1>0, <1>3 DEF LatchCommand, PitIInv, PitTypeOK, HalvesInv, PairsAreWhole, SpeakerFollowsPorts
<1>4. CASE ControlWord
  <2>1. /\ access' \in {LowOnly, HighOnly, Both} /\ pitMode' \in PitModes
        /\ readHigh' = FALSE /\ writeHigh' = FALSE /\ lowRead' = None /\ lowWritten' = None
        /\ speaker' = Told(reload, pitMode', portB)
        /\ UNCHANGED <<reload, counter, latch, portB, pair>>
    BY <1>4 DEF ControlWord
  <2>2. speaker' \in [reload : PitWord, mode : PitModes, gate : {0, 1}, data : {0, 1}]
    BY <1>0, <2>1, ToldIsControl DEF PitTypeOK
  <2>3. PitTypeOK'
    BY <1>0, <2>1, <2>2 DEF PitTypeOK
  <2> QED  BY <1>0, <2>1, <2>3 DEF PitIInv, HalvesInv, PairsAreWhole, SpeakerFollowsPorts
<1>5. CASE WriteLowHalf
  BY <1>0, <1>5 DEF WriteLowHalf, PitIInv, PitTypeOK, HalvesInv, PairsAreWhole, SpeakerFollowsPorts
<1>6. CASE CompleteWord
  BY <1>6, CompleteWordKeeps
<1>7. CASE ReadPortB
  <2>1. portB' = [portB EXCEPT !.refresh = 1 - @]
        /\ UNCHANGED <<access, pitMode, reload, counter, readHigh, writeHigh, latch, speaker,
                       lowRead, lowWritten, pair>>
    BY <1>7 DEF ReadPortB
  <2>2. portB \in [gate : {0, 1}, data : {0, 1}, refresh : {0, 1}]
    BY <1>0 DEF PitTypeOK
  <2>3. portB' \in [gate : {0, 1}, data : {0, 1}, refresh : {0, 1}]
          /\ portB'.gate = portB.gate /\ portB'.data = portB.data
    BY <2>1, <2>2
  <2>4. PitTypeOK'
    BY <1>0, <2>1, <2>3 DEF PitTypeOK
  <2>5. SpeakerFollowsPorts'
    BY <1>0, <2>1, <2>3 DEF SpeakerFollowsPorts, Told
  <2> QED  BY <1>0, <2>1, <2>4, <2>5 DEF PitIInv, HalvesInv, PairsAreWhole
<1>8. CASE WritePortB
  <2>1. /\ portB' \in [gate : {0, 1}, data : {0, 1}, refresh : {0, 1}]
        /\ speaker' = IF portB'.gate # portB.gate \/ portB'.data # portB.data
                        THEN Told(reload, pitMode, portB') ELSE speaker
        /\ UNCHANGED <<access, pitMode, reload, counter, readHigh, writeHigh, latch,
                       lowRead, lowWritten, pair>>
    BY <1>8 DEF WritePortB
  <2>2. SpeakerFollowsPorts'
    <3>1. CASE portB'.gate # portB.gate \/ portB'.data # portB.data
      BY <2>1, <3>1 DEF SpeakerFollowsPorts
    <3>2. CASE portB'.gate = portB.gate /\ portB'.data = portB.data
      <4>1. speaker' = speaker
        BY <2>1, <3>2
      <4>2. Told(reload', pitMode', portB') = Told(reload, pitMode, portB)
        BY <2>1, <3>2 DEF Told
      <4> QED  BY <1>0, <4>1, <4>2 DEF SpeakerFollowsPorts
    <3> QED  BY <3>1, <3>2
  <2>3. speaker' \in [reload : PitWord, mode : PitModes, gate : {0, 1}, data : {0, 1}]
    <3>1. reload' \in PitWord /\ pitMode' \in PitModes
      BY <1>0, <2>1 DEF PitTypeOK
    <3>2. speaker' = Told(reload', pitMode', portB')
      BY <2>2 DEF SpeakerFollowsPorts
    <3>3. portB' \in [gate : {0, 1}, data : {0, 1}, refresh : {0, 1}]
      BY <2>1
    <3>4. Told(reload', pitMode', portB')
            \in [reload : PitWord, mode : PitModes, gate : {0, 1}, data : {0, 1}]
      BY <3>1, <3>3, ToldIsControl
    <3> QED  BY <3>2, <3>4
  <2>4. PitTypeOK'
    BY <1>0, <2>1, <2>3 DEF PitTypeOK
  <2> QED  BY <1>0, <2>1, <2>2, <2>4 DEF PitIInv, HalvesInv, PairsAreWhole
<1>9. CASE UNCHANGED pitVars
  BY <1>0, <1>9 DEF pitVars, PitIInv, PitTypeOK, HalvesInv, PairsAreWhole, SpeakerFollowsPorts
<1> QED  BY <1>1, <1>2, <1>3, <1>4, <1>5, <1>6, <1>7, <1>8, <1>9 DEF PitNext

----------------------------------------------------------------------------
(* Whatever a program reads and writes, and in whatever order, the word it  *)
(* reads or loads in two halves is one word.                                *)
THEOREM WordsAreWhole == PitSpec => []PairsAreWhole
<1>1. PitInit => PitIInv
  BY PitInitial
<1>2. PitIInv /\ [PitNext]_pitVars => PitIInv'
  BY PitKept
<1>3. PitIInv => PairsAreWhole
  BY DEF PitIInv
<1> QED  BY <1>1, <1>2, <1>3, PTL DEF PitSpec

(* The speaker always sounds as the ports say.                              *)
THEOREM SpeakerIsTold == PitSpec => []SpeakerFollowsPorts
<1>1. PitInit => PitIInv
  BY PitInitial
<1>2. PitIInv /\ [PitNext]_pitVars => PitIInv'
  BY PitKept
<1>3. PitIInv => SpeakerFollowsPorts
  BY DEF PitIInv
<1> QED  BY <1>1, <1>2, <1>3, PTL DEF PitSpec
=============================================================================
