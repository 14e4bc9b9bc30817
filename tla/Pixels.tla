------------------------------- MODULE Pixels -------------------------------
(***************************************************************************)
(* What one row looks like on the 24 colour pins of PIOD: convert_color    *)
(* and set_GAR of src/Memory.c, and the loop of TC7_Handler with the draw  *)
(* functions of src/Controller.c.                                          *)
(*                                                                         *)
(* A word is the set of its one bits.  Each pixel is written in two steps, *)
(* first the pins that go high, then the pins that go low, and PIOD also   *)
(* carries pins that are not the picture's, such as DE on bit 21.          *)
(***************************************************************************)
EXTENDS Integers, FiniteSets

CONSTANTS
  Rows,    \* the values of line looked at
  Data     \* [rpm, tps, temp, gear]: CAN_data[0], CAN_data[3], the two colours

Word == 0..31
Shl(w, n) == {b \in Word : b - n \in w}
Shr(w, n) == {b \in Word : b + n \in w}

\* The bits of a 24-bit literal.
Rgb(n) == {b \in 0..23 : (n \div 2^b) % 2 = 1}

\* The 24 pins of PIOD wired to the display's colour inputs.
mask == (0..13) \cup {19, 20, 22} \cup (24..28) \cup {30, 31}

DE_PIN == 21

\* Mutant: bits 17 to 21 are masked by 0xF.
convert_narrow(c) ==
  LET t1 == Shr(c, 22) \cap (0..1)
      t2 == Shl(t1, 6) \cup (Shr(c, 17) \cap (0..3))
      t3 == Shl(t2, 2) \cup (Shr(c, 16) \cap {0})
      t4 == Shl(t3, 3) \cup (Shr(c, 14) \cap (0..1))
  IN  (c \cap (0..13)) \cup Shl(t4, 19)

convert_color(c) ==
  LET t1 == Shr(c, 22) \cap (0..1)
      t2 == Shl(t1, 6) \cup (Shr(c, 17) \cap (0..4))
      t3 == Shl(t2, 2) \cup (Shr(c, 16) \cap {0})
      t4 == Shl(t3, 3) \cup (Shr(c, 14) \cap (0..1))
  IN  (c \cap (0..13)) \cup Shl(t4, 19)

\* GAR: green 0x238823, amber 0x00BFFF, red 0x2D22D2; and B, blue 0xFF9A2E.
Green == convert_color(Rgb(2328611))
Amber == convert_color(Rgb(49151))
Red   == convert_color(Rgb(2958034))
Blue  == convert_color(Rgb(16751150))
Black == {}

\* Both colours of the data are colours of convert_color, or still 0.
ASSUME DataAssumption ==
  Data \subseteq [rpm: Nat, tps: Nat, temp: SUBSET mask, gear: SUBSET mask]

-----------------------------------------------------------------------------
(* The draw functions: the colour of pixel i, from the data d.             *)

draw_rpm(i, d) ==
  CASE i > d.rpm -> Black
    [] i <= d.rpm /\ i < 218 -> Green
    [] i <= d.rpm /\ i >= 218 /\ i < 326 -> Amber
    [] OTHER -> Red

draw_throttle(i, d) == IF i > d.tps THEN Black ELSE mask

draw_temp(i, d) == IF i < 100 THEN d.temp ELSE IF i < 400 THEN d.gear ELSE Black

\* Mutant: the rpm bar is one pixel short.
pixel_short(l, i, d) ==
  IF i = 0 THEN draw_rpm(0, d)
  ELSE IF l < 150 THEN draw_rpm(i + 1, d)
  ELSE IF l < 180 THEN draw_throttle(i, d) ELSE draw_temp(i, d)

\* Pixel i of row l: the first pixel of every row is draw_rpm's.
pixel(l, i, d) ==
  IF i = 0 THEN draw_rpm(0, d)
  ELSE IF l < 150 THEN draw_rpm(i, d)
  ELSE IF l < 180 THEN draw_throttle(i, d) ELSE draw_temp(i, d)

-----------------------------------------------------------------------------
VARIABLES
  PIOD,    \* the pins that are high
  line, i, \* TC7_Handler's row and pixel
  step,    \* "high", "low" (the two writes of pixel i), then "next"; "row" between rows
  data,    \* what the row is painted from
  lit      \* history: pixels of the row, so far, that are not black

vars == <<PIOD, line, i, step, data, lit>>

Colour == pixel(line, i, data)

\* configure_out has driven the colour pins and DE low; the others, such as the card
\* detect on bit 18, may be either.
Init ==
  /\ PIOD \in {{}, {18}}
  /\ line \in Rows /\ i = 0 /\ step = "high"
  /\ data \in Data /\ lit = 0

\* Mutant: all colour pins are raised, to be cleared again where the colour is 0.
RaiseAll ==
  /\ step = "high"
  /\ PIOD' = PIOD \cup mask
  /\ step' = "low"
  /\ UNCHANGED <<line, i, data, lit>>

\* ioport_set_port_level(IOPORT_PIOD, color, 1); draw_black leaves it out.
SetHigh ==
  /\ step = "high"
  /\ PIOD' = PIOD \cup Colour
  /\ step' = "low"
  /\ UNCHANGED <<line, i, data, lit>>

\* Mutant: ~color without & mask.
SetAllLow ==
  /\ step = "low"
  /\ PIOD' = PIOD \cap Colour
  /\ step' = "next"
  /\ lit' = IF Colour # Black THEN lit + 1 ELSE lit
  /\ UNCHANGED <<line, i, data>>

\* Mutant: no pin is cleared.
SkipLow ==
  /\ step = "low"
  /\ step' = "next"
  /\ lit' = IF Colour # Black THEN lit + 1 ELSE lit
  /\ UNCHANGED <<PIOD, line, i, data>>

\* ioport_set_port_level(IOPORT_PIOD, ~color & mask, 0)
SetLow ==
  /\ step = "low"
  /\ PIOD' = PIOD \ (mask \ Colour)
  /\ step' = "next"
  /\ lit' = IF Colour # Black THEN lit + 1 ELSE lit
  /\ UNCHANGED <<line, i, data>>

NextPixel ==
  /\ step = "next"
  /\ i' = i + 1
  /\ step' = IF i' = 472 THEN "row" ELSE "high"
  /\ UNCHANGED <<PIOD, line, data, lit>>

\* gpio_set_pin_low(DE_PIN); then another row, perhaps of a later image.
NextRow ==
  /\ step = "row"
  /\ PIOD' = PIOD \ {DE_PIN}
  /\ line' \in Rows /\ data' \in Data
  /\ i' = 0 /\ lit' = 0 /\ step' = "high"

Next == SetHigh \/ SetLow \/ NextPixel \/ NextRow
Spec == Init /\ [][Next]_vars

-----------------------------------------------------------------------------
TypeOK ==
  /\ PIOD \subseteq Word
  /\ line \in Rows /\ i \in 0..472 /\ data \in Data /\ lit \in 0..472
  /\ step \in {"high", "low", "next", "row"}

\* The bar of a row is as long as its value n says: pixels 0 to n are lit and the
\* rest are black, the bar stopping at the right edge; and an engine at full speed
\* (byte 255, CAN_data[0] = 471) lights the whole row.
BarLength ==
  step = "row" /\ line < 180 =>
    LET n == IF line < 150 THEN data.rpm ELSE data.tps
    IN  lit = IF n > 471 THEN 472 ELSE n + 1

\* Neither the picture nor the two-step writes ever move a pin of PIOD that is not a
\* colour pin; DE in particular stays low, although it is driven low after every row.
OtherPinsKept == [][PIOD' \ mask = PIOD \ mask]_PIOD

Before == pixel(line, i - 1, data)

\* While a pixel is written the pins pass through nothing but mixtures of its colour
\* and the one before: a pin that both have stays high, and a pin that neither has
\* stays low, so no dark gap and no flash is between them.
NoFlash ==
  i > 0 /\ step # "row" => /\ PIOD \cap mask \subseteq Before \cup Colour
                           /\ Before \cap Colour \subseteq PIOD

\* After both writes the colour pins are exactly the pixel's, whatever was there.
PixelExact == step = "next" => PIOD \cap mask = Colour

\* Bit b of a colour belongs on the b-th colour pin: the pins of mask, counted upwards.
Wire(b) == CASE b < 14 -> b
             [] b \in 14..15 -> b + 5
             [] b = 16 -> 22
             [] b \in 17..21 -> b + 7
             [] OTHER -> b + 8

\* A lit pixel of the rpm bar shows the literal of set_GAR for its third of the bar,
\* bit for bit on the display's inputs: no shift of convert_color loses a bit or lets
\* one spill into a neighbouring field, and no write leaves one behind.
ColoursWired ==
  step = "next" /\ line < 150 /\ i <= data.rpm =>
    LET rgb == IF i < 218 THEN 2328611 ELSE IF i < 326 THEN 49151 ELSE 2958034
    IN  PIOD \cap mask = {Wire(b) : b \in Rgb(rgb)}

\* Why the pins are exact (proved in PixelsProofs): before the first write they are
\* those of the pixel before, and after it none of the pixel's is missing.
PinsInv ==
  /\ DE_PIN \notin PIOD
  /\ data \in Data /\ i \in Nat
  /\ step = "high" /\ i > 0 => PIOD \cap mask = Before
  /\ step = "low" => Colour \subseteq PIOD /\ NoFlash
  /\ PixelExact
=============================================================================
