---------------------------- MODULE PixelsProofs ----------------------------
(* Proofs about Pixels: convert_color for all 2^24 colours, and the two    *)
(* writes of a pixel for any rows and data.                                *)
EXTENDS Pixels, TLAPS

\* convert_color puts bit b of any 24-bit colour on pin Wire(b) and drives no other.
THEOREM ConvertWires ==
  ASSUME NEW c \in SUBSET (0..23)
  PROVE  convert_color(c) = {Wire(b) : b \in c}
<1> DEFINE t1 == Shr(c, 22) \cap (0..1)
           t2 == Shl(t1, 6) \cup (Shr(c, 17) \cap (0..4))
           t3 == Shl(t2, 2) \cup (Shr(c, 16) \cap {0})
           t4 == Shl(t3, 3) \cup (Shr(c, 14) \cap (0..1))
<1>1. t1 \subseteq 0..1 /\ \A x \in 0..1 : x \in t1 <=> x + 22 \in c
  BY DEF Shr, Word
<1> HIDE DEF t1
<1>2. /\ t2 \subseteq Int
      /\ \A x \in Int : x \in t2 <=> (x \in 0..4 /\ x + 17 \in c) \/ (x \in 6..7 /\ x + 16 \in c)
  BY <1>1 DEF Shr, Shl, Word
<1> HIDE DEF t2
<1>3. /\ t3 \subseteq Int
      /\ \A x \in Int : x \in t3 <=> \/ x = 0 /\ 16 \in c
                                     \/ x \in 2..6 /\ x + 15 \in c
                                     \/ x \in 8..9 /\ x + 14 \in c
  BY <1>2 DEF Shr, Shl, Word
<1> HIDE DEF t3
<1>4. /\ t4 \subseteq Int
      /\ \A x \in Int : x \in t4 <=> \/ x \in 0..1 /\ x + 14 \in c
                                     \/ x = 3 /\ 16 \in c
                                     \/ x \in 5..9 /\ x + 12 \in c
                                     \/ x \in 11..12 /\ x + 11 \in c
  BY <1>3 DEF Shr, Shl, Word
<1> HIDE DEF t4
<1>5. convert_color(c) = (c \cap (0..13)) \cup Shl(t4, 19)
  BY DEF convert_color, t1, t2, t3, t4
<1>6. \A x \in Int : x \in convert_color(c) <=> \/ x \in 0..13 /\ x \in c
                                                \/ x \in 19..20 /\ x - 5 \in c
                                                \/ x = 22 /\ 16 \in c
                                                \/ x \in 24..28 /\ x - 7 \in c
                                                \/ x \in 30..31 /\ x - 8 \in c
  BY <1>4, <1>5 DEF Shl, Word
<1>7. convert_color(c) \subseteq Int
  BY <1>5 DEF Shl, Word
<1>8. \A b \in c : Wire(b) \in convert_color(c)
  BY <1>6 DEF Wire
<1>9. \A x \in convert_color(c) : \E b \in c : x = Wire(b)
  BY <1>6, <1>7 DEF Wire
<1> QED
  BY <1>8, <1>9

-----------------------------------------------------------------------------
\* Every colour a literal of Memory.c turns into is on colour pins only.
LEMMA RgbOnPins == \A n : convert_color(Rgb(n)) \subseteq mask
<1> SUFFICES ASSUME NEW n PROVE convert_color(Rgb(n)) \subseteq mask
  OBVIOUS
<1>1. Rgb(n) \in SUBSET (0..23)
  BY DEF Rgb
<1>2. convert_color(Rgb(n)) = {Wire(b) : b \in Rgb(n)}
  BY <1>1, ConvertWires
<1>3. \A b \in 0..23 : Wire(b) \in mask
  BY DEF Wire, mask
<1> QED
  BY <1>1, <1>2, <1>3

\* So is every pixel.
LEMMA PixelOnPins == \A l, k : \A d \in Data : pixel(l, k, d) \subseteq mask
<1> SUFFICES ASSUME NEW l, NEW k, NEW d \in Data PROVE pixel(l, k, d) \subseteq mask
  OBVIOUS
<1>1. \A j : draw_rpm(j, d) \subseteq mask
  BY RgbOnPins DEF draw_rpm, Black, Green, Amber, Red
<1>2. \A j : draw_throttle(j, d) \subseteq mask
  BY DEF draw_throttle, Black
<1>3. d.temp \subseteq mask /\ d.gear \subseteq mask
  BY DataAssumption
<1>4. \A j : draw_temp(j, d) \subseteq mask
  BY <1>3 DEF draw_temp, Black
<1> QED
  BY <1>1, <1>2, <1>4 DEF pixel

\* PinsInv holds initially and every step keeps it.
LEMMA PinsInductive == (Init => PinsInv) /\ (PinsInv /\ [Next]_vars => PinsInv')
<1>1. Init => PinsInv
  BY DEF Init, PinsInv, PixelExact, NoFlash, DE_PIN
<1>2. ASSUME PinsInv, [Next]_vars PROVE PinsInv'
  <2>1. Colour \subseteq mask /\ DE_PIN \notin Colour
    BY <1>2, PixelOnPins DEF PinsInv, Colour, mask, DE_PIN
  <2>2. CASE SetHigh
    <3>1. Colour' = Colour /\ Before' = Before /\ i' = i /\ step' = "low"
      BY <2>2 DEF SetHigh, Colour, Before
    <3>2. PIOD' = PIOD \cup Colour /\ (i > 0 => PIOD \cap mask = Before)
      BY <1>2, <2>2 DEF SetHigh, PinsInv
    <3>3. i > 0 => PIOD' \cap mask \subseteq Before \cup Colour /\ Before \cap Colour \subseteq PIOD'
      BY <2>1, <3>2
    <3> QED
      BY <1>2, <2>1, <2>2, <3>1, <3>2, <3>3 DEF PinsInv, PixelExact, NoFlash, SetHigh
  <2>3. CASE SetLow
    <3>1. Colour' = Colour /\ Colour \subseteq PIOD
      BY <1>2, <2>3 DEF PinsInv, SetLow, Colour
    <3>2. PIOD' \cap mask = Colour
      BY <2>1, <2>3, <3>1 DEF SetLow
    <3> QED
      BY <1>2, <2>3, <3>1, <3>2 DEF PinsInv, PixelExact, SetLow
  <2>4. CASE NextPixel
    <3>1. i \in Nat /\ PIOD \cap mask = Colour
      BY <1>2, <2>4 DEF PinsInv, PixelExact, NextPixel
    <3>2. i' \in Nat /\ Before' = Colour
      BY <2>4, <3>1 DEF NextPixel, Before, Colour
    <3>3. step' # "low" /\ step' # "next"
      BY <2>4 DEF NextPixel
    <3> QED
      BY <1>2, <2>4, <3>1, <3>2, <3>3 DEF PinsInv, PixelExact, NextPixel
  <2>5. CASE NextRow
    BY <1>2, <2>5 DEF PinsInv, PixelExact, NextRow
  <2>6. CASE UNCHANGED vars
    BY <1>2, <2>6 DEF PinsInv, PixelExact, NoFlash, vars, Colour, Before
  <2> QED
    BY <1>2, <2>2, <2>3, <2>4, <2>5, <2>6 DEF Next
<1> QED
  BY <1>1, <1>2

\* While a pixel is written the pins show mixtures of it and the one before only.
THEOREM NoFlashing == Spec => []NoFlash
<1> DEFINE StepType == step \in {"high", "low", "next", "row"}
<1>1. Init => StepType
  BY DEF Init
<1>2. StepType /\ [Next]_vars => StepType'
  BY DEF Next, SetHigh, SetLow, NextPixel, NextRow, vars
<1>3. PinsInv /\ StepType => NoFlash
  <2>1. ASSUME PinsInv, i > 0, step \in {"high", "next"}
        PROVE  PIOD \cap mask \subseteq Before \cup Colour /\ Before \cap Colour \subseteq PIOD
    <3>1. Colour \subseteq mask /\ Before \subseteq mask
      BY <2>1, PixelOnPins DEF PinsInv, Colour, Before
    <3>2. PIOD \cap mask = Before \/ PIOD \cap mask = Colour
      BY <2>1 DEF PinsInv, PixelExact
    <3> QED
      BY <3>1, <3>2
  <2> QED
    BY <2>1 DEF PinsInv, NoFlash
<1> QED
  BY <1>1, <1>2, <1>3, PinsInductive, PTL DEF Spec

\* After both writes the colour pins are exactly the pixel's, for any rows and data.
THEOREM ExactPins == Spec => []PixelExact
<1>1. PinsInv => PixelExact
  BY DEF PinsInv
<1> QED
  BY <1>1, PinsInductive, PTL DEF Spec

\* Every lit pixel of the rpm bar shows its literal of set_GAR on the display's inputs.
THEOREM ColoursShown == Spec => []ColoursWired
<1>1. PinsInv => ColoursWired
  <2> SUFFICES ASSUME PinsInv, step = "next", line < 150, i <= data.rpm
               PROVE  PIOD \cap mask = {Wire(b) : b \in Rgb(IF i < 218 THEN 2328611
                                              ELSE IF i < 326 THEN 49151 ELSE 2958034)}
    BY DEF ColoursWired
  <2>1. i \in Nat /\ data.rpm \in Nat
    BY DataAssumption DEF PinsInv
  <2>2. PIOD \cap mask = draw_rpm(i, data)
    BY DEF PinsInv, PixelExact, Colour, pixel
  <2>3. draw_rpm(i, data) = convert_color(Rgb(IF i < 218 THEN 2328611
                                              ELSE IF i < 326 THEN 49151 ELSE 2958034))
    BY <2>1 DEF draw_rpm, Green, Amber, Red
  <2>4. \A n : convert_color(Rgb(n)) = {Wire(b) : b \in Rgb(n)}
    BY ConvertWires DEF Rgb
  <2> QED
    BY <2>2, <2>3, <2>4
<1> QED
  BY <1>1, PinsInductive, PTL DEF Spec

\* Painting never moves DE or any other pin that is not a colour pin.
THEOREM OthersKept == Spec => OtherPinsKept
<1>1. PinsInv /\ [Next]_vars => [PIOD' \ mask = PIOD \ mask]_PIOD
  <2> SUFFICES ASSUME PinsInv, [Next]_vars PROVE PIOD' \ mask = PIOD \ mask
    OBVIOUS
  <2>1. Colour \subseteq mask
    BY PixelOnPins DEF PinsInv, Colour
  <2>2. CASE SetHigh
    BY <2>1, <2>2 DEF SetHigh
  <2>3. CASE SetLow
    BY <2>3 DEF SetLow
  <2>4. CASE NextPixel \/ NextRow \/ UNCHANGED vars
    BY <2>4 DEF NextPixel, NextRow, vars, PinsInv
  <2> QED
    BY <2>2, <2>3, <2>4 DEF Next
<1> QED
  BY <1>1, PinsInductive, PTL DEF Spec, OtherPinsKept

-----------------------------------------------------------------------------
(* The length of a bar.                                                    *)

\* No colour of the bars is black.
LEMMA BarsNotBlack == Green # Black /\ Amber # Black /\ Red # Black /\ mask # Black
<1>1. 0 \in Rgb(2328611) /\ 0 \in Rgb(49151)
  <2>1. 2^0 = 1
    OBVIOUS
  <2> QED
    BY <2>1 DEF Rgb
<1>2. 1 \in Rgb(2958034)
  <2>1. 2^1 = 2
    OBVIOUS
  <2> QED
    BY <2>1 DEF Rgb
<1>3. \A n : Rgb(n) \in SUBSET (0..23)
  BY DEF Rgb
<1>4. \A n : Rgb(n) # {} => convert_color(Rgb(n)) # {}
  BY <1>3, ConvertWires
<1>5. 0 \in mask
  BY DEF mask
<1> QED
  BY <1>1, <1>2, <1>4, <1>5 DEF Green, Amber, Red, Black

Value == IF line < 150 THEN data.rpm ELSE data.tps
Done  == CASE step \in {"high", "low"} -> i
           [] step = "next" -> i + 1
           [] OTHER -> 472
Lit(n) == IF n > Value + 1 THEN Value + 1 ELSE n

\* What lit counts: of the pixels that are done, those up to the value.
LitInv ==
  /\ data \in Data /\ i \in Nat /\ step \in {"high", "low", "next", "row"}
  /\ step # "row" => i < 472
  /\ line < 180 => lit = Lit(Done)

\* A pixel of a bar is lit if and only if it is not beyond the value.
LEMMA LitPixel ==
  ASSUME LitInv, line < 180
  PROVE  Colour # Black <=> i <= Value
<1>1. data.rpm \in Nat /\ data.tps \in Nat /\ i \in Nat
  BY DataAssumption DEF LitInv
<1>2. draw_rpm(i, data) # Black <=> i <= data.rpm
  BY <1>1, BarsNotBlack DEF draw_rpm
<1>3. draw_throttle(i, data) # Black <=> i <= data.tps
  BY <1>1, BarsNotBlack DEF draw_throttle
<1>4. CASE i = 0
  BY <1>1, <1>2, <1>4 DEF Colour, pixel, Value
<1>5. CASE i # 0 /\ line < 150
  BY <1>2, <1>5 DEF Colour, pixel, Value
<1>6. CASE i # 0 /\ ~(line < 150)
  BY <1>3, <1>6 DEF Colour, pixel, Value
<1> QED
  BY <1>4, <1>5, <1>6

LEMMA LitInductive == (Init => LitInv) /\ (LitInv /\ [Next]_vars => LitInv')
<1>1. Init => LitInv
  BY DataAssumption DEF Init, LitInv, Lit, Done, Value
<1>2. ASSUME LitInv, [Next]_vars PROVE LitInv'
  <2> USE <1>2 DEF LitInv, Lit, Done, Value
  <2>1. data.rpm \in Nat /\ data.tps \in Nat
    BY DataAssumption
  <2>2. CASE SetHigh
    BY <2>2 DEF SetHigh
  <2>3. CASE SetLow
    BY <2>1, <2>3, LitPixel DEF SetLow
  <2>4. CASE NextPixel
    BY <2>1, <2>4 DEF NextPixel
  <2>5. CASE NextRow
    BY <2>5, DataAssumption DEF NextRow
  <2>6. CASE UNCHANGED vars
    BY <2>6 DEF vars
  <2> QED
    BY <2>2, <2>3, <2>4, <2>5, <2>6 DEF Next
<1> QED
  BY <1>1, <1>2

\* Every bar is as long as its value says, for any rows and data.
THEOREM BarsExact == Spec => []BarLength
<1>1. LitInv => BarLength
  BY DataAssumption DEF LitInv, Lit, Done, Value, BarLength
<1> QED
  BY <1>1, LitInductive, PTL DEF Spec
=============================================================================
