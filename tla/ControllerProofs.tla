-------------------------- MODULE ControllerProofs --------------------------
(***************************************************************************)
(* Proofs about Controller, for every geometry, timing and budget: the     *)
(* types hold, no row beyond the last is painted, the handlers implement   *)
(* the abstract Image, and so every image is painted from one version of   *)
(* the data, even when rows overrun their lines and TC8 preempts TC7.      *)
(* When they do not (OnTime), every row begins in its line and every frame *)
(* is complete when the next begins.                                       *)
(***************************************************************************)
EXTENDS Controller, TLAPS

\* What TypeOK needs beside itself: a row is only painted when line was below
\* LINES, and a store of line++ only follows such a load.
RowInv == TypeOK /\ NoRowBeyondLast

LEMMA PeriodPositive == PERIOD \in Nat /\ PERIOD > 0
<1>1. (PRE + LINES + POST) \in Nat /\ PRE + LINES + POST > 0
  BY TimingAssumption
<1>2. \A a, b \in Nat : a > 0 /\ b > 0 => a * b \in Nat /\ a * b > 0
  BY SMT
<1> QED
  BY <1>1, <1>2, TimingAssumption DEF PERIOD

LEMMA RowInit == Init => RowInv
<1>1. Init => SignalsOK
  BY Zenon DEF Init, SignalsOK
<1> QED
  BY <1>1, PeriodPositive, TimingAssumption DEF Init, RowInv, TypeOK, NoRowBeyondLast

\* The two-valued signals: registers, NVIC bits and the history flag.
LEMMA SignalsStep == SignalsOK /\ [Next]_vars => SignalsOK'
<1> SUFFICES ASSUME SignalsOK, [Next]_vars PROVE SignalsOK'
  OBVIOUS
<1>1. CASE Tick
  BY <1>1, Zenon DEF Tick, SignalsOK, timerVars, cpuVars
<1>2. CASE Enter8
  BY <1>2, Zenon DEF Enter8, SignalsOK, timerVars, cpuVars
<1>3. CASE Enter7
  BY <1>3, Zenon DEF Enter7, SignalsOK, timerVars, cpuVars
<1>4. CASE Status8
  BY <1>4, Zenon DEF Status8, SignalsOK, timerVars, cpuVars
<1>5. CASE ClearOfftime
  BY <1>5, Zenon DEF ClearOfftime, SignalsOK, timerVars, cpuVars
<1>6. CASE ResetLine
  BY <1>6, Zenon DEF ResetLine, SignalsOK, timerVars, cpuVars
<1>7. CASE Enable7
  BY <1>7, Zenon DEF Enable7, SignalsOK, timerVars, cpuVars
<1>8. CASE Status7
  BY <1>8, Zenon DEF Status7, SignalsOK, timerVars, cpuVars
<1>9. CASE TestLine
  BY <1>9, Zenon DEF TestLine, SignalsOK, timerVars, cpuVars
<1>10. CASE DrawPixel
  BY <1>10, Zenon DEF DrawPixel, SignalsOK, timerVars, cpuVars
<1>11. CASE LoadLine
  BY <1>11, Zenon DEF LoadLine, SignalsOK, timerVars, cpuVars
<1>12. CASE StoreLine
  BY <1>12, SMT DEF StoreLine, SignalsOK, timerVars, cpuVars
<1>13. CASE Disable7
  BY <1>13, Zenon DEF Disable7, SignalsOK, timerVars, cpuVars
<1>14. CASE SetOfftime
  BY <1>14, Zenon DEF SetOfftime, SignalsOK, timerVars, cpuVars
<1>15. CASE Call
  BY <1>15, Zenon DEF Call, SignalsOK, timerVars, cpuVars
<1>16. CASE Publish
  BY <1>16, Zenon DEF Publish, SignalsOK, timerVars, cpuVars
<1>17. CASE Return7
  BY <1>17, Zenon DEF Return7, SignalsOK, timerVars, cpuVars
<1>18. CASE UNCHANGED vars
  BY <1>18, Zenon DEF vars, SignalsOK, timerVars, cpuVars
<1> QED
  BY <1>1, <1>2, <1>3, <1>4, <1>5, <1>6, <1>7, <1>8, <1>9, <1>10, <1>11,
     <1>12, <1>13, <1>14, <1>15, <1>16, <1>17, <1>18
  DEF Next, Interrupts, TC8_Handler, TC7_Handler

\* Every step keeps the types and paints no row beyond the last.
LEMMA RowStep == RowInv /\ [Next]_vars => RowInv'
<1> SUFFICES ASSUME RowInv, [Next]_vars PROVE RowInv'
  OBVIOUS
<1> USE TimingAssumption DEF RowInv, NoRowBeyondLast
<1>0. SignalsOK'
  BY SignalsStep DEF TypeOK
<1>1. CASE Tick
  <2>1. now' \in Nat /\ now' < PERIOD
    <3>1. now + 1 \in Nat
      BY DEF TypeOK
    <3>2. \A a, b \in Nat : b > 0 => a % b \in Nat /\ a % b < b
      BY SMT
    <3>3. now' = (now + 1) % PERIOD
      BY <1>1 DEF Tick
    <3> QED
      BY <3>1, <3>2, <3>3, PeriodPositive
  <2>2. spent7' \in Nat /\ (spent7' <= E7 \/ spent7' <= D7 \/ spent7' <= R7)
    BY <1>1 DEF Tick, TypeOK, Budget7
  <2>3. spent8' \in Nat /\ spent8' <= D8
    BY <1>1 DEF Tick, TypeOK
  <2> QED
    BY <1>0, <1>1, <2>1, <2>2, <2>3 DEF Tick, TypeOK, memVars
<1>2. CASE Enter8
  BY <1>0, <1>2 DEF Enter8, TypeOK, timerVars, memVars
<1>3. CASE Enter7
  BY <1>0, <1>3 DEF Enter7, TypeOK, timerVars, memVars
<1>4. CASE Status8
  BY <1>0, <1>4 DEF Status8, TypeOK, timerVars, memVars
<1>5. CASE ClearOfftime
  BY <1>0, <1>5 DEF ClearOfftime, TypeOK, timerVars, memVars
<1>6. CASE ResetLine
  BY <1>0, <1>6 DEF ResetLine, TypeOK, timerVars, memVars
<1>7. CASE Enable7
  BY <1>0, <1>7 DEF Enable7, TypeOK, timerVars, memVars
<1>8. CASE Status7
  BY <1>0, <1>8 DEF Status7, TypeOK, timerVars, memVars
<1>9. CASE TestLine
  BY <1>0, <1>9 DEF TestLine, TypeOK, timerVars, memVars
<1>10. CASE DrawPixel
  BY <1>0, <1>10 DEF DrawPixel, TypeOK, timerVars, memVars
<1>11. CASE LoadLine
  BY <1>0, <1>11 DEF LoadLine, TypeOK, timerVars, memVars
<1>12. CASE StoreLine
  <2>1. \A n \in Nat : n < 65536 => n % 65536 = n
    BY SMT
  <2>2. line' = tmp + 1
    BY <1>12, <2>1 DEF StoreLine, TypeOK
  <2> QED
    BY <1>0, <1>12, <2>2 DEF StoreLine, TypeOK, timerVars
<1>13. CASE Disable7
  BY <1>0, <1>13 DEF Disable7, TypeOK, timerVars, memVars
<1>14. CASE SetOfftime
  BY <1>0, <1>14 DEF SetOfftime, TypeOK, timerVars, memVars
<1>15. CASE Call
  BY <1>0, <1>15 DEF Call, TypeOK, timerVars, memVars
<1>16. CASE Publish
  BY <1>0, <1>16 DEF Publish, TypeOK, timerVars, cpuVars
<1>17. CASE Return7
  BY <1>0, <1>17 DEF Return7, TypeOK, timerVars, memVars
<1>18. CASE UNCHANGED vars
  BY <1>0, <1>18 DEF vars, TypeOK, timerVars, cpuVars, memVars
<1> QED
  BY <1>1, <1>2, <1>3, <1>4, <1>5, <1>6, <1>7, <1>8, <1>9, <1>10, <1>11,
     <1>12, <1>13, <1>14, <1>15, <1>16, <1>17, <1>18
  DEF Next, Interrupts, TC8_Handler, TC7_Handler

\* Type correctness, for every geometry and timing: line never exceeds LINES,
\* also when TC8's reset of it is overwritten by TC7's store.
THEOREM TypeCorrect == Spec => []TypeOK
<1>1. RowInv => TypeOK
  BY DEF RowInv
<1> QED
  BY RowInit, RowStep, <1>1, PTL DEF Spec

\* No row beyond the last is painted, in every interleaving of TC7 and TC8.
THEOREM RowsBounded == Spec => []NoRowBeyondLast
<1>1. RowInv => NoRowBeyondLast
  BY DEF RowInv
<1> QED
  BY RowInit, RowStep, <1>1, PTL DEF Spec

-----------------------------------------------------------------------------
\* Painting needs TC7 on, and TC7 cannot come on again between its turning off
\* and the end of can_receive without the image having begun anew.
LEMMA GateInit == Init => GateInv
  BY Zenon DEF Init, GateInv

LEMMA GateStep == GateInv /\ [Next]_vars => GateInv'
<1> SUFFICES ASSUME GateInv, [Next]_vars PROVE GateInv'
  OBVIOUS
<1> USE DEF GateInv, timerVars, cpuVars, memVars, Run7, Run8, Take7, Take8
<1>1. CASE Tick
  BY <1>1 DEF Tick
<1>2. CASE Enter8
  BY <1>2 DEF Enter8
<1>3. CASE Enter7
  BY <1>3 DEF Enter7
<1>4. CASE Status8
  BY <1>4 DEF Status8
<1>5. CASE ClearOfftime
  BY <1>5 DEF ClearOfftime
<1>6. CASE ResetLine
  BY <1>6 DEF ResetLine
<1>7. CASE Enable7
  BY <1>7 DEF Enable7
<1>8. CASE Status7
  BY <1>8 DEF Status7
<1>9. CASE TestLine
  BY <1>9 DEF TestLine
<1>10. CASE DrawPixel
  BY <1>10 DEF DrawPixel
<1>11. CASE LoadLine
  BY <1>11 DEF LoadLine
<1>12. CASE StoreLine
  BY <1>12 DEF StoreLine
<1>13. CASE Disable7
  BY <1>13 DEF Disable7
<1>14. CASE SetOfftime
  BY <1>14 DEF SetOfftime
<1>15. CASE Call
  BY <1>15 DEF Call
<1>16. CASE Publish
  BY <1>16 DEF Publish
<1>17. CASE Return7
  BY <1>17 DEF Return7
<1>18. CASE UNCHANGED vars
  BY <1>18 DEF vars
<1> HIDE DEF GateInv, timerVars, cpuVars, memVars, Run7, Run8, Take7, Take8
<1> QED
  BY <1>1, <1>2, <1>3, <1>4, <1>5, <1>6, <1>7, <1>8, <1>9, <1>10, <1>11,
     <1>12, <1>13, <1>14, <1>15, <1>16, <1>17, <1>18
  DEF Next, Interrupts, TC8_Handler, TC7_Handler

\* Each step of the handlers and timers is a step of Image, or changes nothing
\* that Image sees.
LEMMA ImageStep == GateInv /\ [Next]_vars => [ImageOf!Next]_(ImageOf!vars)
<1> SUFFICES ASSUME GateInv, [Next]_vars PROVE [ImageOf!Next]_(ImageOf!vars)
  OBVIOUS
<1> USE DEF ImageOf!Next, ImageOf!vars, timerVars, cpuVars, memVars
<1>1. CASE Tick
  BY <1>1 DEF Tick
<1>2. CASE Enter8
  BY <1>2 DEF Enter8
<1>3. CASE Enter7
  BY <1>3 DEF Enter7
<1>4. CASE Status8
  BY <1>4 DEF Status8
<1>5. CASE ClearOfftime
  BY <1>5 DEF ClearOfftime
<1>6. CASE ResetLine
  BY <1>6 DEF ResetLine, GateInv, ImageOf!Begin
<1>7. CASE Enable7
  BY <1>7 DEF Enable7, GateInv, ImageOf!Start
<1>8. CASE Status7
  BY <1>8 DEF Status7
<1>9. CASE TestLine
  BY <1>9 DEF TestLine
<1>10. CASE DrawPixel
  BY <1>10 DEF DrawPixel, GateInv, ImageOf!Paint
<1>11. CASE LoadLine
  BY <1>11 DEF LoadLine
<1>12. CASE StoreLine
  BY <1>12 DEF StoreLine
<1>13. CASE Disable7
  BY <1>13 DEF Disable7, GateInv, ImageOf!End
<1>14. CASE SetOfftime
  BY <1>14 DEF SetOfftime
<1>15. CASE Call
  BY <1>15 DEF Call
<1>16. CASE Publish
  BY <1>16 DEF Publish, GateInv, ImageOf!Update
<1>17. CASE Return7
  BY <1>17 DEF Return7
<1>18. CASE UNCHANGED vars
  BY <1>18 DEF vars
<1> HIDE DEF ImageOf!Next, ImageOf!vars, timerVars, cpuVars, memVars
<1> QED
  BY <1>1, <1>2, <1>3, <1>4, <1>5, <1>6, <1>7, <1>8, <1>9, <1>10, <1>11,
     <1>12, <1>13, <1>14, <1>15, <1>16, <1>17, <1>18
  DEF Next, Interrupts, TC8_Handler, TC7_Handler

\* The interrupt handlers implement Image: every image is painted between a
\* reset and the next, and the data changes only where Image lets it.
THEOREM ControllerImplementsImage == Spec => ImplementsImage
<1>1. Init => ImageOf!Init
  BY Zenon DEF Init, ImageOf!Init
<1> QED
  BY <1>1, GateInit, GateStep, ImageStep, PTL DEF Spec, ImplementsImage, ImageOf!Spec

\* What Image guarantees: while rows may be painted, all painted so far are from
\* the present data.
LEMMA ImageTearFree == ImageOf!Spec => []TearFree
<1> DEFINE Whole == TearFree /\ (en7 => shown \subseteq {data})
<1>1. ImageOf!Init => Whole
  BY DEF ImageOf!Init, TearFree
<1>2. Whole /\ [ImageOf!Next]_(ImageOf!vars) => Whole'
  <2> SUFFICES ASSUME Whole, [ImageOf!Next]_(ImageOf!vars) PROVE Whole'
    OBVIOUS
  <2> USE DEF TearFree
  <2>1. CASE ImageOf!Begin
    BY <2>1 DEF ImageOf!Begin
  <2>2. CASE ImageOf!Start
    BY <2>2 DEF ImageOf!Start
  <2>3. CASE ImageOf!Paint
    BY <2>3 DEF ImageOf!Paint
  <2>4. CASE ImageOf!End
    BY <2>4 DEF ImageOf!End
  <2>5. CASE ImageOf!Update
    BY <2>5 DEF ImageOf!Update
  <2>6. CASE UNCHANGED ImageOf!vars
    BY <2>6 DEF ImageOf!vars
  <2> QED
    BY <2>1, <2>2, <2>3, <2>4, <2>5, <2>6 DEF ImageOf!Next
<1>3. Whole => TearFree
  OBVIOUS
<1> QED
  BY <1>1, <1>2, <1>3, PTL DEF ImageOf!Spec

\* No image shows two versions of the data, for every geometry and timing: not
\* when rows overrun, not when TC8 preempts can_receive, not when an enable or a
\* reset of line is lost.
THEOREM ImagesAreWhole == Spec => []TearFree
  BY ControllerImplementsImage, ImageTearFree, PTL DEF ImplementsImage
-----------------------------------------------------------------------------
(* Frames on time.  Every row is painted within its line and can_receive   *)
(* returns before the next frame.                                          *)

OnTime ==
  /\ RB7 <= DELAY                               \* TC8 turns TC7 on past the compare
  /\ D8 < H                                     \* in the first line,
  /\ D8 + E7 < H + RB7 /\ D8 + D7 <= H + RB7    \* and leaves time for the first row
  /\ RB7 + E7 < (POST + PRE) * H /\ RB7 + R7 < (POST + PRE) * H

\* Where the timers are: ticks into the line, lines and ticks since the frame interrupt.
TOTAL == PRE + LINES + POST
InLine == now % H
Lines == LET l == now \div H IN IF l >= PRE THEN l - PRE ELSE l + LINES + POST
Age == IF now >= PRE * H THEN now - PRE * H ELSE now + (LINES + POST) * H

\* Ticks since line n after the frame interrupt began, in that line and the next.
Since(n) == IF Lines = n THEN InLine ELSE H + InLine
Around(n) == Lines \in {n, n + 1}

\* The latest tick at which row n begins: the first one waits for TC8.
Late(n) == IF n = 0 THEN D8 ELSE RB7

\* Before the first frame, and from the end of can_receive to the next frame.
Resting ==
  /\ pc7 = "idle" /\ ~en7 /\ (flag7 => pend7)
  /\ pc8 = "idle" /\ ~pend8 /\ ~flag8
  /\ IF started THEN line = LINES /\ offtime = 1 /\ Age >= LINES * H + RB7
     ELSE now < PRE * H

\* TC8_Handler, and the request for it.
AtVsync ==
  /\ pc7 = "idle" /\ ~en7 /\ (flag7 => pend7)
  /\ Lines = 0 /\ (InLine >= RB7 => pend7)
  /\ \/ pend8 /\ pc8 = "idle" /\ InLine = 0
     \/ ~pend8 /\ pc8 # "idle" /\ InLine = spent8
  /\ (flag8 <=> pend8 \/ pc8 = "status")
  /\ pc8 \in {"idle", "status"} /\ started => line = LINES /\ offtime = 1
  /\ pc8 \in {"reset", "enable"} => offtime = 0
  /\ pc8 = "enable" => line = 0 /\ started

Rows ==
  /\ pc8 = "idle" /\ ~pend8 /\ ~flag8 /\ en7 /\ started /\ offtime = 0

\* The next row is to begin, or waited for.
BetweenRows ==
  /\ Rows /\ pc7 = "idle"
  /\ IF pend7 THEN Lines = line /\ RB7 <= InLine /\ InLine <= Late(line)
     ELSE /\ line > 0 /\ ~flag7 /\ Around(line - 1)
          /\ RB7 <= Since(line - 1) /\ Since(line - 1) < H + RB7

\* Row n is being painted.
InRow(n) ==
  /\ Around(n) /\ RB7 <= Since(n) /\ Since(n) <= Late(n) + spent7
  /\ IF pc7 = "status" THEN ~pend7 /\ spent7 <= E7
     ELSE /\ (flag7 <=> pend7) /\ (pend7 <=> Since(n) = H + RB7)
          /\ spent7 <= E7 \/ spent7 <= D7

Painting ==
  /\ Rows
  /\ \/ /\ pc7 \in {"status", "test", "draw", "load", "store"}
        /\ line < LINES /\ InRow(line)
        /\ pc7 = "test" => spent7 <= E7
        /\ pc7 = "store" => tmp = line
     \/ pc7 = "return" /\ line > 0 /\ InRow(line - 1)

\* After the last row, up to the return from can_receive.
Receiving ==
  /\ pc8 = "idle" /\ ~pend8 /\ ~flag8 /\ started /\ line = LINES
  /\ pc7 \in {"status", "test", "disable", "offtime", "call", "receive"}
  /\ (en7 <=> pc7 \in {"status", "test", "disable"})
  /\ offtime = (IF pc7 \in {"call", "receive"} THEN 1 ELSE 0)
  /\ Age = LINES * H + RB7 + spent7 
  /\ (spent7 <= E7 \/ spent7 <= R7) /\ (pc7 \in {"status", "test"} => spent7 <= E7)

Schedule == Resting \/ AtVsync \/ BetweenRows \/ Painting \/ Receiving

LEMMA Quotient ==
  ASSUME NEW q \in Int, NEW r \in Int, 0 <= r, r < H
  PROVE  (q * H + r) \div H = q /\ (q * H + r) % H = r
<1>1. \A a \in Int, b \in Int, c \in Int : a > 0 /\ 0 <= c /\ c < a =>
         (b * a + c) \div a = b /\ (b * a + c) % a = c
  OBVIOUS
<1> QED  BY <1>1, TimingAssumption

\* The line and the tick in it make up the time.
Measured == \E q \in Nat, r \in Nat : r < H /\ now = q * H + r

LEMMA Measure ==
  ASSUME Measured
  PROVE  /\ now = (now \div H) * H + InLine
         /\ now \div H \in Nat /\ InLine \in Nat /\ InLine < H
<1>1. PICK q \in Nat, r \in Nat : r < H /\ now = q * H + r
  BY DEF Measured
<1>2. now \div H = q /\ now % H = r
  BY <1>1, Quotient
<1> QED  BY <1>1, <1>2 DEF InLine

LEMMA Monotone == \A a, b \in Int : /\ a * H \in Int
                                    /\ a < b <=> a * H < b * H
                                    /\ a <= b <=> a * H <= b * H
                                    /\ a + 1 <= b <=> a * H + H <= b * H
                                    /\ (a + b) * H = a * H + b * H
<1>1. \A a, b, c \in Int : c > 0 => /\ a * c \in Int
                                    /\ a < b <=> a * c < b * c
                                    /\ a <= b <=> a * c <= b * c
                                    /\ a + 1 <= b <=> a * c + c <= b * c
                                    /\ (a + b) * c = a * c + b * c
  OBVIOUS
<1> QED  BY <1>1, TimingAssumption

\* The place of the timers in the frame.
LEMMA Place ==
  ASSUME Measured, now \in Nat, now < PERIOD
  PROVE  /\ InLine \in Nat /\ InLine < H
         /\ Lines \in Nat /\ Lines < TOTAL
         /\ Age \in Nat /\ Age < PERIOD /\ Age = Lines * H + InLine
         /\ now < PRE * H => Age = now + (LINES + POST) * H /\ Lines >= LINES + POST
         /\ now >= PRE * H => Age = now - PRE * H /\ now \div H = PRE + Lines
<1> DEFINE l == now \div H
<1>1. /\ now = l * H + InLine /\ l \in Nat /\ InLine \in Nat /\ InLine < H
  BY Measure
<1> HIDE DEF l
<1>2. /\ TOTAL \in Nat /\ PERIOD = TOTAL * H /\ PRE \in Int /\ LINES + POST \in Int
      /\ TOTAL = PRE + (LINES + POST)
  BY TimingAssumption DEF TOTAL, PERIOD
<1>3. l < TOTAL
  <2>1. TOTAL <= l => TOTAL * H <= l * H
    BY <1>1, <1>2, Monotone
  <2>2. l * H \in Int /\ TOTAL * H \in Int
    BY <1>1, <1>2, Monotone
  <2> QED  BY <1>1, <1>2, <2>1, <2>2
<1>4. /\ PRE * H \in Int /\ l * H \in Int /\ (LINES + POST) * H \in Int
      /\ TOTAL * H = PRE * H + (LINES + POST) * H
  <2>1. PRE * H \in Int /\ l * H \in Int
    BY <1>1, <1>2, Monotone
  <2>2. (LINES + POST) * H \in Int
    BY <1>2, Monotone
  <2>3. (PRE + (LINES + POST)) * H = PRE * H + (LINES + POST) * H
    BY <1>2, Monotone
  <2> QED  BY <1>2, <2>1, <2>2, <2>3
<1>5. Lines = IF l >= PRE THEN l - PRE ELSE l + LINES + POST
  BY DEF Lines, l
<1>6. CASE l >= PRE
  <2>1. PRE * H <= l * H
    BY <1>1, <1>2, <1>6, Monotone
  <2>2. now >= PRE * H /\ Age = now - PRE * H
    BY <1>1, <1>4, <2>1, TimingAssumption DEF Age
  <2>3. Lines = l - PRE
    BY <1>5, <1>6
  <2>4. l * H = PRE * H + Lines * H /\ Lines * H \in Int
    <3>1. PRE + Lines = l /\ Lines \in Int
      BY <1>1, <1>2, <2>3
    <3> QED  BY <1>2, <3>1, Monotone
  <2>5. Lines \in Nat /\ Lines < TOTAL
    BY <1>1, <1>2, <1>3, <1>6, <2>3, TimingAssumption
  <2>6. Age = Lines * H + InLine /\ Age \in Nat
    BY <1>1, <1>4, <2>2, <2>4
  <2>7. now \div H = PRE + Lines
    BY <1>1, <1>2, <2>3 DEF l
  <2>8. Age < PERIOD
    <3>1. PRE * H >= 0
      <4>1. 0 * H <= PRE * H /\ 0 * H = 0
        BY <1>2, Monotone, TimingAssumption
      <4> QED  BY <1>4, <4>1
    <3>2. PRE * H <= now
      BY <2>2
    <3>3. PERIOD \in Int /\ PRE * H \in Int
      BY <1>2, <1>4, Monotone, TimingAssumption
    <3> QED  BY <2>2, <3>1, <3>3
  <2> QED  BY <1>1, <1>4, <2>2, <2>5, <2>6, <2>7, <2>8
<1>7. CASE ~(l >= PRE)
  <2>1. l * H + H <= PRE * H
    BY <1>1, <1>2, <1>7, Monotone
  <2>2. now < PRE * H /\ Age = now + (LINES + POST) * H
    BY <1>1, <1>4, <2>1, TimingAssumption DEF Age
  <2>3. Lines = l + (LINES + POST) /\ Lines >= LINES + POST
    BY <1>1, <1>5, <1>7, TimingAssumption
  <2>4. Lines * H = l * H + (LINES + POST) * H /\ Lines * H \in Int
    BY <1>1, <1>2, <2>3, Monotone
  <2>5. Lines \in Nat /\ Lines < TOTAL
    BY <1>1, <1>2, <1>7, <2>3, TimingAssumption
  <2>6. Age = Lines * H + InLine
    BY <1>1, <1>4, <2>2, <2>4
  <2>7. (LINES + POST) * H >= 0
    BY <1>4, TimingAssumption
  <2>8. Age \in Nat /\ Age < PERIOD
    BY <1>1, <1>2, <1>4, <2>2, <2>7
  <2> QED  BY <1>1, <1>4, <2>2, <2>3, <2>5, <2>6, <2>8
<1> QED  BY <1>6, <1>7

\* What a tick does to it.
LEMMA TickMeasured == ASSUME Measured, now \in Nat, now < PERIOD, Tick PROVE Measured'
<1>1. PICK q \in Nat, r \in Nat : r < H /\ now = q * H + r
  BY DEF Measured
<1>2. q * H \in Int /\ (q + 1) * H = q * H + H
  <2>1. 1 * H = H
    BY TimingAssumption
  <2> QED  BY <1>1, <2>1, Monotone
<1>3. now' = now + 1 \/ now' = 0
  <2>1. \A a, b \in Nat : b > 0 /\ a < b => (a + 1) % b = a + 1 \/ (a + 1) % b = 0
    <3> SUFFICES ASSUME NEW a \in Nat, NEW b \in Nat, b > 0, a < b
                 PROVE  (a + 1) % b = a + 1 \/ (a + 1) % b = 0
      OBVIOUS
    <3>1. CASE a + 1 < b
      BY <3>1
    <3>2. CASE a + 1 = b
      BY <3>2
    <3> QED  BY <3>1, <3>2
  <2> QED  BY <2>1, PeriodPositive DEF Tick
<1>4. CASE now' = 0
  <2>1. now' = 0 * H + 0
    BY <1>4, TimingAssumption
  <2> QED  BY <2>1, TimingAssumption DEF Measured
<1>5. CASE now' = now + 1 /\ r + 1 < H
  <2>1. now' = q * H + (r + 1) /\ r + 1 \in Nat
    BY <1>1, <1>2, <1>5
  <2> QED  BY <1>5, <2>1 DEF Measured
<1>6. CASE now' = now + 1 /\ ~(r + 1 < H)
  <2>1. r + 1 = H
    BY <1>1, <1>6, TimingAssumption
  <2>2. now' = (q + 1) * H + 0 /\ q + 1 \in Nat
    BY <1>1, <1>2, <1>6, <2>1
  <2> QED  BY <2>2, TimingAssumption DEF Measured
<1> QED  BY <1>3, <1>4, <1>5, <1>6

LEMMA TickPlace ==
  ASSUME Measured, now \in Nat, now < PERIOD, Tick
  PROVE  /\ InLine' = IF InLine + 1 = H THEN 0 ELSE InLine + 1
         /\ Lines' = IF InLine + 1 # H THEN Lines
                     ELSE IF Lines + 1 = TOTAL THEN 0 ELSE Lines + 1
         /\ Age' = IF Age + 1 = PERIOD THEN 0 ELSE Age + 1
         /\ now' = PRE * H <=> Age' = 0
         /\ now < PRE * H => now' <= PRE * H
<1> DEFINE l == now \div H
<1>1. /\ now = l * H + InLine /\ l \in Nat /\ InLine \in Nat /\ InLine < H
  BY Measure
<1>2. /\ PERIOD = TOTAL * H /\ TOTAL \in Int /\ PRE \in Int /\ LINES + POST \in Int
      /\ TOTAL = PRE + (LINES + POST)
  BY TimingAssumption DEF PERIOD, TOTAL
<1>3. l * H \in Int /\ TOTAL * H \in Int /\ PRE * H \in Int /\ (LINES + POST) * H \in Int
      /\ (l + 1) * H = l * H + H /\ TOTAL * H = PRE * H + (LINES + POST) * H
  <2>1. 1 * H = H
    BY TimingAssumption
  <2> HIDE DEF l
  <2>2. l * H \in Int /\ TOTAL * H \in Int /\ PRE * H \in Int /\ (LINES + POST) * H \in Int
    BY <1>1, <1>2, Monotone
  <2>3. (l + 1) * H = l * H + H
    BY <1>1, <2>1, Monotone
  <2>4. TOTAL * H = PRE * H + (LINES + POST) * H
    BY <1>2, Monotone
  <2> QED  BY <2>2, <2>3, <2>4
<1>4. now' = IF now + 1 = PERIOD THEN 0 ELSE now + 1
  <2>1. \A a, b \in Nat : b > 0 /\ a < b => (a + 1) % b = IF a + 1 = b THEN 0 ELSE a + 1
    <3> SUFFICES ASSUME NEW a \in Nat, NEW b \in Nat, b > 0, a < b
                 PROVE  (a + 1) % b = IF a + 1 = b THEN 0 ELSE a + 1
      OBVIOUS
    <3>1. CASE a + 1 < b
      BY <3>1
    <3>2. CASE a + 1 = b
      BY <3>2
    <3> QED  BY <3>1, <3>2
  <2> QED  BY <2>1, PeriodPositive DEF Tick
<1>5. /\ Lines = IF l >= PRE THEN l - PRE ELSE l + LINES + POST
      /\ l < TOTAL
  <2>1. l < TOTAL
    <3> HIDE DEF l
    <3>1. TOTAL <= l => TOTAL * H <= l * H
      BY <1>1, <1>2, Monotone
    <3>2. TOTAL * H \in Int /\ l * H \in Int
      BY <1>1, <1>2, Monotone
    <3>3. now < TOTAL * H /\ l * H <= now
      BY <1>1, <1>2, <1>3, <3>2
    <3> QED  BY <1>1, <1>2, <3>1, <3>2, <3>3
  <2> QED  BY <2>1 DEF Lines
<1>6. 0 <= PRE * H /\ 0 < (LINES + POST) * H
  <2>1. 0 * H <= PRE * H /\ 0 * H < (LINES + POST) * H /\ 0 * H = 0
    BY <1>2, Monotone, TimingAssumption
  <2> QED  BY <2>1
<1>7. Age' = IF Age + 1 = PERIOD THEN 0 ELSE Age + 1
  <2>1. Age' = IF now' >= PRE * H THEN now' - PRE * H ELSE now' + (LINES + POST) * H
    BY DEF Age
  <2>2. Age = IF now >= PRE * H THEN now - PRE * H ELSE now + (LINES + POST) * H
    BY DEF Age
  <2> HIDE DEF l
  <2> QED  BY <1>1, <1>2, <1>3, <1>4, <1>6, <2>1, <2>2
<1>8. now' = PRE * H <=> Age' = 0
  <2>1. Age' = IF now' >= PRE * H THEN now' - PRE * H ELSE now' + (LINES + POST) * H
    BY DEF Age
  <2>2. now' \in Nat
    BY <1>4
  <2> QED  BY <1>3, <1>6, <2>1, <2>2
<1>9. now < PRE * H => now' <= PRE * H
  BY <1>3, <1>4, <1>6
<1>10. ASSUME NEW m \in Nat, NEW s \in Nat, s < H, now' = m * H + s
       PROVE  /\ InLine' = s
              /\ Lines' = IF m >= PRE THEN m - PRE ELSE m + LINES + POST
  <2>1. now' \div H = m /\ now' % H = s
    BY <1>10, Quotient
  <2> QED  BY <2>1 DEF InLine, Lines
<1>11. CASE InLine + 1 # H
  <2>1. now + 1 # PERIOD
    <3>1. l + 1 <= TOTAL
      BY <1>1, <1>2, <1>5
    <3>2. (l + 1) * H <= TOTAL * H
      <4> HIDE DEF l
      <4>1. l + 1 \in Int
        BY <1>1
      <4> QED  BY <1>2, <3>1, <4>1, Monotone
    <3> QED
      <4> HIDE DEF l
      <4> QED  BY <1>1, <1>2, <1>3, <1>11, <3>2, TimingAssumption
  <2>2. now' = l * H + (InLine + 1) /\ InLine + 1 \in Nat /\ InLine + 1 < H /\ l \in Nat
    <3> HIDE DEF l
    <3> QED  BY <1>1, <1>3, <1>4, <1>11, <2>1, TimingAssumption
  <2>3. /\ InLine' = InLine + 1
        /\ Lines' = IF l >= PRE THEN l - PRE ELSE l + LINES + POST
    BY <1>10, <2>2
  <2> QED  BY <1>5, <1>7, <1>8, <1>9, <1>11, <2>3
<1>12. CASE InLine + 1 = H /\ l + 1 = TOTAL
  <2>1. now' = 0 * H + 0
    <3>1. 0 * H = 0
      BY TimingAssumption
    <3>2. now + 1 = PERIOD
      <4> HIDE DEF l
      <4> QED  BY <1>1, <1>2, <1>3, <1>12
    <3> QED  BY <1>4, <3>1, <3>2
  <2>2. InLine' = 0 /\ Lines' = IF 0 >= PRE THEN 0 - PRE ELSE 0 + LINES + POST
    BY <1>10, <2>1, TimingAssumption
  <2>3. Lines + 1 = TOTAL => Lines' = 0
    <3> HIDE DEF l
    <3> QED  BY <1>1, <1>2, <1>5, <1>12, <2>2, TimingAssumption
  <2>4. Lines + 1 # TOTAL => Lines' = Lines + 1
    <3> HIDE DEF l
    <3> QED  BY <1>1, <1>2, <1>5, <1>12, <2>2, TimingAssumption
  <2> QED  BY <1>7, <1>8, <1>9, <1>12, <2>2, <2>3, <2>4
<1>13. CASE InLine + 1 = H /\ l + 1 # TOTAL
  <2>1. now' = (l + 1) * H + 0 /\ l + 1 \in Nat
    <3>1. (l + 1) * H < TOTAL * H
      <4> HIDE DEF l
      <4>1. l + 1 < TOTAL /\ l + 1 \in Int
        BY <1>1, <1>2, <1>5, <1>13
      <4> QED  BY <1>2, <4>1, Monotone
    <3> HIDE DEF l
    <3> QED  BY <1>1, <1>2, <1>3, <1>4, <1>13, <3>1
  <2>2. /\ InLine' = 0
        /\ Lines' = IF l + 1 >= PRE THEN l + 1 - PRE ELSE l + 1 + LINES + POST
    BY <1>10, <2>1, TimingAssumption
  <2>3. Lines' = IF Lines + 1 = TOTAL THEN 0 ELSE Lines + 1
    <3> HIDE DEF l
    <3> QED  BY <1>1, <1>2, <1>5, <1>13, <2>2, TimingAssumption
  <2> QED  BY <1>7, <1>8, <1>9, <1>13, <2>2, <2>3
<1> QED  BY <1>11, <1>12, <1>13

OnTimeInv == RowInv /\ Measured /\ Schedule

\* A step that is no tick leaves the timers where they are.
LEMMA Still ==
  ASSUME UNCHANGED now
  PROVE  /\ InLine' = InLine /\ Lines' = Lines /\ Age' = Age
         /\ Measured => Measured'
BY DEF InLine, Lines, Age, Measured

LEMMA OnTimeInit == Init => OnTimeInv
<1> SUFFICES ASSUME Init PROVE OnTimeInv
  OBVIOUS
<1>1. Measured
  <2>1. 0 = 0 * H + 0 /\ 0 < H
    BY TimingAssumption
  <2> QED  BY <2>1 DEF Init, Measured
<1>2. 0 < PRE * H
  <2>1. 0 * H < PRE * H /\ 0 * H = 0
    BY Monotone, TimingAssumption
  <2> QED  BY <2>1
<1>3. Resting
  BY <1>2 DEF Init, Resting
<1> QED  BY <1>1, <1>3, RowInit DEF OnTimeInv, Schedule

\* The compares and the two requests, as a tick makes them.
LEMMA TickSignals ==
  ASSUME OnTimeInv, Tick
  PROVE  /\ flag7' <=> flag7 \/ InLine' = RB7
         /\ flag8' <=> flag8 \/ Age' = 0
         /\ pend7' <=> pend7 \/ (InLine' = RB7 /\ ~flag7)
         /\ pend8' <=> pend8 \/ (Age' = 0 /\ ~flag8)
<1>1. now' = PRE * H <=> Age' = 0
  BY TickPlace DEF OnTimeInv, RowInv, TypeOK
<1> QED  BY <1>1 DEF Tick, InLine

\* What stays in a tick, and where it leads.
LEMMA TickFrame ==
  ASSUME OnTimeInv, Tick
  PROVE  /\ UNCHANGED <<en7, pc7, pc8, tmp, line, offtime, started>>
         /\ InLine \in Nat /\ InLine < H /\ Lines \in Nat /\ Lines < TOTAL
         /\ Age \in Nat /\ Age < PERIOD
         /\ InLine' = IF InLine + 1 = H THEN 0 ELSE InLine + 1
         /\ Lines' = IF InLine + 1 # H THEN Lines
                     ELSE IF Lines + 1 = TOTAL THEN 0 ELSE Lines + 1
         /\ Age' = IF Age + 1 = PERIOD THEN 0 ELSE Age + 1
         /\ Age' = 0 <=> Lines' = 0 /\ InLine' = 0
         /\ now < PRE * H => now' <= PRE * H
<1>1. Measured /\ now \in Nat /\ now < PERIOD
  BY DEF OnTimeInv, RowInv, TypeOK
<1>2. /\ InLine \in Nat /\ InLine < H /\ Lines \in Nat /\ Lines < TOTAL
      /\ Age = Lines * H + InLine /\ Age \in Nat
  BY <1>1, Place
<1>3. /\ PERIOD = TOTAL * H /\ TOTAL \in Int /\ TOTAL * H \in Int /\ Lines * H \in Int
      /\ (Lines + 1) * H = Lines * H + H
  <2>1. TOTAL \in Int /\ 1 * H = H
    BY TimingAssumption DEF TOTAL
  <2> QED  BY <1>2, <2>1, Monotone DEF PERIOD, TOTAL
<1>4. Age' = 0 <=> Lines' = 0 /\ InLine' = 0
  <2>1. Age' = 0 <=> Age + 1 = PERIOD
    BY <1>1, <1>2, TickPlace
  <2>2. Lines' = 0 /\ InLine' = 0 <=> InLine + 1 = H /\ Lines + 1 = TOTAL
    BY <1>1, <1>2, TickPlace
  <2>3. Lines + 1 = TOTAL <=> (Lines + 1) * H = TOTAL * H
    <3>1. Lines + 1 \in Int /\ Lines + 1 <= TOTAL
      BY <1>2, <1>3
    <3>2. Lines + 1 < TOTAL => (Lines + 1) * H < TOTAL * H
      BY <1>3, <3>1, Monotone
    <3> QED  BY <1>3, <3>1, <3>2
  <2>4. (Lines + 1) * H <= TOTAL * H
    <3>1. Lines + 1 \in Int /\ Lines + 1 <= TOTAL
      BY <1>2, <1>3
    <3> QED  BY <1>3, <3>1, Monotone
  <2> QED  BY <1>2, <1>3, <2>1, <2>2, <2>3, <2>4, TimingAssumption
<1> QED  BY <1>1, <1>2, <1>4, Place, TickPlace DEF Tick, memVars

\* A tick while nothing runs, before the first frame or after can_receive.
LEMMA RestingTick == ASSUME OnTimeInv, OnTime, Resting, Tick PROVE Schedule'
<1> USE TimingAssumption DEF Resting
<1>1. CASE Age' # 0
  <2>1. (flag7' => pend7') /\ ~pend8' /\ ~flag8'
    BY <1>1, TickSignals
  <2>2. started => Age' >= LINES * H + RB7
    <3>1. Age' = Age + 1 /\ Age \in Nat
      BY <1>1, TickFrame
    <3>2. LINES * H + RB7 \in Int
      BY Monotone
    <3> QED  BY <3>1, <3>2
  <2>3. ~started => now' < PRE * H
    <3>1. now < PRE * H => now' <= PRE * H /\ now' # PRE * H
      BY <1>1, TickFrame, TickPlace DEF OnTimeInv, RowInv, TypeOK
    <3>2. now' \in Int /\ PRE * H \in Int
      BY RowStep, Monotone DEF OnTimeInv, RowInv, TypeOK, Next
    <3> QED  BY <3>1, <3>2
  <2>4. Resting'
    BY <2>1, <2>2, <2>3, TickFrame
  <2> QED  BY <2>4 DEF Schedule
<1>2. CASE Age' = 0
  <2>1. Lines' = 0 /\ InLine' = 0
    BY <1>2, TickFrame
  <2>2. pend8' /\ flag8' /\ (flag7' => pend7') /\ (InLine' >= RB7 => pend7')
    BY <1>2, <2>1, TickSignals
  <2>3. pc8' = "idle" /\ pc7' = "idle" /\ ~en7' /\ line' = line /\ offtime' = offtime
        /\ started' = started
    BY TickFrame
  <2>4. AtVsync'
    BY <2>1, <2>2, <2>3 DEF AtVsync
  <2> QED  BY <2>4 DEF Schedule
<1> QED  BY <1>1, <1>2

\* A tick of TC8_Handler, which ends in the first line.
LEMMA VsyncTick == ASSUME OnTimeInv, OnTime, AtVsync, Tick PROVE Schedule'
<1> USE TimingAssumption DEF AtVsync
<1>1. pc8 # "idle" /\ ~pend8 /\ InLine = spent8 /\ spent8 < D8 /\ spent8' = spent8 + 1
  BY DEF Tick, Run8, Take8, Run7
<1>2. InLine' = InLine + 1 /\ Lines' = 0 /\ Age' # 0 /\ spent8' \in Nat
  BY <1>1, TickFrame DEF OnTime, OnTimeInv, RowInv, TypeOK
<1>3. (flag7' => pend7') /\ ~pend8' /\ (flag8' <=> flag8)
  BY <1>1, <1>2, TickSignals
<1>4. InLine' >= RB7 => pend7'
  <2>1. InLine \in Nat /\ (InLine >= RB7 => pend7)
    BY TickFrame
  <2>2. InLine' >= RB7 => pend7 \/ InLine' = RB7
    BY <1>2, <2>1
  <2> QED  BY <2>2, TickSignals
<1>5. AtVsync'
  BY <1>1, <1>2, <1>3, <1>4, TickFrame
<1> QED  BY <1>5 DEF Schedule

\* A tick between two rows: the compare of the next one, if it is time.
LEMMA BetweenTick == ASSUME OnTimeInv, OnTime, BetweenRows, Tick PROVE Schedule'
<1> USE TimingAssumption DEF BetweenRows, Rows
<1>1. ~pend7 /\ line > 0 /\ ~flag7 /\ Around(line - 1)
      /\ RB7 <= Since(line - 1) /\ Since(line - 1) < H + RB7
  BY DEF Tick, Run8, Run7, Take7, Take8
<1>2. line \in Nat /\ line <= LINES /\ LINES < TOTAL
  BY DEF OnTimeInv, RowInv, TypeOK, TOTAL
<1>3. Around(line - 1)' /\ Since(line - 1)' = Since(line - 1) + 1
  BY <1>1, <1>2, TickFrame DEF Around, Since
<1>4. InLine' = RB7 <=> Since(line - 1)' = H + RB7
  BY <1>1, <1>2, <1>3, TickFrame DEF Around, Since
<1>5. Age' # 0
  BY <1>1, <1>2, <1>3, TickFrame DEF Around, Since
<1>6. (pend7' <=> InLine' = RB7) /\ (flag7' <=> InLine' = RB7) /\ ~pend8' /\ ~flag8'
  BY <1>1, <1>5, TickSignals
<1>7. CASE InLine' = RB7
  <2>1. Lines' = line' /\ Late(line') = RB7
    BY <1>1, <1>2, <1>3, <1>4, <1>7, TickFrame DEF Around, Since, Late
  <2>2. BetweenRows'
    BY <1>6, <1>7, <2>1, TickFrame
  <2> QED  BY <2>2 DEF Schedule
<1>8. CASE InLine' # RB7
  <2>1. RB7 <= Since(line - 1)' /\ Since(line - 1)' < H + RB7
    BY <1>1, <1>2, <1>3, <1>4, <1>8, TickFrame DEF Around, Since
  <2>2. BetweenRows'
    BY <1>1, <1>3, <1>6, <1>8, <2>1, TickFrame
  <2> QED  BY <2>2 DEF Schedule
<1> QED  BY <1>7, <1>8

\* A tick while row n is painted.
LEMMA RowTick ==
  ASSUME OnTimeInv, OnTime, Rows, pc7 # "idle", NEW n \in Nat, n < LINES, InRow(n), Tick,
         Budget7 = E7 \/ Budget7 = D7, pc7 = "status" => Budget7 = E7
  PROVE  Rows' /\ InRow(n)' /\ spent7' <= Budget7
<1> USE TimingAssumption DEF InRow, Rows
<1>1. Run7 /\ spent7 < Budget7 /\ spent7' = spent7 + 1 /\ spent7 \in Nat
  BY DEF Tick, Run7, Run8, OnTimeInv, RowInv, TypeOK
<1>2. n + 1 < TOTAL /\ n \in Nat
  BY DEF TOTAL
<1>3. Late(n) \in Nat /\ RB7 <= D8 /\ Late(n) <= D8
  BY DEF Late, OnTime
<1>4. Since(n) < H + RB7
  BY <1>1, <1>3, TickFrame DEF OnTime, Since
<1>5. Around(n)' /\ Since(n)' = Since(n) + 1
  BY <1>2, <1>4, TickFrame DEF Around, Since
<1>6. InLine' = RB7 <=> Since(n)' = H + RB7
  BY <1>2, <1>4, <1>5, TickFrame DEF Around, Since
<1>7. Age' # 0
  BY <1>2, <1>4, <1>5, TickFrame DEF Around, Since
<1>8. Since(n)' <= Late(n) + spent7' /\ RB7 <= Since(n)'
  BY <1>1, <1>3, <1>4, <1>5, TickFrame DEF Since
<1>9. CASE pc7 = "status"
  <2>1. InLine' # RB7
    BY <1>1, <1>3, <1>6, <1>8, <1>9 DEF OnTime
  <2>2. ~pend7'
    BY <1>9, <2>1, TickSignals
  <2> QED  BY <1>1, <1>5, <1>7, <1>8, <1>9, <2>2, TickFrame, TickSignals DEF Late
<1>10. CASE pc7 # "status"
  <2>1. ~flag7 /\ ~pend7
    BY <1>4, <1>10
  <2>2. (flag7' <=> InLine' = RB7) /\ (pend7' <=> InLine' = RB7)
    BY <2>1, TickSignals
  <2>3. Late(n)' = Late(n)
    BY DEF Late
  <2> QED  BY <1>1, <1>5, <1>6, <1>7, <1>8, <1>10, <2>2, <2>3, TickFrame, TickSignals
<1> QED  BY <1>9, <1>10

LEMMA PaintingTick == ASSUME OnTimeInv, OnTime, Painting, Tick PROVE Schedule'
<1> USE TimingAssumption
<1>1. Rows /\ line \in Nat /\ line <= LINES
  BY DEF Painting, OnTimeInv, RowInv, TypeOK
<1>2. CASE pc7 = "return"
  <2>1. Budget7 = D7 /\ line > 0 /\ InRow(line - 1)
    BY <1>2 DEF Painting, Budget7
  <2>2. line - 1 \in Nat /\ line - 1 < LINES
    BY <1>1, <2>1
  <2>3. PICK n \in Nat : n = line - 1
    BY <2>2
  <2>4. InRow(n) /\ n < LINES
    BY <2>1, <2>2, <2>3
  <2>5. Rows' /\ InRow(n)'
    BY <1>1, <1>2, <2>1, <2>4, RowTick
  <2>6. line' = line /\ pc7' = pc7 /\ n = line' - 1
    BY <2>3, TickFrame
  <2>7. InRow(line - 1)'
    BY <2>5, <2>6 DEF InRow, Around, Since, Late
  <2>8. Painting'
    BY <1>2, <2>1, <2>5, <2>6, <2>7 DEF Painting
  <2> QED  BY <2>8 DEF Schedule
<1>3. CASE pc7 \in {"status", "test", "draw", "load", "store"}
  <2>1. /\ Budget7 = E7 \/ Budget7 = D7
        /\ pc7 \in {"status", "test"} => Budget7 = E7
    BY <1>3 DEF Budget7
  <2>2. line < LINES /\ InRow(line) /\ (pc7 = "store" => tmp = line)
    BY <1>3 DEF Painting
  <2>6. PICK n \in Nat : n = line
    BY <1>1
  <2>7. InRow(n) /\ n < LINES
    BY <2>2, <2>6
  <2>3. Rows' /\ InRow(n)' /\ spent7' <= Budget7
    BY <1>1, <1>3, <2>1, <2>7, RowTick
  <2>4. line' = line /\ tmp' = tmp /\ pc7' = pc7 /\ n = line'
    BY <2>6, TickFrame
  <2>8. InRow(line)'
    BY <2>3, <2>4 DEF InRow, Around, Since, Late
  <2>5. Painting'
    BY <1>3, <2>1, <2>2, <2>3, <2>4, <2>8 DEF Painting
  <2> QED  BY <2>5 DEF Schedule
<1> QED  BY <1>2, <1>3 DEF Painting

\* A tick while can_receive runs, or before it: the next frame is not yet due.
LEMMA ReceivingTick == ASSUME OnTimeInv, OnTime, Receiving, Tick PROVE Schedule'
<1> USE TimingAssumption DEF Receiving
<1>1. Run7 /\ spent7 < Budget7 /\ spent7' = spent7 + 1 /\ spent7 \in Nat
  BY DEF Tick, Run7, Run8, OnTimeInv, RowInv, TypeOK
<1>2. Budget7 = IF pc7 \in {"status", "test"} THEN E7 ELSE R7
  BY DEF Budget7
<1>3. LINES * H \in Int /\ (POST + PRE) * H \in Int /\ PERIOD = LINES * H + (POST + PRE) * H
  <2>1. LINES + (POST + PRE) = TOTAL /\ POST + PRE \in Int
    BY DEF TOTAL
  <2> QED  BY <2>1, Monotone DEF PERIOD, TOTAL
<1>4. Age' = Age + 1 /\ Age' # 0
  BY <1>1, <1>2, <1>3, TickFrame DEF OnTime
<1>5. ~pend8' /\ ~flag8'
  BY <1>4, TickSignals
<1>6. spent7' <= IF pc7 \in {"status", "test"} THEN E7 ELSE R7
  BY <1>1, <1>2
<1>7. Age' = LINES * H + RB7 + spent7'
  BY <1>1, <1>3, <1>4
<1>8. Receiving'
  BY <1>5, <1>6, <1>7, TickFrame
<1> QED  BY <1>8 DEF Schedule

\* A flag that is up on return from a handler raises its interrupt again.
LEMMA Again8 == Enable7 => (pend8' <=> pend8 \/ flag8)
BY DEF Enable7

LEMMA Again7 == Return7 => (pend7' <=> pend7 \/ flag7)
BY DEF Return7

\* TC8_Handler, and the first row it lets in.
LEMMA VsyncStep ==
  ASSUME OnTimeInv, OnTime, Enter8 \/ TC8_Handler
  PROVE  Schedule'
<1> USE TimingAssumption
<1>1. AtVsync
  BY DEF OnTimeInv, Schedule, Resting, BetweenRows, Painting, Receiving, Rows,
     Enter8, Take8, TC8_Handler, Status8, ClearOfftime, ResetLine, Enable7
<1>2. CASE Enter8
  <2>1. now' = now
    BY <1>2 DEF Enter8, timerVars
  <2>2. AtVsync'
    BY <1>1, <1>2, <2>1, Still DEF AtVsync, Enter8, Take8, timerVars, memVars
  <2> QED  BY <2>2 DEF Schedule
<1>3. CASE Status8
  <2>1. now' = now
    BY <1>3 DEF Status8
  <2>2. AtVsync'
    BY <1>1, <1>3, <2>1, Still DEF AtVsync, Status8, memVars
  <2> QED  BY <2>2 DEF Schedule
<1>4. CASE ClearOfftime
  <2>1. now' = now
    BY <1>4 DEF ClearOfftime, timerVars
  <2>2. AtVsync'
    BY <1>1, <1>4, <2>1, Still DEF AtVsync, ClearOfftime, timerVars
  <2> QED  BY <2>2 DEF Schedule
<1>5. CASE ResetLine
  <2>1. now' = now
    BY <1>5 DEF ResetLine, timerVars
  <2>2. AtVsync'
    BY <1>1, <1>5, <2>1, Still DEF AtVsync, ResetLine, timerVars
  <2> QED  BY <2>2 DEF Schedule
<1>6. CASE Enable7
  <2>1. now' = now
    BY <1>6 DEF Enable7, timerVars
  <2>2. InLine = spent8 /\ ~pend8 /\ ~flag8 /\ line = 0 /\ started /\ Lines = 0 /\ pc7 = "idle"
        /\ offtime = 0
    BY <1>1, <1>6 DEF AtVsync, Enable7
  <2>3. RB7 <= InLine /\ InLine <= D8 /\ spent8 \in Nat
    BY <1>6, <2>2 DEF Enable7, OnTime, OnTimeInv, RowInv, TypeOK
  <2>4. pend7
    BY <1>1, <2>3 DEF AtVsync
  <2>9. pend8' <=> pend8 \/ flag8
    BY <1>6, Again8
  <2>5. en7' /\ pc8' = "idle" /\ ~pend8'
    BY <1>6, <2>2, <2>9 DEF Enable7
  <2>6. UNCHANGED <<flag7, flag8, pend7, pc7, line, offtime, started>>
    BY <1>6 DEF Enable7, timerVars, memVars
  <2>7. Late(line') = D8
    BY <2>2, <2>6 DEF Late
  <2>8. BetweenRows'
    BY <2>1, <2>2, <2>3, <2>4, <2>5, <2>6, <2>7, Still DEF BetweenRows, Rows
  <2> QED  BY <2>8 DEF Schedule
<1> QED  BY <1>2, <1>3, <1>4, <1>5, <1>6 DEF TC8_Handler

\* TC7 begins a row at its compare, or finds that there is none left.
LEMMA EnterStep ==
  ASSUME OnTimeInv, OnTime, Enter7
  PROVE  /\ Schedule'
         /\ line < LINES => HwLine = PRE + line
<1> USE TimingAssumption
<1>1. BetweenRows /\ pend7 /\ Lines = line /\ RB7 <= InLine /\ InLine <= Late(line)
  BY DEF OnTimeInv, Schedule, Resting, AtVsync, BetweenRows, Painting, Receiving, Rows,
     Enter7, Take7
<1>2. /\ now' = now /\ ~pend7' /\ pc7' = "status" /\ spent7' = 0
      /\ UNCHANGED <<flag7, flag8, pend8, en7, pc8, line, offtime, started, tmp>>
  BY DEF Enter7, timerVars, memVars
<1>3. line \in Nat /\ line <= LINES /\ Late(line) < H /\ Late(line)' = Late(line)
  BY <1>2 DEF OnTimeInv, RowInv, TypeOK, Late, OnTime
<1>4. Lines' = Lines /\ InLine' = InLine /\ Age' = Age
  BY <1>2, Still
<1>5. /\ InLine \in Nat /\ InLine < H /\ Age = Lines * H + InLine
      /\ now >= PRE * H => now \div H = PRE + Lines
      /\ now < PRE * H => Lines >= LINES + POST
  BY Place DEF OnTimeInv, RowInv, TypeOK
<1>6. CASE line < LINES
  <2>3. Rows'
    BY <1>1, <1>2 DEF BetweenRows, Rows
  <2>4. Around(line)' /\ Since(line)' = InLine
    BY <1>1, <1>2, <1>4 DEF Around, Since
  <2>5. InRow(line)'
    <3>1. Late(line)' = Late(line) /\ Late(line) \in Nat /\ spent7' = 0
      BY <1>2, <1>3 DEF Late
    <3>2. Late(line)' + spent7' = Late(line)
      BY <3>1
    <3> QED  BY <1>1, <1>2, <1>5, <2>4, <3>1, <3>2 DEF InRow
  <2>1. Painting'
    BY <1>2, <1>6, <2>3, <2>5 DEF Painting
  <2>2. HwLine = PRE + line
    <3>1. now \div H = PRE + line
      <4>1. ~(now < PRE * H)
        BY <1>1, <1>3, <1>5, <1>6
      <4>2. now \in Nat /\ PRE * H \in Int
        BY Monotone DEF OnTimeInv, RowInv, TypeOK
      <4> QED  BY <1>1, <1>5, <4>1, <4>2
    <3>2. now = (PRE + line) * H + InLine
      BY <3>1, Measure DEF OnTimeInv
    <3>3. now - RB7 = (PRE + line) * H + (InLine - RB7)
      <4>1. (PRE + line) * H \in Int
        BY <1>3, Monotone
      <4> QED  BY <1>5, <3>2, <4>1
    <3>4. (now - RB7) \div H = PRE + line
      BY <1>1, <1>3, <1>5, <3>3, Quotient
    <3> QED  BY <3>4 DEF HwLine
  <2> QED  BY <1>6, <2>1, <2>2 DEF Schedule
<1>7. CASE ~(line < LINES)
  <2>1. line = LINES /\ InLine = RB7
    BY <1>1, <1>3, <1>5, <1>7 DEF Late
  <2>2. Age' = LINES * H + RB7 + spent7'
    <3>1. LINES * H \in Int
      BY Monotone
    <3> QED  BY <1>1, <1>2, <1>4, <1>5, <2>1, <3>1
  <2>3. Receiving'
    BY <1>1, <1>2, <2>1, <2>2 DEF BetweenRows, Rows, Receiving
  <2> QED  BY <1>7, <2>3 DEF Schedule
<1> QED  BY <1>6, <1>7

\* TC7 paints a row.
LEMMA RowStepOnTime ==
  ASSUME OnTimeInv, OnTime, Rows, pc7 # "idle", NEW n \in Nat, InRow(n),
         UNCHANGED <<now, pend7, pend8, flag8, pc8, en7, spent7, offtime, started>>,
         pc7' # "status",
         IF pc7 = "status" THEN ~flag7' ELSE flag7' = flag7
  PROVE  Rows' /\ InRow(n)'
<1> USE TimingAssumption
<1>1. Rows'
  BY DEF Rows
<1>2. Around(n)' /\ Since(n)' = Since(n) /\ Late(n)' = Late(n)
  <2>1. Lines' = Lines /\ InLine' = InLine
    BY Still
  <2> QED  BY <2>1 DEF InRow, Around, Since, Late
<1>3. CASE pc7 = "status"
  <2>1. Late(n) <= D8 /\ Late(n) \in Nat /\ spent7 \in Nat
    BY DEF Late, OnTime, OnTimeInv, RowInv, TypeOK
  <2>2. Since(n) # H + RB7 /\ ~pend7
    <3>1. Since(n) \in Nat /\ Since(n) <= Late(n) + spent7 /\ spent7 <= E7 /\ ~pend7
      BY <1>3, Place DEF InRow, Since, OnTimeInv, RowInv, TypeOK
    <3> QED  BY <2>1, <3>1 DEF OnTime
  <2> QED  BY <1>1, <1>2, <1>3, <2>2 DEF InRow
<1>4. CASE pc7 # "status"
  BY <1>1, <1>2, <1>4 DEF InRow
<1> QED  BY <1>3, <1>4

LEMMA PaintStep ==
  ASSUME OnTimeInv, OnTime, Painting,
         Status7 \/ TestLine \/ DrawPixel \/ LoadLine \/ StoreLine
  PROVE  Schedule'
<1> USE TimingAssumption
<1>1. Rows /\ pc7 \in {"status", "test", "draw", "load", "store"} /\ line < LINES
      /\ InRow(line) /\ (pc7 = "store" => tmp = line) /\ (pc7 = "test" => spent7 <= E7)
  BY DEF Painting, Status7, TestLine, DrawPixel, LoadLine, StoreLine
<1>2. /\ UNCHANGED <<now, pend7, pend8, flag8, pc8, en7, spent7, offtime, started>>
      /\ pc7' \in {"test", "draw", "load", "store", "return"}
      /\ IF pc7 = "status" THEN ~flag7' ELSE flag7' = flag7
  BY <1>1 DEF Status7, TestLine, DrawPixel, LoadLine, StoreLine, timerVars, memVars
<1>3. PICK n \in Nat : n = line
  BY DEF OnTimeInv, RowInv, TypeOK
<1>4. Rows' /\ InRow(n)'
  BY <1>1, <1>2, <1>3, RowStepOnTime
<1>5. CASE StoreLine
  <2>1. line' = line + 1
    <3>1. \A k \in Nat : k < 65536 => k % 65536 = k
      BY SMT
    <3>2. line + 1 \in Nat /\ line + 1 < 65536
      BY <1>1 DEF OnTimeInv, RowInv, TypeOK
    <3> QED  BY <1>1, <1>5, <3>1, <3>2 DEF StoreLine
  <2>2. n = line' - 1 /\ line' > 0 /\ pc7' = "return"
    BY <1>3, <1>5, <2>1 DEF StoreLine
  <2>3. InRow(line - 1)'
    BY <1>4, <2>2 DEF InRow, Around, Since, Late
  <2>4. Painting'
    BY <1>4, <2>2, <2>3 DEF Painting
  <2> QED  BY <2>4 DEF Schedule
<1>6. CASE Status7 \/ TestLine \/ DrawPixel \/ LoadLine
  <2>1. line' = line /\ pc7' \in {"test", "draw", "load", "store"}
    BY <1>1, <1>6 DEF Status7, TestLine, DrawPixel, LoadLine, memVars
  <2>2. InRow(line)'
    BY <1>3, <1>4, <2>1 DEF InRow, Around, Since, Late
  <2>3. pc7' = "store" => tmp' = line'
    BY <1>6, <2>1 DEF Status7, TestLine, DrawPixel, LoadLine
  <2>4. pc7' = "test" => spent7' <= E7
    <3>1. pc7' = "test" => pc7 = "status"
      BY <1>6 DEF Status7, TestLine, DrawPixel, LoadLine
    <3> QED  BY <1>1, <1>2, <3>1 DEF InRow
  <2>5. Painting'
    BY <1>1, <1>4, <2>1, <2>2, <2>3, <2>4 DEF Painting
  <2> QED  BY <2>5 DEF Schedule
<1> QED  BY <1>5, <1>6

\* TC7 has no row left: it turns itself off and calls can_receive.
LEMMA ReceiveStep ==
  ASSUME OnTimeInv, OnTime, Receiving,
         Status7 \/ TestLine \/ Disable7 \/ SetOfftime \/ Call \/ Publish
  PROVE  Schedule'
<1>1. UNCHANGED <<now, pend8, flag8, pc8, spent7, line, started>>
  BY DEF Status7, TestLine, Disable7, SetOfftime, Call, Publish, timerVars, cpuVars, memVars
<1>2. line = LINES /\ line \in Nat /\ pc7 \in {"status", "test", "disable", "offtime", "call", "receive"}
      /\ (pc7 \in {"status", "test"} => spent7 <= E7) /\ (spent7 <= E7 \/ spent7 <= R7)
      /\ Age = LINES * H + RB7 + spent7 /\ pc8 = "idle" /\ ~pend8 /\ ~flag8 /\ started
  BY TimingAssumption DEF Receiving
<1>3. (en7 <=> pc7 \in {"status", "test", "disable"})
      /\ offtime = IF pc7 \in {"call", "receive"} THEN 1 ELSE 0
  BY DEF Receiving
<1>4. Age' = Age
  BY <1>1, Still
<1>5. ASSUME pc7' \in {"test", "disable", "offtime", "call", "receive"},
             pc7' = "test" => pc7 = "status",
             en7' <=> pc7' \in {"test", "disable"},
             offtime' = IF pc7' \in {"call", "receive"} THEN 1 ELSE 0
      PROVE  Schedule'
  <2>1. en7' <=> pc7' \in {"status", "test", "disable"}
    BY <1>5
  <2>2. Receiving'
    BY <1>1, <1>2, <1>4, <1>5, <2>1 DEF Receiving
  <2> QED  BY <2>2 DEF Schedule
<1>6. CASE Status7
  BY <1>2, <1>3, <1>5, <1>6 DEF Status7, memVars
<1>7. CASE TestLine
  <2>1. pc7 = "test" /\ pc7' = "disable" /\ en7' = en7 /\ offtime' = offtime
    <3>1. ~(line < LINES)
      BY <1>2, TimingAssumption
    <3> QED  BY <1>7, <3>1 DEF TestLine, memVars
  <2> QED  BY <1>3, <1>5, <2>1
<1>8. CASE Disable7
  <2>1. pc7 = "disable" /\ pc7' = "offtime" /\ ~en7' /\ offtime' = offtime
    BY <1>8 DEF Disable7, memVars
  <2> QED  BY <1>3, <1>5, <2>1
<1>9. CASE SetOfftime
  <2>1. pc7 = "offtime" /\ pc7' = "call" /\ en7' = en7 /\ offtime' = 1
    BY <1>9 DEF SetOfftime
  <2> QED  BY <1>3, <1>5, <2>1
<1>10. CASE Call
  <2>1. pc7 = "call" /\ pc7' = "receive" /\ en7' = en7 /\ offtime' = offtime
    BY <1>10 DEF Call, memVars
  <2> QED  BY <1>3, <1>5, <2>1
<1>11. CASE Publish
  <2>1. pc7 = "receive" /\ pc7' = pc7 /\ en7' = en7 /\ offtime' = offtime
    BY <1>11 DEF Publish, cpuVars
  <2> QED  BY <1>3, <1>5, <2>1
<1> QED  BY <1>6, <1>7, <1>8, <1>9, <1>10, <1>11

LEMMA ReturnStep == ASSUME OnTimeInv, OnTime, Return7 PROVE Schedule'
<1> USE TimingAssumption
<1>1. /\ UNCHANGED <<now, flag7, flag8, pend8, en7, pc8, line, offtime, started>>
      /\ pc7' = "idle" /\ pc7 \in {"receive", "return"}
  BY DEF Return7, timerVars, memVars
<1>2. pend7' <=> pend7 \/ flag7
  BY Again7
<1>3. InLine' = InLine /\ Lines' = Lines /\ Age' = Age
  BY <1>1, Still
<1>4. CASE pc7 = "receive"
  <2>1. Receiving
    BY <1>1, <1>4 DEF OnTimeInv, Schedule, Resting, AtVsync, BetweenRows, Painting
  <2>2. Age' >= LINES * H + RB7
    <3>1. LINES * H \in Int /\ spent7 \in Nat
      BY Monotone DEF OnTimeInv, RowInv, TypeOK
    <3> QED  BY <1>3, <2>1, <3>1 DEF Receiving
  <2>3. Resting'
    BY <1>1, <1>2, <1>4, <2>1, <2>2 DEF Receiving, Resting
  <2> QED  BY <2>3 DEF Schedule
<1>5. CASE pc7 = "return"
  <2>1. Rows /\ line > 0 /\ InRow(line - 1)
    BY <1>1, <1>5 DEF OnTimeInv, Schedule, Resting, AtVsync, BetweenRows, Painting, Receiving
  <2>2. Rows'
    BY <1>1, <2>1 DEF Rows
  <2>3. /\ line \in Nat /\ line <= LINES /\ spent7 \in Nat /\ InLine \in Nat /\ InLine < H
        /\ Lines \in Nat
    BY Place DEF OnTimeInv, RowInv, TypeOK
  <2>4. Since(line - 1) <= H + RB7
    <3>1. Late(line - 1) <= D8 /\ Late(line - 1) \in Nat
      BY DEF Late, OnTime
    <3>2. Since(line - 1) <= Late(line - 1) + spent7 /\ (spent7 <= E7 \/ spent7 <= D7)
      BY <1>5, <2>1 DEF InRow
    <3> QED  BY <2>3, <3>1, <3>2 DEF OnTime, Since
  <2>5. pend7' <=> Since(line - 1) = H + RB7
    BY <1>2, <1>5, <2>1 DEF InRow
  <2>6. ~pend7' => ~flag7'
    BY <1>1, <1>2
  <2>7. CASE pend7'
    <3>1. Lines = line /\ InLine = RB7
      BY <2>1, <2>3, <2>5, <2>7 DEF InRow, Around, Since
    <3>2. Late(line') = RB7
      BY <1>1, <2>1, <2>3 DEF Late
    <3>3. BetweenRows'
      BY <1>1, <1>3, <2>2, <2>7, <3>1, <3>2 DEF BetweenRows
    <3> QED  BY <3>3 DEF Schedule
  <2>8. CASE ~pend7'
    <3>1. Around(line - 1)' /\ Since(line - 1)' = Since(line - 1)
      BY <1>1, <1>3, <2>1 DEF InRow, Around, Since
    <3>2. RB7 <= Since(line - 1) /\ Since(line - 1) < H + RB7
      BY <2>1, <2>3, <2>4, <2>5, <2>8 DEF InRow, Since
    <3>3. BetweenRows'
      BY <1>1, <2>1, <2>2, <2>6, <2>8, <3>1, <3>2 DEF BetweenRows
    <3> QED  BY <3>3 DEF Schedule
  <2> QED  BY <2>7, <2>8
<1> QED  BY <1>1, <1>4, <1>5

LEMMA OnTimeStep == ASSUME OnTime, OnTimeInv, [Next]_vars PROVE OnTimeInv'
<1>1. RowInv'
  BY RowStep DEF OnTimeInv
<1>2. Measured'
  <2>1. CASE Tick
    BY <2>1, TickMeasured DEF OnTimeInv, RowInv, TypeOK
  <2>2. CASE ~Tick
    <3>1. now' = now
      BY <2>2 DEF Next, Interrupts, TC8_Handler, TC7_Handler, Enter7, Enter8, Status8,
         ClearOfftime, ResetLine, Enable7, Status7, TestLine, DrawPixel, LoadLine, StoreLine,
         Disable7, SetOfftime, Call, Return7, Publish, vars, timerVars
    <3> QED  BY <3>1, Still DEF OnTimeInv
  <2> QED  BY <2>1, <2>2
<1>3. Schedule'
  <2>1. CASE Tick
    BY <2>1, RestingTick, VsyncTick, BetweenTick, PaintingTick, ReceivingTick
    DEF OnTimeInv, Schedule
  <2>2. CASE Enter8 \/ TC8_Handler
    BY <2>2, VsyncStep
  <2>3. CASE Enter7
    BY <2>3, EnterStep
  <2>4. CASE TC7_Handler \/ Publish
    <3>1. pc7 # "idle" /\ pc8 = "idle" /\ ~pend8
      BY <2>4 DEF TC7_Handler, Run7, Status7, TestLine, DrawPixel, LoadLine, StoreLine,
         Disable7, SetOfftime, Call, Return7, Publish
    <3>2. CASE Painting
      <4>1. pc7 \in {"status", "test", "draw", "load", "store", "return"} /\ line <= LINES
            /\ (pc7 = "test" => line < LINES)
        BY <3>2 DEF Painting, OnTimeInv, RowInv, TypeOK
      <4>2. Status7 \/ TestLine \/ DrawPixel \/ LoadLine \/ StoreLine \/ Return7
        BY <2>4, <4>1 DEF TC7_Handler, Disable7, SetOfftime, Call, Publish
      <4> QED  BY <3>2, <4>2, PaintStep, ReturnStep
    <3>3. CASE Receiving
      <4>1. Status7 \/ TestLine \/ Disable7 \/ SetOfftime \/ Call \/ Publish \/ Return7
        <5>1. pc7 \notin {"draw", "load", "store"}
          BY <3>3 DEF Receiving
        <5> QED  BY <2>4, <5>1 DEF TC7_Handler, DrawPixel, LoadLine, StoreLine
      <4> QED  BY <3>3, <4>1, ReceiveStep, ReturnStep
    <3> QED  BY <3>1, <3>2, <3>3 DEF OnTimeInv, Schedule, Resting, AtVsync, BetweenRows
  <2>5. CASE UNCHANGED vars
    <3>1. UNCHANGED <<now, flag7, flag8, pend7, pend8, en7, pc7, pc8, spent7, spent8, tmp,
                      line, offtime, started>>
      BY <2>5 DEF vars, timerVars, cpuVars, memVars
    <3>2. InLine' = InLine /\ Lines' = Lines /\ Age' = Age
      BY <3>1, Still
    <3> QED
      BY <3>1, <3>2 DEF OnTimeInv, Schedule, Resting, AtVsync, BetweenRows, Painting,
         Receiving, Rows, InRow, Around, Since, Late
  <2> QED  BY <2>1, <2>2, <2>3, <2>4, <2>5 DEF Next, Interrupts
<1> QED  BY <1>1, <1>2, <1>3 DEF OnTimeInv

\* For every geometry and timing in which rows fit their lines and can_receive fits the
\* blanking: when TC8 begins, the frame before is complete, TC7 off and not active, so
\* that nothing of TC7 is ever preempted.
THEOREM FramesComplete == ASSUME OnTime PROVE Spec => []FrameDoneByVsync
<1>1. OnTimeInv => FrameDoneByVsync
  BY DEF OnTimeInv, Schedule, Resting, AtVsync, BetweenRows, Painting, Receiving, Rows,
     FrameDoneByVsync
<1>2. OnTimeInv /\ [Next]_vars => OnTimeInv'
  BY OnTimeStep
<1> QED  BY OnTimeInit, <1>1, <1>2, PTL DEF Spec

\* And every row begins in its own line: the picture never slips.
THEOREM RowsOnTime == ASSUME OnTime PROVE Spec => RowsInTheirLines
<1>1. OnTimeInv /\ [Next]_vars => OnTimeInv'
  BY OnTimeStep
<1>2. OnTimeInv /\ [Next]_vars => [Enter7 /\ line < LINES => HwLine = PRE + line]_vars
  BY EnterStep
<1> QED  BY OnTimeInit, <1>1, <1>2, PTL DEF Spec, RowsInTheirLines
=============================================================================
