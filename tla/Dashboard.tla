----------------------------- MODULE Dashboard -----------------------------
(***************************************************************************)
(* The whole path from the bus to the glass: the row interrupt of          *)
(* Controller, after the last row of an image, runs the can_receive of     *)
(* CanRx to its end; nothing else calls it.  MCAN0 stores frames all the   *)
(* while, and TC8 may preempt can_receive at any of its steps.             *)
(*                                                                         *)
(* CanRx is extended, and its Init, Next, Spec and vars keep their names;  *)
(* what Controller calls the data is here what can_receive writes.         *)
(***************************************************************************)
EXTENDS CanRx

CONSTANTS LINES, PRE, POST, H, RB7, COLS, E7, D7, R7, DELAY, D8  \* see Controller

VARIABLES
  now, flag7, flag8, pend7, pend8, en7, pc7, pc8, spent7, spent8, col, tmp,
  line, offtime, shown, started

\* What a row is painted from.
display == <<CAN_data, color_temp, color_gear>>
Display == [0..7 -> Uint16] \X Palette \X Palette

\* The handlers and timers, painting what can_receive has written.
Gen == INSTANCE Controller WITH data <- display, Data <- Display

genVars == <<now, flag7, flag8, pend7, pend8, en7, pc7, pc8, spent7, spent8, col, tmp,
             line, offtime, shown, started>>
dashVars == <<vars, genVars>>

DashInit ==
  /\ Init
  /\ now = 0
  /\ flag7 = FALSE /\ flag8 = FALSE /\ pend7 = FALSE /\ pend8 = FALSE
  /\ en7 = FALSE
  /\ pc7 = "idle" /\ pc8 = "idle" /\ spent7 = 0 /\ spent8 = 0
  /\ col = 0 /\ tmp = 0
  /\ line = 0 /\ offtime = 0
  /\ shown = {} /\ started = FALSE

-----------------------------------------------------------------------------
Time == UNCHANGED vars /\ Gen!Tick

TC8 == UNCHANGED vars /\ (Gen!Enter8 \/ Gen!TC8_Handler)

\* The row interrupt outside can_receive.
TC7 ==
  /\ UNCHANGED vars
  /\ \/ Gen!Enter7 \/ Gen!Status7 \/ Gen!TestLine \/ Gen!DrawPixel \/ Gen!LoadLine
     \/ Gen!StoreLine \/ Gen!Disable7 \/ Gen!SetOfftime
     \/ pc7 = "return" /\ Gen!Return7

\* Mutant: a new frame is looked for by comparing the indices.
CallByIndex ==
  /\ IF rf0n /\ put # get THEN ReadStatus ELSE UNCHANGED vars
  /\ Gen!Call

\* can_receive reads the status once: with RF0N down it has nothing to do.
CallReceive ==
  /\ IF rf0n THEN ReadStatus ELSE UNCHANGED vars
  /\ Gen!Call

\* Mutant: the main loop calls can_receive.
CalledFromMain ==
  /\ pc7 = "idle" /\ pc8 = "idle" /\ ~pend8 /\ ~(pend7 /\ en7)
  /\ Software
  /\ UNCHANGED genVars

\* The rest of can_receive, at TC7's level.
can_receive ==
  /\ Gen!Run7 /\ pc7 = "receive"
  /\ \/ ClearFlag \/ ReadWord \/ Acknowledge \/ Publish \/ CleanInvalidate
  /\ UNCHANGED genVars

EndReceive == pc7 = "receive" /\ rpc = "idle" /\ UNCHANGED vars /\ Gen!Return7

\* MCAN0 and the other nodes do not wait for the processor.
Bus == (Hardware \/ \E f \in Frames : Receive(f)) /\ UNCHANGED genVars

DashNext == Time \/ TC8 \/ TC7 \/ CallReceive \/ can_receive \/ EndReceive \/ Bus

DashSpec == DashInit /\ [][DashNext]_dashVars

\* As in Controller and CanRx: time passes, what is ready runs, and MCAN0 finishes
\* what it has started to store.
DashFairSpec == DashSpec /\ WF_dashVars(Time) /\ WF_dashVars(TC8)
                 /\ WF_dashVars(TC7 \/ CallReceive \/ can_receive \/ EndReceive)
                 /\ WF_dashVars(Hardware /\ UNCHANGED genVars)

-----------------------------------------------------------------------------
\* can_receive as a whole is what Controller takes it for: it writes the display's
\* data only between the last row of an image and the return of the interrupt.
ImplementsController == Gen!Spec

\* Once the bus is silent, every later image is painted from the last frame sent:
\* no frame stays behind in the FIFO, the cache or a preempted handler.
LastFramePainted ==
  \A f \in Frames :
    f.dlc = 8 /\ f.id = DashId =>
      (<>[](last = f /\ incoming = NoFrame) =>
         <>[](Shows(f) /\ shown \subseteq {display}))
=============================================================================
