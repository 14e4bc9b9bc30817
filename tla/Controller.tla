----------------------------- MODULE Controller -----------------------------
(***************************************************************************)
(* The picture generator (src/Controller.c): two timer channels raise the  *)
(* row interrupt TC7 (once per display line) and the frame interrupt TC8   *)
(* (once per frame, at the first visible line); TC7 paints a row, and      *)
(* after the last one turns itself off and calls can_receive; TC8 starts   *)
(* the next frame and turns TC7 on again.  TC8 has the higher priority and *)
(* preempts TC7 between any two of its steps.                              *)
(*                                                                         *)
(* Time is discrete: a line is H ticks.  Instructions take no time of      *)
(* their own; while a handler runs, time passes by Tick, up to the budget  *)
(* of its invocation, so that every placement of its steps against the     *)
(* timers is a behaviour.                                                  *)
(***************************************************************************)
EXTENDS Integers

CONSTANTS
  LINES,   \* visible rows: 272
  PRE,     \* lines from VSYNC to the first row: 13
  POST,    \* lines after the last row: 1
  H,       \* ticks per line (RC of TC7's channel)
  RB7,     \* tick of the line at which TC7 is raised (RB of that channel)
  COLS,    \* pixels of a row: 472
  E7,      \* ticks TC7_Handler may run before it has tested line
  D7,      \* ticks it may run to paint a row
  R7,      \* ticks it may run when it calls can_receive instead
  DELAY,   \* ticks TC8_Handler waits before it turns TC7 on
  D8,      \* ticks one invocation of TC8_Handler may run
  Data     \* versions of what the display shows

ASSUME TimingAssumption ==
  /\ LINES \in Nat /\ LINES > 0 /\ LINES < 65536   \* line is a uint16_t
  /\ H \in Nat /\ H > 0 /\ RB7 \in Nat /\ RB7 < H
  /\ COLS \in Nat /\ COLS > 0
  /\ PRE \in Nat /\ PRE > 0 /\ POST \in Nat
  /\ E7 \in Nat /\ D7 \in Nat /\ R7 \in Nat
  /\ D8 \in Nat /\ DELAY \in Nat /\ DELAY <= D8

VARIABLES
  now,            \* ticks since VSYNC
  flag7, flag8,   \* CPBS in the channels' status registers
  pend7, pend8,   \* NVIC pending
  en7,            \* NVIC enable of TC7
  pc7, pc8,       \* the next step of each handler; "idle" when not active
  spent7, spent8, \* ticks spent in the invocation
  col, tmp,       \* locals of TC7_Handler: pixel index, value read by line++
  line, offtime,
  data,           \* CAN_data, color_temp, color_gear
  shown,          \* history: versions painted in the current image
  started         \* history: TC8 has begun a first frame

timerVars == <<now, flag7, flag8>>
cpuVars == <<pend7, pend8, en7, pc7, pc8, spent7, spent8, col, tmp>>
memVars == <<line, offtime, data>>
vars == <<timerVars, cpuVars, memVars, shown, started>>

PERIOD == (PRE + LINES + POST) * H

\* The line whose row interrupt was raised last.
HwLine == (now - RB7) \div H

-----------------------------------------------------------------------------
\* After controller_init: timers just started, TC7 configured and turned off.
Init ==
  /\ now = 0
  /\ flag7 = FALSE /\ flag8 = FALSE /\ pend7 = FALSE /\ pend8 = FALSE
  /\ en7 = FALSE
  /\ pc7 = "idle" /\ pc8 = "idle" /\ spent7 = 0 /\ spent8 = 0
  /\ col = 0 /\ tmp = 0
  /\ line = 0 /\ offtime = 0
  /\ data \in Data
  /\ shown = {} /\ started = FALSE

-----------------------------------------------------------------------------
(* The processor.  A handler's steps run only while nothing preempts it.   *)

Run8 == pc8 # "idle"
Run7 == pc7 # "idle" /\ pc8 = "idle" /\ ~pend8
Take8 == pend8 /\ pc8 = "idle"
Take7 == pend7 /\ en7 /\ pc7 = "idle" /\ pc8 = "idle" /\ ~pend8

\* The time an invocation of TC7_Handler may have taken at each of its steps.
Budget7 == CASE pc7 \in {"status", "test"} -> E7
             [] pc7 \in {"draw", "load", "store", "return"} -> D7
             [] OTHER -> R7

\* The timers count and raise their compare flags.  A flag that is still up makes
\* no second request: that compare is lost.
Tick ==
  /\ \/ Run8 /\ spent8 < D8 /\ spent8' = spent8 + 1 /\ UNCHANGED spent7
     \/ Run7 /\ spent7 < Budget7 /\ spent7' = spent7 + 1 /\ UNCHANGED spent8
     \/ ~Run8 /\ pc7 = "idle" /\ ~Take8 /\ ~Take7 /\ UNCHANGED <<spent7, spent8>>
  /\ now' = (now + 1) % PERIOD
  /\ LET up7 == now' % H = RB7
         up8 == now' = PRE * H
     IN  /\ flag7' = (flag7 \/ up7)
         /\ flag8' = (flag8 \/ up8)
         /\ pend7' = (pend7 \/ (up7 /\ ~flag7))
         /\ pend8' = (pend8 \/ (up8 /\ ~flag8))
  /\ UNCHANGED <<en7, pc7, pc8, col, tmp, memVars, shown, started>>

Enter8 ==
  /\ Take8
  /\ pend8' = FALSE /\ pc8' = "status" /\ spent8' = 0
  /\ UNCHANGED <<timerVars, pend7, en7, pc7, spent7, col, tmp, memVars, shown, started>>

Enter7 ==
  /\ Take7
  /\ pend7' = FALSE /\ pc7' = "status" /\ spent7' = 0
  /\ UNCHANGED <<timerVars, pend8, en7, pc8, spent8, col, tmp, memVars, shown, started>>

-----------------------------------------------------------------------------
(* TC8_Handler.                                                            *)

\* Mutant: TC8's status register is not read.
SkipStatus8 ==
  /\ pc8 = "status"
  /\ pc8' = "offtime"
  /\ UNCHANGED <<timerVars, pend7, pend8, en7, pc7, spent7, spent8, col, tmp,
                 memVars, shown, started>>

Status8 ==
  /\ pc8 = "status"
  /\ flag8' = FALSE
  /\ pc8' = "offtime"
  /\ UNCHANGED <<now, flag7, pend7, pend8, en7, pc7, spent7, spent8, col, tmp,
                 memVars, shown, started>>

ClearOfftime ==
  /\ pc8 = "offtime"
  /\ offtime' = 0
  /\ pc8' = "reset"
  /\ UNCHANGED <<timerVars, pend7, pend8, en7, pc7, spent7, spent8, col, tmp,
                 line, data, shown, started>>

ResetLine ==
  /\ pc8 = "reset"
  /\ line' = 0
  /\ shown' = {} /\ started' = TRUE
  /\ pc8' = "enable"
  /\ UNCHANGED <<timerVars, pend7, pend8, en7, pc7, spent7, spent8, col, tmp,
                 offtime, data>>

\* Mutant: TC7 is enabled without the delay.
EnableAtOnce ==
  /\ pc8 = "enable"
  /\ en7' = TRUE
  /\ pc8' = "idle" /\ pend8' = (pend8 \/ flag8)
  /\ UNCHANGED <<timerVars, pend7, pc7, spent7, spent8, col, tmp, memVars, shown, started>>

\* Mutant: TC7 is enabled only if offtime says it is off.
EnableIfOfftime ==
  /\ pc8 = "enable" /\ spent8 >= DELAY
  /\ en7' = (en7 \/ offtime = 1)
  /\ pc8' = "idle" /\ pend8' = (pend8 \/ flag8)
  /\ UNCHANGED <<timerVars, pend7, pc7, spent7, spent8, col, tmp, memVars, shown, started>>

\* while (tmot--) nop(); NVIC_EnableIRQ(TC7_IRQn).  What became pending while TC7
\* was off stays pending.  An unread flag raises the interrupt again on return.
Enable7 ==
  /\ pc8 = "enable" /\ spent8 >= DELAY
  /\ en7' = TRUE
  /\ pc8' = "idle" /\ pend8' = (pend8 \/ flag8)
  /\ UNCHANGED <<timerVars, pend7, pc7, spent7, spent8, col, tmp, memVars, shown, started>>

-----------------------------------------------------------------------------
(* TC7_Handler.                                                            *)

Status7 ==
  /\ Run7 /\ pc7 = "status"
  /\ flag7' = FALSE
  /\ pc7' = "test"
  /\ UNCHANGED <<now, flag8, pend7, pend8, en7, pc8, spent7, spent8, col, tmp,
                 memVars, shown, started>>

\* Mutant: line <= LINES.
TestLineOffByOne ==
  /\ Run7 /\ pc7 = "test"
  /\ IF line <= LINES THEN pc7' = "draw" /\ col' = 0
                      ELSE pc7' = "disable" /\ UNCHANGED col
  /\ UNCHANGED <<timerVars, pend7, pend8, en7, pc8, spent7, spent8, tmp,
                 memVars, shown, started>>

\* Mutant: NVIC_DisableIRQ is left out.
TestLineKeepsOn ==
  /\ Run7 /\ pc7 = "test"
  /\ IF line < LINES THEN pc7' = "draw" /\ col' = 0
                     ELSE pc7' = "offtime" /\ UNCHANGED col
  /\ UNCHANGED <<timerVars, pend7, pend8, en7, pc8, spent7, spent8, tmp,
                 memVars, shown, started>>

TestLine ==
  /\ Run7 /\ pc7 = "test"
  /\ IF line < LINES THEN pc7' = "draw" /\ col' = 0
                     ELSE pc7' = "disable" /\ UNCHANGED col
  /\ UNCHANGED <<timerVars, pend7, pend8, en7, pc8, spent7, spent8, tmp,
                 memVars, shown, started>>

\* One pixel: draw_rpm, draw_throttle or draw_temp, each from the data as it is.
DrawPixel ==
  /\ Run7 /\ pc7 = "draw"
  /\ shown' = shown \cup {data}
  /\ col' = col + 1
  /\ pc7' = IF col' = COLS THEN "load" ELSE "draw"
  /\ UNCHANGED <<timerVars, pend7, pend8, en7, pc8, spent7, spent8, tmp, memVars, started>>

\* line++ on a volatile uint16_t: a load, an addition and a store.
LoadLine ==
  /\ Run7 /\ pc7 = "load"
  /\ tmp' = line
  /\ pc7' = "store"
  /\ UNCHANGED <<timerVars, pend7, pend8, en7, pc8, spent7, spent8, col, memVars,
                 shown, started>>

\* Mutant: can_receive is called after every row.
ReceiveEveryRow ==
  /\ Run7 /\ pc7 = "store"
  /\ line' = (tmp + 1) % 65536
  /\ pc7' = "call"
  /\ UNCHANGED <<timerVars, pend7, pend8, en7, pc8, spent7, spent8, col, tmp,
                 offtime, data, shown, started>>

\* Mutant: line counts by two.
StoreTwice ==
  /\ Run7 /\ pc7 = "store"
  /\ line' = (tmp + 2) % 65536
  /\ pc7' = "return"
  /\ UNCHANGED <<timerVars, pend7, pend8, en7, pc8, spent7, spent8, col, tmp,
                 offtime, data, shown, started>>

StoreLine ==
  /\ Run7 /\ pc7 = "store"
  /\ line' = (tmp + 1) % 65536
  /\ pc7' = "return"
  /\ UNCHANGED <<timerVars, pend7, pend8, en7, pc8, spent7, spent8, col, tmp,
                 offtime, data, shown, started>>

Disable7 ==
  /\ Run7 /\ pc7 = "disable"
  /\ en7' = FALSE
  /\ pc7' = "offtime"
  /\ UNCHANGED <<timerVars, pend7, pend8, pc8, spent7, spent8, col, tmp, memVars,
                 shown, started>>

SetOfftime ==
  /\ Run7 /\ pc7 = "offtime"
  /\ offtime' = 1
  /\ pc7' = "call"
  /\ UNCHANGED <<timerVars, pend7, pend8, en7, pc8, spent7, spent8, col, tmp,
                 line, data, shown, started>>

\* can_receive: whatever it writes, and how often, it is done before the return.
Call ==
  /\ Run7 /\ pc7 = "call"
  /\ pc7' = "receive"
  /\ UNCHANGED <<timerVars, pend7, pend8, en7, pc8, spent7, spent8, col, tmp, memVars,
                 shown, started>>

Publish ==
  /\ Run7 /\ pc7 = "receive"
  /\ data' \in Data
  /\ UNCHANGED <<timerVars, cpuVars, line, offtime, shown, started>>

\* Both branches end here: after the row (DE low), or after can_receive.
Return7 ==
  /\ Run7 /\ pc7 \in {"receive", "return"}
  /\ pc7' = "idle" /\ pend7' = (pend7 \/ flag7)
  /\ UNCHANGED <<timerVars, pend8, en7, pc8, spent7, spent8, col, tmp, memVars,
                 shown, started>>

-----------------------------------------------------------------------------
Interrupts == Enter7 \/ Enter8
TC8_Handler == Status8 \/ ClearOfftime \/ ResetLine \/ Enable7
TC7_Handler == Status7 \/ TestLine \/ DrawPixel \/ LoadLine \/ StoreLine
               \/ Disable7 \/ SetOfftime \/ Call \/ Return7
Next == Tick \/ Interrupts \/ TC8_Handler \/ TC7_Handler \/ Publish

Spec == Init /\ [][Next]_vars

\* The timers run for ever and the processor executes what is ready: it has
\* nothing else to do (main is an empty loop).
FairSpec == Spec /\ WF_vars(Tick) /\ WF_vars(Interrupts)
                 /\ WF_vars(TC8_Handler) /\ WF_vars(TC7_Handler)

-----------------------------------------------------------------------------
SignalsOK ==
  /\ flag7 \in BOOLEAN /\ flag8 \in BOOLEAN /\ pend7 \in BOOLEAN /\ pend8 \in BOOLEAN
  /\ en7 \in BOOLEAN /\ started \in BOOLEAN

TypeOK ==
  /\ SignalsOK
  /\ now \in Nat /\ now < PERIOD
  /\ pc7 \in {"idle", "status", "test", "draw", "load", "store", "disable", "offtime",
              "call", "receive", "return"}
  /\ pc8 \in {"idle", "status", "offtime", "reset", "enable"}
  /\ spent7 \in Nat /\ (spent7 <= E7 \/ spent7 <= D7 \/ spent7 <= R7)
  /\ spent8 \in Nat /\ spent8 <= D8
  /\ col \in Nat /\ col <= COLS /\ (pc7 = "draw" => col < COLS)
  /\ tmp \in Nat /\ tmp < LINES
  /\ line \in Nat /\ line <= LINES
  /\ offtime \in {0, 1}
  /\ data \in Data /\ shown \subseteq Data

\* An image is painted from one version of the data, wherever TC8 preempts TC7
\* and however long can_receive or the rows take.
TearFree == \A d, e \in shown : d = e

\* The same as the abstract specification of an image.
ImageOf == INSTANCE Image WITH open <- en7
ImplementsImage == ImageOf!Spec

\* A row beyond the last is never painted, not even when TC8's reset of line is
\* lost between the load and the store of line++.
NoRowBeyondLast == pc7 \in {"draw", "load"} => line < LINES

\* When each row is painted within its line, row n starts in the n-th visible
\* line: the row interrupt left pending during the blanking does not make the
\* picture slip by a line, because TC8 waits past the compare before enabling it.
RowsInTheirLines == [][Enter7 /\ line < LINES => HwLine = PRE + line]_vars

\* When each row is painted within its line, TC8 finds the frame before finished:
\* all rows painted, TC7 off and not active, so nothing of TC7 is preempted.
FrameDoneByVsync ==
  pc8 = "status" /\ started => line = LINES /\ ~en7 /\ offtime = 1 /\ pc7 = "idle"

\* When each row is painted within its line, can_receive is called for every image.
KeepsPolling == []<>(pc7 = "receive")

\* Whatever is lost when TC8 preempts TC7, the row interrupt is on again later:
\* even if TC7 turns itself off after TC8 has turned it on, the picture returns.
PictureReturns == ~en7 ~> en7

-----------------------------------------------------------------------------
(* Why the image is whole (proved in ControllerProofs).                    *)

\* TC7 is on while it paints.  Once it has turned itself off, the data changes
\* only with TC7 off or, if TC8 has turned it on meanwhile, before any row of
\* the new image.
GateInv ==
  /\ pc7 \in {"status", "test", "draw", "load", "store", "return", "disable"} => en7
  /\ pc7 \in {"offtime", "call", "receive"} => ~en7 \/ shown = {}
  /\ pc8 = "enable" => shown = {}
=============================================================================
