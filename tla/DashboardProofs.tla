-------------------------- MODULE DashboardProofs --------------------------
(***************************************************************************)
(* What Dashboard claims of its two components, for all sizes, timings,    *)
(* FIFO sizes and frames: put together, the handlers and can_receive still *)
(* behave as Controller and CanRx say.                                     *)
(***************************************************************************)
EXTENDS Dashboard, CanRxProofs

\* A step of the whole is a step of the receive path or leaves it alone.
LEMMA RxStep == [DashNext]_dashVars => [Next]_vars
<1> SUFFICES ASSUME [DashNext]_dashVars PROVE Next \/ UNCHANGED vars
  OBVIOUS
<1>1. CASE Time \/ TC8 \/ TC7 \/ EndReceive \/ UNCHANGED dashVars
  BY <1>1 DEF Time, TC8, TC7, EndReceive, dashVars
<1>2. CASE CallReceive
  BY <1>2 DEF CallReceive, Next, Software
<1>3. CASE can_receive
  BY <1>3 DEF can_receive, Next, Software
<1>4. CASE Bus
  BY <1>4 DEF Bus, Next
<1> QED
  BY <1>1, <1>2, <1>3, <1>4 DEF DashNext

\* The composition only takes CanRx's steps: what is proved of them there holds here.
LEMMA RxRuns == DashSpec => Spec
<1>1. DashInit => Init
  BY DEF DashInit
<1> QED
  BY <1>1, RxStep, PTL DEF DashSpec, Spec

\* So the display still ends on the newest frame, when can_receive is only called
\* between images and TC8 preempts it.
COROLLARY NewestFrameInImages ==
  ASSUME FIFO_NUM = 1
  PROVE  DashSpec => []LatestWins
  BY RxRuns, NewestFrameShown, PTL

-----------------------------------------------------------------------------
\* What can_receive writes is always something to display.
LEMMA DisplayType == TypeOK => display \in Display
  BY DEF TypeOK, display, Display

\* The bus and MCAN0 do not touch what is displayed.
LEMMA BusHidden == Bus => UNCHANGED display
<1>1. ASSUME NEW f \in Frames, Receive(f) PROVE UNCHANGED display
  BY <1>1 DEF Receive, outVars, display
<1>2. CASE Hardware
  BY <1>2 DEF Hardware, StoreWord, Commit, outVars, display
<1> QED
  BY <1>1, <1>2 DEF Bus

\* A step of the whole is a step of Controller or leaves it alone.
LEMMA GenStep == TypeOK' /\ [DashNext]_dashVars => [Gen!Next]_(Gen!vars)
<1> SUFFICES ASSUME TypeOK', [DashNext]_dashVars PROVE Gen!Next \/ UNCHANGED Gen!vars
  OBVIOUS
<1>1. UNCHANGED genVars /\ UNCHANGED display => UNCHANGED Gen!vars
  BY DEF genVars, Gen!vars, Gen!timerVars, Gen!cpuVars, Gen!memVars
<1>2. CASE Time
  BY <1>2 DEF Time, Gen!Next
<1>3. CASE TC8
  BY <1>3 DEF TC8, Gen!Next, Gen!Interrupts
<1>4. CASE TC7
  BY <1>4 DEF TC7, Gen!Next, Gen!Interrupts, Gen!TC7_Handler
<1>5. CASE CallReceive
  BY <1>5 DEF CallReceive, Gen!Next, Gen!TC7_Handler
<1>6. CASE can_receive
  <2>1. display' \in Display
    BY DisplayType DEF TypeOK, display, Display
  <2>2. Gen!Publish
    BY <1>6, <2>1 DEF can_receive, genVars, Gen!Publish, Gen!timerVars, Gen!cpuVars
  <2> QED
    BY <2>2 DEF Gen!Next
<1>7. CASE EndReceive
  BY <1>7 DEF EndReceive, Gen!Next, Gen!TC7_Handler
<1>8. CASE Bus
  BY <1>1, <1>8, BusHidden DEF Bus
<1>9. CASE UNCHANGED dashVars
  <2>1. UNCHANGED genVars /\ UNCHANGED display
    BY <1>9 DEF dashVars, vars, outVars, display
  <2> QED
    BY <1>1, <2>1
<1> QED
  BY <1>2, <1>3, <1>4, <1>5, <1>6, <1>7, <1>8, <1>9 DEF DashNext

\* The data changes only where Controller lets it: while can_receive runs.
THEOREM DashboardImplementsController == DashSpec => ImplementsController
<1>1. DashInit => Gen!Init
  <2> SUFFICES ASSUME DashInit PROVE Gen!Init
    OBVIOUS
  <2>1. Init
    BY DEF DashInit
  <2>2. display \in Display
    BY <2>1, TypeInit, DisplayType
  <2> QED
    BY <2>2 DEF DashInit, Gen!Init
<1>2. DashSpec => []TypeOK
  BY RxRuns, TypeCorrect, PTL
<1> QED
  BY <1>1, <1>2, GenStep, PTL DEF DashSpec, ImplementsController, Gen!Spec
=============================================================================
