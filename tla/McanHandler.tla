---------------------------- MODULE McanHandler ----------------------------
(***************************************************************************)
(* MCAN0_Handler of Can.c, as it is written, with the four filters that    *)
(* Can.c can install: two Rx FIFOs in overwrite mode, dedicated buffers,   *)
(* bus-off and the error flags.  (The build leaves the handler disabled in *)
(* the NVIC and installs one filter; can_receive holds the same text for   *)
(* the buffers and FIFO 0.)                                                *)
(*                                                                         *)
(* MCAN0 stores a frame between any two steps of the handler.  A frame is  *)
(* a number, copied in one step: how a copy races with a store is the      *)
(* question of CanRx.                                                      *)
(***************************************************************************)
EXTENDS Naturals

CONSTANTS
  FIFO_NUM,    \* <<CONF_MCAN0_RX_FIFO_0_NUM, CONF_MCAN0_RX_FIFO_1_NUM>>
  BUFFER_NUM,  \* CONF_MCAN0_RX_BUFFER_NUM
  Buffered,    \* the buffers that the filters 0 route frames to
  DLCs,        \* the lengths of those frames
  Enabled,     \* IE: the flags that raise the interrupt
  MaxFrames, MaxOthers  \* bounds: frames stored, the other events

Flags == {"DRX", "RF0N", "RF1N", "BO", "ERR"}

ASSUME HandlerAssumption ==
  /\ FIFO_NUM \in [1..2 -> Nat \ {0}] /\ BUFFER_NUM \in Nat \ {0}
  /\ Buffered \subseteq 0..(BUFFER_NUM - 1) /\ DLCs \subseteq 0..15
  /\ Enabled \subseteq Flags /\ {MaxFrames, MaxOthers} \subseteq Nat

VARIABLES
  ir, running,      \* IR; is CCCR.INIT clear?
  ram, put, get, fill, \* of each FIFO: its elements, RXFnS
  nd, buffer,       \* NDAT1; the lengths in the dedicated buffers
  pc, status, i,    \* of MCAN0_Handler
  index,            \* standard_receive_index, extended_receive_index
  seen,             \* rx_element_fifo_0 and _1
  last, others      \* history: the last frame stored in each FIFO; how many other events

hw   == <<ir, running, ram, put, get, fill, nd, buffer>>
sw   == <<pc, status, i, index, seen>>
vars == <<hw, sw, last, others>>

Fifos    == {1, 2}             \* FIFO 0 and FIFO 1
Slots(f) == 0..(FIFO_NUM[f] - 1)
NewFlag  == <<"RF0N", "RF1N">>
Both(v)  == [f \in Fifos |-> v]

Init ==
  /\ ir = {} /\ running = TRUE
  /\ ram = [f \in Fifos |-> [s \in Slots(f) |-> 0]]
  /\ put = Both(0) /\ get = Both(0) /\ fill = Both(0)
  /\ nd = {} /\ buffer = [b \in 0..(BUFFER_NUM - 1) |-> 0]
  /\ pc = "idle" /\ status = {} /\ i = 0
  /\ index = Both(0) /\ seen = Both(0) /\ last = Both(0) /\ others = 0

-----------------------------------------------------------------------------
(* MCAN0.                                                                  *)

After(f, s) == (s + 1) % FIFO_NUM[f]
Stored == last[1] + last[2]

\* A frame for FIFO f; a full FIFO drops its oldest element.
StoreFifo(f) ==
  /\ running /\ Stored < MaxFrames
  /\ ram' = [ram EXCEPT ![f] = [@ EXCEPT ![put[f]] = last[f] + 1]]
  /\ put' = [put EXCEPT ![f] = After(f, @)]
  /\ IF fill[f] = FIFO_NUM[f]
     THEN get' = [get EXCEPT ![f] = After(f, @)] /\ UNCHANGED fill
     ELSE fill' = [fill EXCEPT ![f] = @ + 1] /\ UNCHANGED get
  /\ last' = [last EXCEPT ![f] = @ + 1] /\ ir' = ir \cup {NewFlag[f]}
  /\ UNCHANGED <<running, nd, buffer, sw, others>>

\* A buffer whose new-data bit is set takes no other frame.
StoreBuffer(b, dlc) ==
  /\ running /\ b \notin nd /\ others < MaxOthers
  /\ nd' = nd \cup {b} /\ buffer' = [buffer EXCEPT ![b] = dlc]
  /\ ir' = ir \cup {"DRX"} /\ others' = others + 1
  /\ UNCHANGED <<running, ram, put, get, fill, sw, last>>

\* An error on the bus; bus-off stops MCAN0.
Error(flag) ==
  /\ running /\ others < MaxOthers
  /\ ir' = ir \cup {flag} /\ running' = (flag # "BO") /\ others' = others + 1
  /\ UNCHANGED <<ram, put, get, fill, nd, buffer, sw, last>>

Bus ==
  \/ \E f \in Fifos : StoreFifo(f)
  \/ \E b \in Buffered, dlc \in DLCs : StoreBuffer(b, dlc)
  \/ \E flag \in {"BO", "ERR"} : Error(flag)

-----------------------------------------------------------------------------
(* MCAN0_Handler.                                                          *)

Enter ==
  /\ pc = "idle" /\ ir \cap Enabled # {}
  /\ status' = ir /\ pc' = "buffers"
  /\ UNCHANGED <<hw, i, index, seen, last, others>>

\* Mutant: it clears whatever flags are up.
BranchClearsAll(at, flag, then, else) ==
  /\ pc = at
  /\ IF flag \in status THEN pc' = then /\ ir' = {}
     ELSE pc' = else /\ UNCHANGED ir

\* A branch of the handler begins: it clears its flag if the status has it.
Branch(at, flag, then, else) ==
  /\ pc = at
  /\ IF flag \in status THEN pc' = then /\ ir' = ir \ {flag}
     ELSE pc' = else /\ UNCHANGED ir

TestBuffers ==
  /\ Branch("buffers", "DRX", "scan", "fifo0") /\ i' = 0
  /\ UNCHANGED <<running, ram, put, get, fill, nd, buffer, status, index, seen, last, others>>

\* for (i = 0; i < CONF_MCAN0_RX_BUFFER_NUM; i++), whose body prints an element with
\* a loop over the same i.
ScanBuffers ==
  /\ pc = "scan"
  /\ IF i < BUFFER_NUM
     THEN /\ i' = (IF i \in nd THEN buffer[i] ELSE i) + 1 /\ nd' = nd \ {i}
          /\ UNCHANGED pc
     ELSE pc' = "fifo0" /\ UNCHANGED <<nd, i>>
  /\ UNCHANGED <<ir, running, ram, put, get, fill, buffer, status, index, seen, last, others>>

TestFifos ==
  /\ \/ Branch("fifo0", "RF0N", "get0", "fifo1")
     \/ Branch("fifo1", "RF1N", "get1", "busoff")
  /\ UNCHANGED <<running, ram, put, get, fill, nd, buffer, status, i, index, seen, last, others>>

GetElement(f) ==
  /\ pc = <<"get0", "get1">>[f] /\ pc' = <<"ack0", "ack1">>[f]
  /\ seen' = [seen EXCEPT ![f] = ram[f][index[f]]]
  /\ UNCHANGED <<hw, status, i, index, last, others>>

\* MCAN_RXF0A: the get index becomes x + 1 and the fill level follows.  What an x
\* beyond the FIFO does the manual leaves open: any get index.
RXF0A(x) ==
  \E g \in IF x \in Slots(1) THEN {After(1, x)} ELSE Slots(1) :
    /\ get' = [get EXCEPT ![1] = g]
    /\ fill' = [fill EXCEPT ![1] = (put[1] + FIFO_NUM[1] - g) % FIFO_NUM[1]]

\* Mutant: the index is not wrapped.
AdvanceOnly(f) == index' = [index EXCEPT ![f] = @ + 1]

Advance(f) == index' = [index EXCEPT ![f] = IF @ + 1 = FIFO_NUM[f] THEN 0 ELSE @ + 1]

\* Both branches acknowledge in FIFO 0.
Acknowledge(f) ==
  /\ pc = <<"ack0", "ack1">>[f] /\ pc' = <<"fifo1", "busoff">>[f]
  /\ RXF0A(index[f]) /\ Advance(f)
  /\ UNCHANGED <<ir, running, ram, put, nd, buffer, status, i, seen, last, others>>

\* mcan_stop
TestBusOff ==
  /\ Branch("busoff", "BO", "reinit", "errors")
  /\ running' = (running /\ "BO" \notin status)
  /\ UNCHANGED <<ram, put, get, fill, nd, buffer, status, i, index, seen, last, others>>

\* configure_mcan: setting CCCR.CCE resets the FIFOs' indices; mcan_start.  The
\* indices of the software stay.
configure_mcan ==
  /\ pc = "reinit" /\ pc' = "errors"
  /\ put' = Both(0) /\ get' = Both(0) /\ fill' = Both(0) /\ running' = TRUE
  /\ UNCHANGED <<ir, ram, nd, buffer, status, i, index, seen, last, others>>

\* Mutant: the error flags are only reported.
ReportErrors ==
  /\ pc = "errors" /\ pc' = "idle"
  /\ UNCHANGED <<hw, status, i, index, seen, last, others>>

ClearErrors ==
  /\ Branch("errors", "ERR", "idle", "idle")
  /\ UNCHANGED <<running, ram, put, get, fill, nd, buffer, status, i, index, seen, last, others>>

MCAN0_Handler ==
  \/ Enter \/ TestBuffers \/ ScanBuffers \/ TestFifos
  \/ \E f \in Fifos : GetElement(f) \/ Acknowledge(f)
  \/ TestBusOff \/ configure_mcan \/ ClearErrors

Next == Bus \/ MCAN0_Handler

\* An interrupt that is enabled is taken, and the handler runs on; the bus owes nothing.
Spec == Init /\ [][Next]_vars /\ WF_vars(MCAN0_Handler)

-----------------------------------------------------------------------------
TypeOK ==
  /\ ir \subseteq Flags /\ status \subseteq Flags
  /\ nd \subseteq Buffered /\ i \in Nat
  /\ pc \in {"idle", "buffers", "scan", "fifo0", "get0", "ack0", "fifo1", "get1", "ack1",
             "busoff", "reinit", "errors"}
  /\ \A f \in Fifos : /\ put[f] \in Slots(f) /\ get[f] \in Slots(f)
                      /\ fill[f] \in 0..FIFO_NUM[f]
                      /\ index[f] \in Slots(f) /\ seen[f] <= last[f]

\* With the configured sizes, when the handler has nothing left to do it has the newest
\* standard frame and has given its element back, and has read every dedicated buffer,
\* whatever happened on the way: FIFO 1's branch acknowledging FIFO 0's elements, frames
\* stored at any step, MCAN0 re-initialised.
FramesServed ==
  /\ pc = "idle" /\ "RF0N" \notin ir => seen[1] = last[1] /\ fill[1] = 0
  /\ pc = "idle" /\ "DRX" \notin ir => nd = {}

\* No enabled flag stays up for ever, though a frame may be stored at every step; and
\* bus-off does not last, if its interrupt is enabled.
FlagsServed ==
  /\ \A flag \in Enabled : []<>(flag \notin ir)
  /\ "BO" \in Enabled => (~running ~> running)
=============================================================================
