-------------------------- MODULE McanHandlerProofs --------------------------
(***************************************************************************)
(* MCAN0_Handler serves every frame of FIFO 0 and of the dedicated buffer, *)
(* for the configured FIFO 0 and buffer of one element each, and any size  *)
(* of FIFO 1, whose branch acknowledges in FIFO 0.                         *)
(***************************************************************************)
EXTENDS McanHandler, TLAPS

Configured == FIFO_NUM[1] = 1 /\ BUFFER_NUM = 1

\* With one element every index of FIFO 0 is 0 and the element is the newest frame.
OneElement ==
  /\ put \in [Fifos -> Nat] /\ get \in [Fifos -> Nat] /\ fill \in [Fifos -> Nat]
  /\ last \in [Fifos -> Nat] /\ index \in [Fifos -> Nat] /\ DOMAIN seen = Fifos
  /\ DOMAIN ram = Fifos /\ DOMAIN ram[1] = {0}
  /\ put[1] = 0 /\ get[1] = 0 /\ index[1] = 0
  /\ ram[1][0] = last[1]

\* A frame that has not been read is announced by its flag, or is about to be read; the
\* element is released after that; and so for the buffer.
Announced ==
  /\ "RF0N" \in ir \/ pc = "get0" \/ seen[1] = last[1]
  /\ "RF0N" \in ir \/ pc \in {"get0", "ack0"} \/ fill[1] = 0
  /\ nd \subseteq {0}
  /\ "DRX" \in ir \/ (pc = "scan" /\ i = 0) \/ nd = {}

IInv == OneElement /\ Announced

-----------------------------------------------------------------------------
LEMMA InitInv == Configured /\ Init => IInv
<1> SUFFICES ASSUME Configured, Init PROVE IInv
  OBVIOUS
<1>1. Slots(1) = {0}
  BY DEF Configured, Slots
<1> QED
  BY <1>1 DEF Init, IInv, OneElement, Announced, Fifos, Both

\* The bus: whatever it stores, it raises the flag for.
LEMMA BusInv == ASSUME Configured, IInv, Bus PROVE IInv'
<1> USE DEF IInv, OneElement, Announced, Fifos, sw
<1>1. ASSUME NEW f \in Fifos, StoreFifo(f) PROVE IInv'
  <2>1. FIFO_NUM[f] \in Nat \ {0} /\ FIFO_NUM[1] = 1
    BY HandlerAssumption DEF Configured
  <2>2. \A s \in Nat : After(1, s) = 0
    BY <2>1 DEF After
  <2>3. \A s \in Nat : After(f, s) \in Nat
    BY <2>1 DEF After
  <2>4. CASE f = 1
    <3>1. "RF0N" \in ir' /\ ("DRX" \in ir => "DRX" \in ir') /\ pc' = pc /\ nd' = nd /\ i' = i
      BY <1>1, <2>4 DEF StoreFifo, NewFlag
    <3>2. put' \in [Fifos -> Nat] /\ get' \in [Fifos -> Nat] /\ fill' \in [Fifos -> Nat]
          /\ put'[1] = 0 /\ get'[1] = 0
      BY <1>1, <2>2, <2>3, <2>4 DEF StoreFifo
    <3>3. last' \in [Fifos -> Nat] /\ last'[1] = last[1] + 1 /\ seen' = seen /\ index' = index
      BY <1>1, <2>4 DEF StoreFifo
    <3>4. DOMAIN ram' = Fifos /\ DOMAIN ram'[1] = {0} /\ ram'[1][0] = last[1] + 1
      BY <1>1, <2>4 DEF StoreFifo
    <3> QED
      BY <3>1, <3>2, <3>3, <3>4
  <2>5. CASE f = 2
    <3>1. ir \subseteq ir' /\ pc' = pc /\ nd' = nd /\ i' = i
      BY <1>1, <2>5 DEF StoreFifo
    <3>2. put' \in [Fifos -> Nat] /\ get' \in [Fifos -> Nat] /\ fill' \in [Fifos -> Nat]
          /\ put'[1] = 0 /\ get'[1] = 0 /\ fill'[1] = fill[1]
      BY <1>1, <2>3, <2>5 DEF StoreFifo
    <3>3. last' \in [Fifos -> Nat] /\ last'[1] = last[1] /\ seen' = seen /\ index' = index
      BY <1>1, <2>5 DEF StoreFifo
    <3>4. DOMAIN ram' = Fifos /\ ram'[1] = ram[1]
      BY <1>1, <2>5 DEF StoreFifo
    <3> QED
      BY <3>1, <3>2, <3>3, <3>4
  <2> QED
    BY <2>4, <2>5
<1>2. ASSUME NEW b \in Buffered, NEW dlc \in DLCs, StoreBuffer(b, dlc) PROVE IInv'
  <2>1. b = 0
    BY HandlerAssumption DEF Configured
  <2> QED
    BY <1>2, <2>1 DEF StoreBuffer
<1>3. ASSUME NEW flag \in {"BO", "ERR"}, Error(flag) PROVE IInv'
  BY <1>3 DEF Error
<1> QED
  BY <1>1, <1>2, <1>3 DEF Bus

\* The handler: each branch clears only its own flag, and before it reads.
LEMMA HandlerInv == ASSUME Configured, IInv, MCAN0_Handler PROVE IInv'
<1> USE DEF IInv, OneElement, Announced, Fifos, hw
<1>0. FIFO_NUM[1] = 1 /\ FIFO_NUM[2] \in Nat \ {0}
  BY HandlerAssumption DEF Configured
<1>1. CASE Enter
  BY <1>1 DEF Enter
<1>2. CASE TestBuffers
  BY <1>2 DEF TestBuffers, Branch
<1>3. CASE ScanBuffers
  <2>1. BUFFER_NUM = 1
    BY DEF Configured
  <2>2. nd' \subseteq nd /\ ir' = ir
    BY <1>3 DEF ScanBuffers
  <2>3. CASE pc = "scan" /\ i = 0
    <3>1. nd' = nd \ {0}
      BY <1>3, <2>1, <2>3 DEF ScanBuffers
    <3>2. nd' = {}
      BY <3>1
    <3> QED
      BY <1>3, <3>2 DEF ScanBuffers
  <2>4. CASE "DRX" \in ir \/ nd = {}
    <3>1. "DRX" \in ir' \/ nd' = {}
      BY <2>2, <2>4
    <3> QED
      BY <1>3, <2>2, <3>1 DEF ScanBuffers
  <2> QED
    BY <2>3, <2>4
<1>4. CASE TestFifos
  BY <1>4 DEF TestFifos, Branch
<1>5. ASSUME NEW f \in Fifos, GetElement(f) PROVE IInv'
  <2>1. CASE f = 1
    <3>1. pc = "get0" /\ pc' = "ack0" /\ seen'[1] = last[1] /\ DOMAIN seen' = Fifos
      BY <1>5, <2>1 DEF GetElement
    <3> QED
      BY <1>5, <3>1 DEF GetElement
  <2>2. CASE f = 2
    <3>1. pc = "get1" /\ pc' = "ack1" /\ seen'[1] = seen[1] /\ DOMAIN seen' = Fifos
      BY <1>5, <2>2 DEF GetElement
    <3> QED
      BY <1>5, <3>1 DEF GetElement
  <2> QED
    BY <2>1, <2>2
<1>6. ASSUME NEW f \in Fifos, Acknowledge(f) PROVE IInv'
  BY <1>0, <1>6 DEF Acknowledge, RXF0A, Advance, Slots, After
<1>7. CASE TestBusOff
  BY <1>7 DEF TestBusOff, Branch
<1>8. CASE configure_mcan
  BY <1>8 DEF configure_mcan, Both
<1>9. CASE ClearErrors
  BY <1>9 DEF ClearErrors, Branch
<1> QED
  BY <1>1, <1>2, <1>3, <1>4, <1>5, <1>6, <1>7, <1>8, <1>9 DEF MCAN0_Handler

-----------------------------------------------------------------------------
\* For the configured sizes of FIFO 0 and of the buffers, and any FIFO 1 and number of
\* frames: with nothing left to do, the handler has the newest standard frame, has given
\* its element back, and has read the buffer.
THEOREM AlwaysServed ==
  ASSUME Configured
  PROVE  Spec => []FramesServed
<1>1. Init => IInv
  BY InitInv
<1>2. IInv /\ [Next]_vars => IInv'
  <2>1. IInv /\ UNCHANGED vars => IInv'
    BY DEF IInv, OneElement, Announced, vars, hw, sw
  <2> QED
    BY <2>1, BusInv, HandlerInv DEF Next
<1>3. IInv => FramesServed
  BY DEF IInv, OneElement, Announced, FramesServed
<1> QED
  BY <1>1, <1>2, <1>3, PTL DEF Spec
-----------------------------------------------------------------------------
(* Types, for FIFOs and buffers of any size.                               *)

\* An element holds a frame that was stored; the indices are those of elements.
Elements ==
  /\ put \in [Fifos -> Nat] /\ get \in [Fifos -> Nat] /\ fill \in [Fifos -> Nat]
  /\ index \in [Fifos -> Nat] /\ seen \in [Fifos -> Nat] /\ last \in [Fifos -> Nat]
  /\ DOMAIN ram = Fifos
  /\ \A f \in Fifos :
       /\ put[f] < FIFO_NUM[f] /\ get[f] < FIFO_NUM[f] /\ index[f] < FIFO_NUM[f]
       /\ fill[f] <= FIFO_NUM[f] /\ seen[f] <= last[f]
       /\ ram[f] \in [Slots(f) -> Nat]
       /\ \A s \in Slots(f) : ram[f][s] <= last[f]

Control ==
  /\ ir \subseteq Flags /\ status \subseteq Flags
  /\ nd \subseteq Buffered /\ buffer \in [0..(BUFFER_NUM - 1) -> 0..15] /\ i \in Nat
  /\ pc \in {"idle", "buffers", "scan", "fifo0", "get0", "ack0", "fifo1", "get1", "ack1",
             "busoff", "reinit", "errors"}

TypedInv == Elements /\ Control

LEMMA Sizes == /\ \A f \in Fifos : FIFO_NUM[f] \in Nat \ {0}
               /\ \A f \in Fifos, s \in Nat : After(f, s) \in Nat /\ After(f, s) < FIFO_NUM[f]
<1>1. \A f \in Fifos : FIFO_NUM[f] \in Nat \ {0}
  BY HandlerAssumption DEF Fifos
<1>2. \A s \in Nat, n \in Nat \ {0} : (s + 1) % n \in Nat /\ (s + 1) % n < n
  OBVIOUS
<1> QED  BY <1>1, <1>2 DEF After

LEMMA InSlots == \A f \in Fifos : /\ Slots(f) \subseteq Nat
                                 /\ \A n \in Nat : n \in Slots(f) <=> n < FIFO_NUM[f]
<1> SUFFICES ASSUME NEW f \in Fifos
             PROVE  /\ Slots(f) \subseteq Nat
                    /\ \A n \in Nat : n \in Slots(f) <=> n < FIFO_NUM[f]
  OBVIOUS
<1>1. FIFO_NUM[f] \in Nat \ {0}
  BY Sizes
<1> QED  BY <1>1 DEF Slots

LEMMA InitTyped == Init => TypedInv
<1> SUFFICES ASSUME Init PROVE TypedInv
  OBVIOUS
<1>1. Elements
  <2>1. \A f \in Fifos : ram[f] = [s \in Slots(f) |-> 0] /\ DOMAIN ram = Fifos
    BY DEF Init
  <2>2. \A f \in Fifos : ram[f] \in [Slots(f) -> Nat] /\ \A s \in Slots(f) : ram[f][s] = 0
    <3> SUFFICES ASSUME NEW f \in Fifos
                 PROVE  ram[f] \in [Slots(f) -> Nat] /\ \A s \in Slots(f) : ram[f][s] = 0
      OBVIOUS
    <3>1. ram[f] = [s \in Slots(f) |-> 0]
      BY <2>1
    <3> QED  BY <3>1
  <2>3. DOMAIN ram = Fifos
    BY DEF Init
  <2>4. \A f \in Fifos : FIFO_NUM[f] \in Nat /\ 0 < FIFO_NUM[f]
    BY Sizes
  <2> QED  BY <2>2, <2>3, <2>4 DEF Init, Elements, Both
<1>2. Control
  BY DEF Init, Control, Flags
<1> QED  BY <1>1, <1>2 DEF TypedInv

LEMMA StoreTyped == ASSUME TypedInv, NEW f \in Fifos, StoreFifo(f) PROVE Elements'
<1> USE DEF StoreFifo
<1>1. FIFO_NUM[f] \in Nat /\ put[f] \in Slots(f) /\ After(f, put[f]) \in Nat
      /\ After(f, get[f]) \in Nat /\ After(f, put[f]) < FIFO_NUM[f]
      /\ After(f, get[f]) < FIFO_NUM[f]
  BY Sizes DEF TypedInv, Elements, Slots
<1>2. /\ put' \in [Fifos -> Nat] /\ index' = index /\ seen' = seen
      /\ \A g \in Fifos : put'[g] < FIFO_NUM[g]
  BY <1>1 DEF TypedInv, Elements, sw
<1>3. /\ last' \in [Fifos -> Nat] /\ last'[f] = last[f] + 1
      /\ \A g \in Fifos : last'[g] >= last[g]
  BY DEF TypedInv, Elements
<1>4. /\ get' \in [Fifos -> Nat] /\ fill' \in [Fifos -> Nat]
      /\ \A g \in Fifos : get'[g] < FIFO_NUM[g] /\ fill'[g] <= FIFO_NUM[g]
  <2>1. CASE fill[f] = FIFO_NUM[f]
    BY <1>1, <2>1 DEF TypedInv, Elements
  <2>2. CASE fill[f] # FIFO_NUM[f]
    <3>1. get' = get /\ fill' = [fill EXCEPT ![f] = @ + 1]
      BY <2>2
    <3>2. fill \in [Fifos -> Nat] /\ \A g \in Fifos : fill[g] <= FIFO_NUM[g]
      BY DEF TypedInv, Elements
    <3>3. fill[f] + 1 <= FIFO_NUM[f]
      BY <1>1, <2>2, <3>2
    <3>4. \A g \in Fifos : fill'[g] <= FIFO_NUM[g]
      BY <3>1, <3>2, <3>3
    <3> QED  BY <3>1, <3>2, <3>4 DEF TypedInv, Elements
  <2> QED  BY <2>1, <2>2
<1>5. /\ DOMAIN ram' = Fifos
      /\ ram'[f] = [ram[f] EXCEPT ![put[f]] = last[f] + 1]
      /\ \A g \in Fifos \ {f} : ram'[g] = ram[g]
  BY DEF TypedInv, Elements
<1>6. ram'[f] \in [Slots(f) -> Nat] /\ \A s \in Slots(f) : ram'[f][s] <= last'[f]
  <2>1. ram[f] \in [Slots(f) -> Nat] /\ last[f] \in Nat
        /\ \A s \in Slots(f) : ram[f][s] <= last[f]
    BY DEF TypedInv, Elements
  <2>2. \A s \in Slots(f) : ram'[f][s] = IF s = put[f] THEN last[f] + 1 ELSE ram[f][s]
    BY <1>5, <2>1
  <2>3. \A s \in Slots(f) : ram'[f][s] <= last'[f]
    BY <1>3, <2>1, <2>2
  <2> QED  BY <1>1, <1>5, <2>1, <2>3
<1>7. \A g \in Fifos \ {f} : ram'[g] \in [Slots(g) -> Nat]
                             /\ \A s \in Slots(g) : ram'[g][s] <= last'[g]
  <2> SUFFICES ASSUME NEW g \in Fifos \ {f}
               PROVE  ram'[g] \in [Slots(g) -> Nat] /\ \A s \in Slots(g) : ram'[g][s] <= last'[g]
    OBVIOUS
  <2>1. ram[g] \in [Slots(g) -> Nat] /\ \A s \in Slots(g) : ram[g][s] <= last[g]
    BY DEF TypedInv, Elements
  <2>2. last[g] \in Nat /\ last'[g] \in Nat /\ last[g] <= last'[g] /\ ram'[g] = ram[g]
    BY <1>3, <1>5 DEF TypedInv, Elements
  <2> QED  BY <2>1, <2>2
<1>8. \A g \in Fifos : seen'[g] <= last'[g]
  BY <1>2, <1>3 DEF TypedInv, Elements
<1> QED  BY <1>2, <1>3, <1>4, <1>5, <1>6, <1>7, <1>8 DEF TypedInv, Elements

LEMMA BusTyped == ASSUME TypedInv, Bus PROVE TypedInv'
<1>1. ASSUME NEW f \in Fifos, StoreFifo(f) PROVE TypedInv'
  <2>1. Elements'
    BY <1>1, StoreTyped
  <2>2. NewFlag[f] \in Flags
    BY DEF NewFlag, Flags, Fifos
  <2>3. Control'
    BY <1>1, <2>2 DEF StoreFifo, sw, TypedInv, Control
  <2> QED  BY <2>1, <2>3 DEF TypedInv
<1>2. ASSUME NEW b \in Buffered, NEW dlc \in DLCs, StoreBuffer(b, dlc) PROVE TypedInv'
  <2>1. Elements'
    BY <1>2 DEF StoreBuffer, sw, TypedInv, Elements
  <2>2. dlc \in 0..15 /\ b \in 0..(BUFFER_NUM - 1)
    BY HandlerAssumption
  <2>3. Control'
    BY <1>2, <2>2 DEF StoreBuffer, sw, TypedInv, Control, Flags
  <2> QED  BY <2>1, <2>3 DEF TypedInv
<1>3. ASSUME NEW flag \in {"BO", "ERR"}, Error(flag) PROVE TypedInv'
  BY <1>3 DEF Error, sw, TypedInv, Control, Elements, Flags
<1> QED  BY <1>1, <1>2, <1>3 DEF Bus

\* Either branch gives back an element of FIFO 0; FIFO 1's index may be none of its.
LEMMA AcknowledgeTyped == ASSUME TypedInv, NEW f \in Fifos, Acknowledge(f) PROVE TypedInv'
<1> USE DEF Acknowledge
<1>1. PICK g \in Slots(1) : /\ get' = [get EXCEPT ![1] = g]
                            /\ fill' = [fill EXCEPT ![1] = (put[1] + FIFO_NUM[1] - g) % FIFO_NUM[1]]
  <2>1. 1 \in Fifos /\ index[f] \in Nat /\ FIFO_NUM[1] \in Nat
    BY Sizes DEF TypedInv, Elements, Fifos
  <2>2. After(1, index[f]) \in Slots(1)
    BY <2>1, Sizes DEF Slots
  <2> QED  BY <2>2 DEF RXF0A
<1>2. FIFO_NUM[1] \in Nat \ {0} /\ put[1] \in Nat /\ g \in Nat /\ g < FIFO_NUM[1]
  <2>1. 1 \in Fifos
    BY DEF Fifos
  <2>2. g \in Nat /\ g < FIFO_NUM[1]
    BY <1>1, <2>1, InSlots
  <2> QED  BY <2>1, <2>2, Sizes DEF TypedInv, Elements
<1>3. /\ (put[1] + FIFO_NUM[1] - g) % FIFO_NUM[1] \in Nat
      /\ (put[1] + FIFO_NUM[1] - g) % FIFO_NUM[1] < FIFO_NUM[1]
  <2>1. put[1] + FIFO_NUM[1] - g \in Nat
    BY <1>2
  <2>2. \A s \in Nat, n \in Nat \ {0} : s % n \in Nat /\ s % n < n
    OBVIOUS
  <2> QED  BY <1>2, <2>1, <2>2
<1>4. /\ get' \in [Fifos -> Nat] /\ fill' \in [Fifos -> Nat]
      /\ \A h \in Fifos : get'[h] < FIFO_NUM[h] /\ fill'[h] <= FIFO_NUM[h]
  BY <1>1, <1>2, <1>3 DEF TypedInv, Elements, Fifos
<1>5. index' \in [Fifos -> Nat] /\ \A h \in Fifos : index'[h] < FIFO_NUM[h]
  <2>1. index \in [Fifos -> Nat] /\ \A h \in Fifos : index[h] < FIFO_NUM[h]
    BY DEF TypedInv, Elements
  <2>2. FIFO_NUM[f] \in Nat \ {0} /\ index[f] \in Nat /\ index[f] < FIFO_NUM[f]
    BY <2>1, Sizes
  <2> DEFINE next == IF index[f] + 1 = FIFO_NUM[f] THEN 0 ELSE index[f] + 1
  <2>3. next \in Nat /\ next < FIFO_NUM[f]
    BY <2>2
  <2>4. index' = [index EXCEPT ![f] = next]
    BY DEF Advance
  <2> HIDE DEF next
  <2> QED  BY <2>1, <2>3, <2>4
<1>6. Elements'
  BY <1>4, <1>5 DEF TypedInv, Elements
<1>7. pc' \in {"fifo1", "busoff"}
  BY DEF Fifos
<1> QED  BY <1>6, <1>7 DEF TypedInv, Control

LEMMA HandlerTyped == ASSUME TypedInv, MCAN0_Handler PROVE TypedInv'
<1>1. CASE Enter
  BY <1>1 DEF Enter, hw, TypedInv, Control, Elements
<1>2. CASE TestBuffers
  BY <1>2 DEF TestBuffers, Branch, TypedInv, Control, Elements
<1>3. CASE ScanBuffers
  <2>1. BUFFER_NUM \in Nat
    BY HandlerAssumption
  <2>2. i < BUFFER_NUM => (IF i \in nd THEN buffer[i] ELSE i) + 1 \in Nat
    <3>1. buffer \in [0..(BUFFER_NUM - 1) -> 0..15] /\ i \in Nat
      BY DEF TypedInv, Control
    <3>2. ASSUME i < BUFFER_NUM  PROVE buffer[i] \in 0..15
      <4>1. i \in 0..(BUFFER_NUM - 1)
        BY <2>1, <3>1, <3>2
      <4> QED  BY <3>1, <4>1
    <3> QED  BY <3>1, <3>2
  <2>3. i' \in Nat /\ nd' \subseteq nd /\ pc' \in {pc, "fifo0"}
    BY <1>3, <2>2 DEF ScanBuffers, TypedInv, Control
  <2>4. Control'
    BY <1>3, <2>3 DEF ScanBuffers, TypedInv, Control
  <2>5. Elements'
    BY <1>3 DEF ScanBuffers, TypedInv, Elements
  <2> QED  BY <2>4, <2>5 DEF TypedInv
<1>4. CASE TestFifos
  BY <1>4 DEF TestFifos, Branch, TypedInv, Control, Elements
<1>5. ASSUME NEW f \in Fifos, GetElement(f) PROVE TypedInv'
  <2>1. ram[f][index[f]] \in Nat /\ ram[f][index[f]] <= last[f]
    <3>1. ram[f] \in [Slots(f) -> Nat] /\ \A s \in Slots(f) : ram[f][s] <= last[f]
      BY DEF TypedInv, Elements
    <3>2. index[f] \in Slots(f)
      BY InSlots DEF TypedInv, Elements
    <3> QED  BY <3>1, <3>2, InSlots DEF TypedInv, Elements
  <2>2. seen' \in [Fifos -> Nat] /\ \A g \in Fifos : seen'[g] <= last[g]
    BY <1>5, <2>1 DEF GetElement, TypedInv, Elements
  <2>3. pc' \in {"ack0", "ack1"}
    BY <1>5 DEF GetElement, Fifos
  <2> QED  BY <1>5, <2>2, <2>3 DEF GetElement, hw, TypedInv, Control, Elements
<1>6. ASSUME NEW f \in Fifos, Acknowledge(f) PROVE TypedInv'
  BY <1>6, AcknowledgeTyped
<1>7. CASE TestBusOff
  BY <1>7 DEF TestBusOff, Branch, TypedInv, Control, Elements
<1>8. CASE configure_mcan
  <2>1. /\ put' \in [Fifos -> Nat] /\ get' \in [Fifos -> Nat] /\ fill' \in [Fifos -> Nat]
        /\ \A f \in Fifos : put'[f] = 0 /\ get'[f] = 0 /\ fill'[f] = 0
    BY <1>8 DEF configure_mcan, Both
  <2>2. \A f \in Fifos : FIFO_NUM[f] \in Nat /\ 0 < FIFO_NUM[f]
    BY Sizes
  <2>3. Elements'
    BY <1>8, <2>1, <2>2 DEF configure_mcan, TypedInv, Elements
  <2> QED  BY <1>8, <2>3 DEF configure_mcan, TypedInv, Control
<1>9. CASE ClearErrors
  BY <1>9 DEF ClearErrors, Branch, TypedInv, Control, Elements
<1> QED
  BY <1>1, <1>2, <1>3, <1>4, <1>5, <1>6, <1>7, <1>8, <1>9 DEF MCAN0_Handler

\* Whatever the sizes of the FIFOs and buffers: the indices and fill levels of the
\* hardware and of the software stay within each FIFO, though the branch of FIFO 1
\* acknowledges with its own index in FIFO 0, and the handler only ever reads frames that
\* were stored.
THEOREM HandlerAlwaysTyped == Spec => []TypeOK
<1>1. Init => TypedInv
  BY InitTyped
<1>2. TypedInv /\ [Next]_vars => TypedInv'
  <2>1. TypedInv /\ UNCHANGED vars => TypedInv'
    BY DEF TypedInv, Elements, Control, vars, hw, sw
  <2> QED  BY <2>1, BusTyped, HandlerTyped DEF Next
<1>3. TypedInv => TypeOK
  <2> SUFFICES ASSUME TypedInv PROVE TypeOK
    OBVIOUS
  <2>1. \A f \in Fifos : /\ put[f] \in Slots(f) /\ get[f] \in Slots(f)
                        /\ fill[f] \in 0..FIFO_NUM[f]
                        /\ index[f] \in Slots(f) /\ seen[f] <= last[f]
    <3> SUFFICES ASSUME NEW f \in Fifos
                 PROVE  /\ put[f] \in Slots(f) /\ get[f] \in Slots(f)
                        /\ fill[f] \in 0..FIFO_NUM[f]
                        /\ index[f] \in Slots(f) /\ seen[f] <= last[f]
      OBVIOUS
    <3>1. put[f] \in Slots(f) /\ get[f] \in Slots(f) /\ index[f] \in Slots(f)
      BY InSlots DEF TypedInv, Elements
    <3>2. fill[f] \in Nat /\ fill[f] <= FIFO_NUM[f] /\ FIFO_NUM[f] \in Nat
      BY Sizes DEF TypedInv, Elements
    <3> QED  BY <3>1, <3>2 DEF TypedInv, Elements
  <2> QED  BY <2>1 DEF TypedInv, Control, TypeOK
<1> QED  BY <1>1, <1>2, <1>3, PTL DEF Spec
=============================================================================
