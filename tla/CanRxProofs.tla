---------------------------- MODULE CanRxProofs ----------------------------
(***************************************************************************)
(* Proofs about CanRx, for every set of frames: the types hold for every   *)
(* FIFO size, and with one element, the size the project configures, the   *)
(* display shows the newest frame whole whenever can_receive is done.      *)
(***************************************************************************)
EXTENDS CanRx, TLAPS

\* A word transferred between elements gives an element.
LEMMA TransferType ==
  ASSUME NEW w \in Words, NEW e \in Element, NEW f, f.dlc \in 0..8, f.data \in [0..7 -> Byte]
  PROVE  Transfer(w, f, e) \in Element
  BY DEF Transfer, Element, Words

\* The transferred word is the source's; the other words are what they were.
LEMMA TransferSame ==
  ASSUME NEW w \in Words, NEW e \in Element, NEW f, f.dlc \in 0..8, f.data \in [0..7 -> Byte]
  PROVE  /\ Same(w, Transfer(w, f, e), f)
         /\ \A v \in Words \ {w} : \A g : Same(v, e, g) => Same(v, Transfer(w, f, e), g)
  BY DEF Transfer, Same, WordOf, Words, Element

\* A whole 8-byte element decodes to the same values whatever was there before.
LEMMA DecodeFull ==
  ASSUME NEW e \in Element, NEW f, f.dlc = 8, NEW old, NEW older,
         \A w \in Words : Same(w, e, f)
  PROVE  Decode(old, e) = Decode(older, f)
<1>1. e.dlc = 8
  BY DEF Same, Words
<1>2. \A i \in 0..7 : e.data[i] = f.data[i]
  BY DEF Same, Words, WordOf
<1> QED
  BY <1>1, <1>2 DEF Decode

\* Scaling keeps a value within uint16_t.
LEMMA ScaleType ==
  ASSUME NEW x \in Uint16
  PROVE  ScaleRpm(x) \in Uint16 /\ ScaleTps(x) \in Uint16
<1>1. \A y \in Nat : y % 65536 \in Nat /\ y % 65536 < 65536
  OBVIOUS
<1>2. (x * 185) \div 100 \in Nat /\ (x * 47) \div 10 \in Nat
  BY DEF Uint16
<1> QED
  BY <1>1, <1>2 DEF ScaleRpm, ScaleTps, Uint16

\* Decoding keeps the eight values within uint16_t.
LEMMA DecodeType ==
  ASSUME NEW e \in Element, NEW old \in [0..7 -> Uint16]
  PROVE  Decode(old, e) \in [0..7 -> Uint16]
<1> DEFINE d(i) == IF i < e.dlc THEN e.data[i] ELSE old[i]
<1>1. \A x \in Byte : x \in Uint16
  BY DEF Byte, Uint16
<1>2. \A i \in 0..7 : d(i) \in Uint16
  BY <1>1 DEF Element
<1>3. ScaleRpm(d(0)) \in Uint16 /\ ScaleTps(d(3)) \in Uint16
  BY <1>2, ScaleType
<1> HIDE DEF d
<1>4. Decode(old, e) = [i \in 0..7 |-> CASE i = 0 -> ScaleRpm(d(0))
                                         [] i = 3 -> ScaleTps(d(3))
                                         [] OTHER -> d(i)]
  BY DEF Decode, d
<1> QED
  BY <1>2, <1>3, <1>4

-----------------------------------------------------------------------------
\* The state main leaves has the right types.
LEMMA TypeInit == Init => TypeOK
<1>1. Zero \in Element /\ 0 \in Slots
  BY FifoAssumption DEF Zero, Element, Byte, Slots
<1>2. [i \in 0..7 |-> IF i = 0 THEN 470 ELSE 0] \in [0..7 -> Uint16]
  BY DEF Uint16
<1>3. Init => rf0n \in BOOLEAN
  BY Zenon DEF Init
<1>4. 0 \in 0..FIFO_NUM
  BY FifoAssumption
<1> QED
  BY <1>1, <1>2, <1>3, <1>4 DEF Init, TypeOK, Palette

\* Type correctness, for every FIFO size: the indices stay inside the FIFO and
\* the values inside uint16_t whatever the order of storing and copying.
THEOREM TypeCorrect == Spec => []TypeOK
<1>1. Init => TypeOK
  BY TypeInit
<1>2. TypeOK /\ [Next]_vars => TypeOK'
  <2> SUFFICES ASSUME TypeOK, [Next]_vars PROVE TypeOK'
    OBVIOUS
  <2> USE FifoAssumption
  <2>1. \A i \in Slots : Next1(i) \in Slots
    BY DEF Next1, Slots
  <2>2. ASSUME NEW f \in Frames, Receive(f) PROVE TypeOK'
    BY <2>2 DEF Receive, TypeOK, hwVars, cacheVars, outVars
  <2>3. CASE StoreWord
    <3>1. incoming \in Frames /\ incoming.dlc \in 0..8 /\ incoming.data \in [0..7 -> Byte]
      BY <2>3, FramesAssumption DEF StoreWord, TypeOK
    <3>2. Transfer(stored, incoming, ram[put]) \in Element
      BY <2>3, <3>1, TransferType DEF StoreWord, TypeOK, Words
    <3> QED
      BY <2>3, <3>2 DEF StoreWord, TypeOK, hwVars, cacheVars, outVars
  <2>4. CASE Commit
    BY <2>4, <2>1 DEF Commit, TypeOK, hwVars, cacheVars, outVars
  <2>5. CASE ReadStatus
    BY <2>5 DEF ReadStatus, TypeOK, hwVars, cacheVars, outVars
  <2>6. CASE ClearFlag
    <3>1. rf0n' \in BOOLEAN
      BY <2>6, Zenon DEF ClearFlag
    <3>2. nread' \in 0..3 /\ nread' < 3
      BY <2>6 DEF ClearFlag
    <3> QED
      BY <2>6, <3>1, <3>2 DEF ClearFlag, TypeOK, cacheVars, outVars
  <2>7. CASE ReadWord
    <3> DEFINE s   == standard_receive_index
               hit == <<s, nread>> \in valid
               src == IF hit THEN cache[s] ELSE ram[s]
    <3>1. s \in Slots /\ nread \in Words /\ src \in Element
      BY <2>7 DEF ReadWord, TypeOK, Words
    <3>2. src.dlc \in 0..8 /\ src.data \in [0..7 -> Byte]
      BY <3>1 DEF Element
    <3> HIDE DEF hit, src
    <3>3. Transfer(nread, src, elem) \in Element /\ Transfer(nread, src, cache[s]) \in Element
      BY <3>1, <3>2, TransferType DEF TypeOK
    <3>4. elem' \in Element /\ cache' \in [Slots -> Element]
      BY <2>7, <3>1, <3>3 DEF ReadWord, TypeOK, src, hit
    <3>5. valid' \subseteq Slots \X Words
      BY <2>7, <3>1 DEF ReadWord, TypeOK
    <3>6. nread' \in 0..3 /\ (rpc' = "read" => nread' < 3)
      BY <2>7, <3>1 DEF ReadWord, Words
    <3> QED
      BY <2>7, <3>4, <3>5, <3>6 DEF ReadWord, TypeOK, hwVars, outVars
  <2>8. CASE Acknowledge
    <3>1. get' \in Slots /\ put \in Slots
      BY <2>8, <2>1 DEF Acknowledge, TypeOK
    <3>2. \A p, g \in Slots : (IF p >= g THEN p - g ELSE p + FIFO_NUM - g) \in 0..FIFO_NUM
      BY DEF Slots
    <3>3. fill' \in 0..FIFO_NUM
      BY <2>8, <3>1, <3>2, Zenon DEF Acknowledge
    <3> QED
      BY <2>8, <2>1, <3>1, <3>3 DEF Acknowledge, TypeOK, cacheVars, outVars
  <2>9. CASE Publish
    <3>1. CAN_data' \in [0..7 -> Uint16]
      BY <2>9, DecodeType DEF Publish, TypeOK
    <3> QED
      BY <2>9, <3>1 DEF Publish, TypeOK, TempColor, GearColor, Palette, hwVars, cacheVars
  <2>10. CASE CleanInvalidate
    BY <2>10 DEF CleanInvalidate, TypeOK, hwVars, outVars
  <2>11. CASE UNCHANGED vars
    BY <2>11 DEF vars, TypeOK, hwVars, cacheVars, outVars
  <2> QED
    BY <2>2, <2>3, <2>4, <2>5, <2>6, <2>7, <2>8, <2>9, <2>10, <2>11
    DEF Next, Hardware, Software
<1> QED
  BY <1>1, <1>2, PTL DEF Spec

-----------------------------------------------------------------------------
\* Fields of elements and frames, for use with the lemmas on Transfer.
LEMMA Fields ==
  /\ \A e \in Element : e.dlc \in 0..8 /\ e.data \in [0..7 -> Byte]
  /\ \A f \in Frames : f.dlc \in 0..8 /\ f.data \in [0..7 -> Byte]
  BY FramesAssumption DEF Element

\* LatestInv is inductive when the FIFO has one element: with one slot the
\* element copied is the newest one, an empty cache makes the copy miss, and a
\* frame that disturbs the copy raises RF0N again.
LEMMA LatestInductive ==
  ASSUME FIFO_NUM = 1
  PROVE  LatestInv /\ TypeOK' /\ [Next]_vars => LatestInv'
<1> SUFFICES ASSUME LatestInv, TypeOK', [Next]_vars PROVE LatestInv'
  OBVIOUS
<1> USE DEF LatestInv
<1>1. Slots = {0}
  BY DEF Slots
<1>2. ASSUME NEW f \in Frames, Receive(f) PROVE LatestInv'
  <2>1. RamInv'
    BY <1>2 DEF Receive, RamInv, Accepted
  <2>2. CopyInv'
    BY <1>2, FramesAssumption DEF Receive, CopyInv
  <2>3. CacheInv'
    BY <1>2 DEF Receive, CacheInv, cacheVars
  <2> QED
    BY <1>2, <2>1, <2>2, <2>3 DEF Receive
<1>3. CASE StoreWord
  <2> DEFINE e == Transfer(stored, incoming, ram[0])
  <2>1. stored \in Words /\ ram[0] \in Element /\ incoming \in Frames
    BY <1>1, <1>3 DEF StoreWord, TypeOK, Words
  <2>2. /\ Same(stored, e, incoming)
        /\ \A v \in Words \ {stored} : Same(v, ram[0], incoming) => Same(v, e, incoming)
    BY <2>1, TransferSame, Fields
  <2> HIDE DEF e
  <2>3. ram'[0] = e
    BY <1>1, <1>3 DEF StoreWord, TypeOK, e
  <2>4. \A w \in 0..stored'-1 : Same(w, ram'[0], incoming)
    BY <1>3, <2>1, <2>2, <2>3 DEF StoreWord, RamInv, Words
  <2>5. RamInv'
    BY <1>3, <2>4 DEF StoreWord, RamInv
  <2>6. CopyInv' /\ CacheInv'
    BY <1>3 DEF StoreWord, CopyInv, CacheInv, cacheVars
  <2> QED
    BY <1>3, <2>5, <2>6 DEF StoreWord
<1>4. CASE Commit
  <2>1. \A w \in Words : Same(w, ram[0], incoming)
    BY <1>4 DEF Commit, RamInv, Words
  <2>2. RamInv'
    BY <1>4, <2>1 DEF Commit, RamInv
  <2>3. CopyInv' /\ CacheInv'
    BY <1>4 DEF Commit, CopyInv, CacheInv, cacheVars
  <2>4. put' = 0
    BY <1>4 DEF Commit, Next1
  <2> QED
    BY <1>4, <2>2, <2>3, <2>4 DEF Commit
<1>5. CASE ReadStatus
  <2>1. RamInv' /\ CopyInv' /\ CacheInv'
    BY <1>5 DEF ReadStatus, RamInv, CopyInv, CacheInv, hwVars, cacheVars
  <2> QED
    BY <1>5, <2>1 DEF ReadStatus, hwVars
<1>6. CASE ClearFlag
  <2>1. RamInv' /\ CopyInv' /\ CacheInv'
    BY <1>6 DEF ClearFlag, RamInv, CopyInv, CacheInv, cacheVars
  <2> QED
    BY <1>6, <2>1 DEF ClearFlag
<1>7. CASE ReadWord
  <2> DEFINE e == Transfer(nread, ram[0], elem)
  <2>1. nread \in Words /\ ram[0] \in Element /\ elem \in Element
    BY <1>1, <1>7 DEF ReadWord, TypeOK, Words
  <2>2. <<0, nread>> \notin valid
    BY <1>7, <2>1 DEF ReadWord, CacheInv, Words
  <2>3. elem' = e /\ valid' = valid \cup {<<0, nread>>}
    BY <1>7, <2>2 DEF ReadWord
  <2>4. CacheInv'
    BY <1>7, <2>1, <2>3 DEF ReadWord, CacheInv, Words
  <2>5. \A f : /\ Same(nread, e, ram[0])
               /\ \A v \in Words \ {nread} : Same(v, elem, f) => Same(v, e, f)
    BY <2>1, TransferSame, Fields
  <2> HIDE DEF e
  <2>6. ASSUME ~rf0n, incoming = NoFrame, last # NoFrame
        PROVE  \A w \in 0..nread : Same(w, e, last)
    <3>1. Same(nread, ram[0], last)
      BY <2>1, <2>6 DEF RamInv
    <3>2. Same(nread, e, last)
      BY <2>5, <3>1 DEF Same
    <3>3. \A w \in 0..nread-1 : Same(w, elem, last)
      BY <1>7, <2>6 DEF CopyInv, ReadWord
    <3> QED
      BY <2>1, <2>5, <3>2, <3>3 DEF Words
  <2>7. CopyInv'
    BY <1>7, <2>1, <2>3, <2>6 DEF ReadWord, CopyInv, hwVars, Words
  <2>8. RamInv'
    BY <1>7 DEF ReadWord, RamInv, hwVars
  <2> QED
    BY <1>7, <2>4, <2>7, <2>8 DEF ReadWord, hwVars
<1>8. CASE Acknowledge
  <2>1. RamInv' /\ CopyInv' /\ CacheInv'
    BY <1>8 DEF Acknowledge, RamInv, CopyInv, CacheInv, cacheVars
  <2>2. standard_receive_index' = 0
    BY <1>8 DEF Acknowledge, Next1
  <2> QED
    BY <1>8, <2>1, <2>2 DEF Acknowledge
<1>9. CASE Publish
  <2>1. RamInv' /\ CacheInv'
    BY <1>9 DEF Publish, RamInv, CacheInv, hwVars, cacheVars
  <2>2. ASSUME ~rf0n, incoming = NoFrame, last # NoFrame, last.dlc = 8
        PROVE  Shows(last)'
    <3>1. \A w \in Words : Same(w, elem, last)
      BY <1>9, <2>2 DEF Publish, CopyInv
    <3>2. Decode(CAN_data, elem) = Decode([i \in 0..7 |-> 0], last)
      BY <2>2, <3>1, DecodeFull DEF TypeOK
    <3> QED
      BY <1>9, <3>2 DEF Publish, Shows, hwVars
  <2>3. CopyInv'
    BY <1>9, <2>2 DEF Publish, CopyInv, hwVars
  <2> QED
    BY <1>9, <2>1, <2>3 DEF Publish, hwVars
<1>10. CASE CleanInvalidate
  <2>1. RamInv' /\ CacheInv'
    BY <1>10 DEF CleanInvalidate, RamInv, CacheInv, hwVars
  <2>2. CopyInv'
    BY <1>10 DEF CleanInvalidate, CopyInv, Shows, hwVars, outVars
  <2> QED
    BY <1>10, <2>1, <2>2 DEF CleanInvalidate, hwVars
<1>11. CASE UNCHANGED vars
  BY <1>11 DEF vars, hwVars, cacheVars, outVars, RamInv, CacheInv, CopyInv, Shows
<1> QED
  BY <1>2, <1>3, <1>4, <1>5, <1>6, <1>7, <1>8, <1>9, <1>10, <1>11
  DEF Next, Hardware, Software

\* With the one-element FIFO of conf_mcan.h, can_receive never comes to rest on
\* anything but the newest frame, whole: for every set of frames the other nodes
\* may send and every interleaving of storing and copying.
THEOREM NewestFrameShown ==
  ASSUME FIFO_NUM = 1
  PROVE  Spec => []LatestWins
<1>1. Init => LatestInv
  <2>1. Init => TypeOK
    BY TypeInit
  <2> QED
    BY <2>1 DEF Init, LatestInv, RamInv, CacheInv, CopyInv
<1>2. LatestInv /\ TypeOK' /\ [Next]_vars => LatestInv'
  BY LatestInductive
<1>3. LatestInv => LatestWins
  BY DEF LatestInv, CopyInv, LatestWins, Quiet
<1> QED
  BY <1>1, <1>2, <1>3, TypeCorrect, PTL DEF Spec
=============================================================================
