------------------------------- MODULE CanRx -------------------------------
(***************************************************************************)
(* The receive path of the display: MCAN0 storing frames into Rx FIFO 0 of *)
(* the message RAM, and can_receive (src/Can.c), which polls the interrupt *)
(* register, copies one element out of the message RAM through the data    *)
(* cache, acknowledges it and turns its bytes into what the display draws. *)
(*                                                                         *)
(* The controller and the processor share the message RAM and two          *)
(* registers, and nothing locks them: a frame may be half stored when the  *)
(* processor copies the element, and a second one may arrive at any step.  *)
(*                                                                         *)
(* Only the FIFO 0 branch of can_receive is here: no filter routes a frame *)
(* to a dedicated Rx buffer (can_init installs filter 1 alone), so the     *)
(* other branch never runs.                                                *)
(***************************************************************************)
EXTENDS Integers, FiniteSets

CONSTANTS
  Frames,    \* frames other nodes may send: [id, dlc, data]
  FIFO_NUM,  \* CONF_MCAN0_RX_FIFO_0_NUM
  NoFrame    \* not a frame

DashId == 1000          \* MCAN_RX_STANDARD_FILTER_ID_1
Byte   == {x \in Nat : x < 256}
Uint16 == {x \in Nat : x < 65536}
StdId  == 0..2047
Slots  == 0..FIFO_NUM-1

\* Standard 11-bit identifiers, at most 8 data bytes (CAN 2.0).
ASSUME FramesAssumption ==
  /\ Frames \subseteq [id: StdId, dlc: 0..8, data: [0..7 -> Byte]]
  /\ NoFrame \notin Frames
\* conf_mcan.h: "Range: 1..64".
ASSUME FifoAssumption == FIFO_NUM \in 1..64

VARIABLES
  \* MCAN0
  ram,        \* the FIFO's elements in the message RAM
  put, get, fill,  \* RXF0S: put index, get index, fill level
  rf0n,       \* IR.RF0N, "new message in FIFO 0"
  incoming,   \* the accepted frame being stored, or NoFrame
  stored,     \* how many of its words are in the RAM already
  \* the data cache, over the message RAM
  cache,      \* what the cache holds of each element
  valid,      \* the <<slot, word>> pairs it holds
  \* can_receive
  rpc,        \* its next step
  nread,      \* words copied by the memcpy so far
  elem,       \* rx_element_fifo_0
  standard_receive_index,
  CAN_data, color_temp, color_gear,
  \* history
  last        \* the last frame with the display's identifier put into the FIFO

hwVars   == <<ram, put, get, fill, rf0n, incoming, stored, last>>
cacheVars == <<cache, valid>>
outVars  == <<CAN_data, color_temp, color_gear>>
vars == <<hwVars, cacheVars, rpc, nread, elem, standard_receive_index, outVars>>

-----------------------------------------------------------------------------
(* An Rx element as the processor sees it: the code (DLC) word and two     *)
(* data words.  The identifier word is never looked at after filtering.    *)

Element == [dlc: 0..8, data: [0..7 -> Byte]]
Zero    == [dlc |-> 0, data |-> [i \in 0..7 |-> 0]]
Words   == 0..2

\* The word that holds data byte i.
WordOf(i) == IF i < 4 THEN 1 ELSE 2

\* Element "to" after its word w has been overwritten by that of "from".
Transfer(w, from, to) ==
  [dlc  |-> IF w = 0 THEN from.dlc ELSE to.dlc,
   data |-> [i \in 0..7 |-> IF w = WordOf(i) THEN from.data[i] ELSE to.data[i]]]

\* Mutant: the index is incremented without the wrap.
NoWrap(i) == i + 1

Next1(i) == IF i + 1 = FIFO_NUM THEN 0 ELSE i + 1

-----------------------------------------------------------------------------
(* What can_receive computes from an element.                              *)

\* CAN_data[0] *= 1.85 and CAN_data[3] *= 4.7: a double truncated to uint16_t.  A
\* value beyond 2^16, undefined in C, is converted to 32 bits and cut by the build.
ScaleRpm(x) == ((x * 185) \div 100) % 65536
ScaleTps(x) == ((x * 47) \div 10) % 65536

\* CAN_data after an element: DLC bytes replaced, then 0 and 3 scaled.
Decode(old, e) ==
  LET d(i) == IF i < e.dlc THEN e.data[i] ELSE old[i]
  IN  [i \in 0..7 |-> CASE i = 0 -> ScaleRpm(d(0))
                        [] i = 3 -> ScaleTps(d(3))
                        [] OTHER -> d(i)]

TempColor(d) == IF d[1] < 90 THEN "green" ELSE IF d[1] < 100 THEN "amber" ELSE "red"
GearColor(d) == IF d[4] = 0 THEN "red" ELSE "blue"

Palette == {"black", "green", "amber", "red", "blue"}

-----------------------------------------------------------------------------
\* The state main leaves: RAM and statics zeroed, CAN_data[0] = 470, and both
\* colours 0, because color_temp = B runs before set_GAR has computed B.
Init ==
  /\ ram = [s \in Slots |-> Zero]
  /\ put = 0 /\ get = 0 /\ fill = 0
  /\ rf0n = FALSE
  /\ incoming = NoFrame /\ stored = 0
  /\ cache = [s \in Slots |-> Zero] /\ valid = {}
  /\ rpc = "idle" /\ nread = 0
  /\ elem = Zero
  /\ standard_receive_index = 0
  /\ CAN_data = [i \in 0..7 |-> IF i = 0 THEN 470 ELSE 0]
  /\ color_temp = "black" /\ color_gear = "black"
  /\ last = NoFrame

-----------------------------------------------------------------------------
(* MCAN0.  Overwrite mode: a full FIFO takes the new frame in the oldest   *)
(* element's place.                                                        *)

\* Classic filter, SFID1 = 1000, mask 0x7FF; everything else is rejected.
Accepted(f) == f.id = DashId

Receive(f) ==
  /\ incoming = NoFrame
  /\ Accepted(f)
  /\ incoming' = f /\ stored' = 0
  /\ UNCHANGED <<ram, put, get, fill, rf0n, last, cacheVars, rpc, nread, elem,
                 standard_receive_index, outVars>>

StoreWord ==
  /\ incoming # NoFrame /\ stored < 3
  /\ ram' = [ram EXCEPT ![put] = Transfer(stored, incoming, @)]
  /\ stored' = stored + 1
  /\ UNCHANGED <<put, get, fill, rf0n, incoming, last, cacheVars, rpc, nread, elem,
                 standard_receive_index, outVars>>

Commit ==
  /\ incoming # NoFrame /\ stored = 3
  /\ put' = Next1(put)
  /\ IF fill = FIFO_NUM
       THEN get' = Next1(get) /\ UNCHANGED fill
       ELSE fill' = fill + 1 /\ UNCHANGED get
  /\ rf0n' = TRUE
  /\ last' = IF incoming.id = DashId THEN incoming ELSE last
  /\ incoming' = NoFrame /\ stored' = 0
  /\ UNCHANGED <<ram, cacheVars, rpc, nread, elem, standard_receive_index, outVars>>

-----------------------------------------------------------------------------
(* can_receive.                                                            *)

\* Without RF0N the call returns having changed nothing.
ReadStatus ==
  /\ rpc = "idle" /\ rf0n
  /\ rpc' = "clear"
  /\ UNCHANGED <<hwVars, cacheVars, nread, elem, standard_receive_index, outVars>>

\* Mutant: the flag is left up.
LeaveFlag ==
  /\ rpc = "clear"
  /\ rpc' = "read" /\ nread' = 0
  /\ UNCHANGED <<hwVars, cacheVars, elem, standard_receive_index, outVars>>

ClearFlag ==
  /\ rpc = "clear"
  /\ rf0n' = FALSE
  /\ rpc' = "read" /\ nread' = 0
  /\ UNCHANGED <<ram, put, get, fill, incoming, stored, last, cacheVars, elem,
                 standard_receive_index, outVars>>

\* One word of memcpy(rx_element, &mcan0_rx_fifo_0[index], ...): a hit gives what
\* the cache holds, a miss fills it from the RAM first.  Filling word by word
\* gives every outcome that filling a 32-byte line at once does.
ReadWord ==
  /\ rpc = "read"
  /\ LET s   == standard_receive_index
         hit == <<s, nread>> \in valid
         src == IF hit THEN cache[s] ELSE ram[s]
     IN  /\ elem' = Transfer(nread, src, elem)
         /\ cache' = [cache EXCEPT ![s] = Transfer(nread, src, @)]
         /\ valid' = valid \cup {<<s, nread>>}
  /\ nread' = nread + 1
  /\ rpc' = IF nread = 2 THEN "ack" ELSE "read"
  /\ UNCHANGED <<hwVars, standard_receive_index, outVars>>

\* RXF0A = index: get index := index + 1, fill level recomputed from put.
Acknowledge ==
  /\ rpc = "ack"
  /\ get' = Next1(standard_receive_index)
  /\ fill' = IF put >= get' THEN put - get' ELSE put + FIFO_NUM - get'
  /\ standard_receive_index' = Next1(standard_receive_index)
  /\ rpc' = "publish"
  /\ UNCHANGED <<ram, put, rf0n, incoming, stored, last, cacheVars, nread, elem, outVars>>

\* Copy, scale, pick the colours.  The data has no other reader or writer while
\* can_receive runs, so this is one step.
Publish ==
  /\ rpc = "publish"
  /\ CAN_data' = Decode(CAN_data, elem)
  /\ color_temp' = TempColor(CAN_data')
  /\ color_gear' = GearColor(CAN_data')
  /\ rpc' = "invalidate"
  /\ UNCHANGED <<hwVars, cacheVars, nread, elem, standard_receive_index>>

\* Mutant: the cache keeps the element.
KeepCache ==
  /\ rpc = "invalidate"
  /\ rpc' = "idle"
  /\ UNCHANGED <<hwVars, cacheVars, nread, elem, standard_receive_index, outVars>>

\* Mutant: the flag is cleared once more when the frame has been handled.
ClearFlagAgain ==
  /\ rpc = "invalidate"
  /\ valid' = {}
  /\ rf0n' = FALSE
  /\ rpc' = "idle"
  /\ UNCHANGED <<ram, put, get, fill, incoming, stored, last, cache, nread, elem,
                 standard_receive_index, outVars>>

\* SCB_CleanInvalidateDCache: nothing in these lines is dirty, so no write back.
CleanInvalidate ==
  /\ rpc = "invalidate"
  /\ valid' = {}
  /\ rpc' = "idle"
  /\ UNCHANGED <<hwVars, cache, nread, elem, standard_receive_index, outVars>>

-----------------------------------------------------------------------------
Hardware == StoreWord \/ Commit
Software ==
  ReadStatus \/ ClearFlag \/ ReadWord \/ Acknowledge \/ Publish \/ CleanInvalidate
Next == (\E f \in Frames: Receive(f)) \/ Hardware \/ Software

Spec == Init /\ [][Next]_vars

\* MCAN0 finishes the frame it has started, and the display keeps polling (one
\* call per image: see Controller); other nodes owe the display nothing.
FairSpec == Spec /\ WF_vars(Hardware) /\ WF_vars(Software)

-----------------------------------------------------------------------------
TypeOK ==
  /\ ram \in [Slots -> Element]
  /\ put \in Slots /\ get \in Slots /\ fill \in 0..FIFO_NUM
  /\ rf0n \in BOOLEAN
  /\ incoming \in Frames \cup {NoFrame} /\ stored \in 0..3
  /\ cache \in [Slots -> Element] /\ valid \subseteq Slots \X Words
  /\ rpc \in {"idle", "clear", "read", "ack", "publish", "invalidate"}
  /\ nread \in 0..3 /\ (rpc = "read" => nread < 3)
  /\ elem \in Element
  /\ standard_receive_index \in Slots
  /\ CAN_data \in [0..7 -> Uint16]
  /\ color_temp \in Palette /\ color_gear \in Palette
  /\ last \in Frames \cup {NoFrame}

\* The display shows frame f: the data and both colours are those of f alone.
Shows(f) ==
  /\ CAN_data = Decode([i \in 0..7 |-> 0], f)
  /\ color_temp = TempColor(CAN_data)
  /\ color_gear = GearColor(CAN_data)

Quiet == rpc = "idle" /\ ~rf0n /\ incoming = NoFrame

\* When can_receive has nothing left to do, what it has published is the newest
\* 8-byte frame, whole: not an older one, not a mixture of two, and not what the
\* cache remembers of an earlier one, in whatever order storing and copying met.
LatestWins == Quiet /\ last # NoFrame /\ last.dlc = 8 => Shows(last)

\* Once the bus stays silent, the display settles on the last frame it was sent.
SettlesOnLast ==
  \A f \in Frames :
    f.dlc = 8 => (<>[](last = f /\ incoming = NoFrame) => <>[]Shows(f))

\* RF0N is always cleared again: no frame is left waiting in the FIFO for ever.
FlagIsServed == rf0n ~> ~rf0n
-----------------------------------------------------------------------------
(* Why LatestWins holds with one element, FIFO_NUM = 1 (proved in          *)
(* CanRxProofs): as long as the flag is down and nothing is being stored,  *)
(* everything between the message RAM and the display is the last frame's. *)

Same(w, e, f) ==
  /\ w = 0 => e.dlc = f.dlc
  /\ \A i \in 0..7 : WordOf(i) = w => e.data[i] = f.data[i]

\* The words in the RAM are those of the frame being stored, then of the last one.
RamInv ==
  /\ incoming # NoFrame => /\ incoming.id = DashId
                           /\ \A w \in 0..stored-1 : Same(w, ram[0], incoming)
  /\ incoming = NoFrame /\ last # NoFrame => \A w \in Words : Same(w, ram[0], last)

\* The cache is empty when a copy starts, so that every word misses.
CacheInv ==
  /\ rpc \in {"idle", "clear"} => valid = {}
  /\ rpc = "read" => valid \subseteq {0} \X (0..nread-1)

\* What has been copied, and then what is displayed, is the last frame.
CopyInv ==
  ~rf0n /\ incoming = NoFrame /\ last # NoFrame =>
    /\ rpc # "clear"
    /\ rpc = "read" => \A w \in 0..nread-1 : Same(w, elem, last)
    /\ rpc \in {"ack", "publish"} => \A w \in Words : Same(w, elem, last)
    /\ rpc \in {"idle", "invalidate"} /\ last.dlc = 8 => Shows(last)

LatestInv ==
  /\ TypeOK
  /\ put = 0 /\ standard_receive_index = 0
  /\ rpc = "clear" => rf0n
  /\ RamInv /\ CacheInv /\ CopyInv
=============================================================================
