----------------------------- MODULE DiskProofs -----------------------------
(***************************************************************************)
(* Proofs about the card stack (SdMmc) and the disk that runs on it (Disk),*)
(* for any cards, insertions, faults and requests.                         *)
(*                                                                         *)
(* SdInv says, for each exchange of an installation, which card can be at  *)
(* it in which state, and how the three views of the bus (the card's, the  *)
(* slot's, the driver's) agree.  A card that is put in meanwhile is idle,  *)
(* and an idle card executes none of the later commands: so every clause   *)
(* is about a card that is Present.  DiskInv adds what a request knows of  *)
(* the card; it carries the refinement of BlockDevice, and with FirstTryInv*)
(* the claim that the first disk_initialize suffices.                      *)
(***************************************************************************)
EXTENDS Disk, TLAPS
-----------------------------------------------------------------------------
(* The inductive invariant of the card stack.                              *)

\* The exchanges at which the card may still be any card in any state, because an
\* earlier reset may have been lost; the later ones, where a card that was put in
\* since then answers nothing; and those of an installed card.
Early == {"cmd52", "cmd0", "cmd8", "cmd5", "acmd41", "m_cmd0", "m_cmd1"}
LateSd == {"cmd2", "cmd3", "cmd9", "cmd7", "acmd51", "cis", "io_width", "acmd6", "conf_width",
           "io_hs", "cmd6", "conf_hs", "cmd16", "done"}
LateMmc == {"m_cmd2", "m_cmd3", "m_cmd9", "m_cmd7", "m_ext_csd", "m_width", "m_last_width",
            "conf_m_width", "m_hs", "conf_mmc", "m_cmd16"}
Late == LateSd \cup LateMmc
Calls == {"cmd13", "read", "write", "IO_DIRECT", "IO_EXTENDED", "started", "cmd12", "cmd12_again"}

SdTyped ==
  /\ swaps \in 0..MaxSwaps /\ faults \in 0..MaxFaults
  /\ slot \in [state: {"READY", "INIT", "UNUSABLE", "NO_CARD"}, type: SUBSET Flags,
               version: 0..4, rca: 0..2, clock: Nat, width: {0, 1, 4}, hs: {0, 1}]
  /\ drv \in [clock: Nat, width: {1, 4}, hs: {0, 1}]
  /\ swapped \in {TRUE, FALSE} /\ v2 \in {TRUE, FALSE} /\ retry \in 1..10
  /\ remaining \in Nat /\ total \in Nat /\ dir \in {"read", "write"}
  /\ ret \in {"none", "OK", "UNKNOWN", "INIT_ONGOING", "UNUSABLE", "COMM"}
  /\ pc \in Early \cup Late \cup Calls \cup {"idle"}

\* What slot.state says of the call under way; an installation begins slow.
SlowBus(b) == b.clock = 0 /\ b.width = 1 /\ b.hs = 0
SlotInv ==
  /\ pc \in Early \cup Late => slot.state = "INIT"
  /\ pc \in Calls \/ (pc = "idle" /\ ret = "OK") => slot.state = "READY"
  /\ slot.state # "NO_CARD" => slot.width \in {1, 4}
  /\ slot.state = "NO_CARD" => SlowBus(drv)
  /\ slot.state = "INIT" /\ pc \in Early \cup {"idle"} => SlowBus(slot) /\ SlowBus(drv)

\* What holds of any card, installed or not.
Sound(c) ==
  /\ c \in Cards
  /\ c.kind = "none" => c.st = "idle"
  /\ c.kind = "SDIO" \/ c.st \in {"idle", "ready", "ident", "stby"} => c.mem.width = 1
     /\ c.mem.hs = 0
  /\ c.kind # "COMBO" => c.fn.width = 1 /\ c.fn.hs = 0
  /\ c.kind = "SDIO" => c.st \in {"idle", "ready", "stby", "tran"}
CardInv ==
  /\ Sound(card)
  /\ ~swapped /\ isSdio => card.kind \in Io

\* The card that is being installed, or is installed, is still the one in the slot: one
\* that has taken its place is idle.
Present == ~(swapped /\ card.st = "idle")

\* The flags of the slot are those of the card's memory.
Agree ==
  /\ "SD" \in slot.type <=> card.kind \in SdMem
  /\ "MMC" \in slot.type <=> card.kind \in Mmc
  /\ "HC" \in slot.type <=> card.kind \in HighCap

\* Which types the slot may have early in the installation.
TypeInv ==
  /\ pc \in {"cmd52", "cmd0", "cmd8", "cmd5"} => slot.type = {"SD"}
  /\ pc = "acmd41" => slot.type \in {{"SD"}, {"SD", "SDIO"}}
  /\ pc \in {"m_cmd0", "m_cmd1"} => slot.type = {"MMC"}
  /\ pc \in LateMmc => ~isSdio /\ ~isSd
  /\ pc \in {"cmd9", "acmd51", "acmd6", "cmd6", "cmd16"} => isSd
  /\ pc \in {"cis", "io_width", "io_hs"} => isSdio
  /\ pc \in LateSd => isSd \/ isSdio

\* The state and the kind the present card has at each exchange.
StageInv ==
  pc \in Late /\ Present =>
    /\ Agree
    /\ pc = "cmd2" => card.kind \in SdMem /\ card.st = "ready"
    /\ pc = "cmd3" => (IF isSd THEN card.kind \in SdMem /\ card.st = "ident"
                       ELSE card.kind = "SDIO" /\ card.st = "ready")
    /\ pc \in LateSd => card.kind \in SdMem \cup {"SDIO"}
    /\ pc \in LateMmc => card.kind \in Mmc
    /\ pc = "m_cmd2" => card.st = "ready"
    /\ pc = "m_cmd3" => card.st = "ident" /\ slot.rca = 1
    /\ pc \in {"cmd9", "cmd7", "m_cmd9", "m_cmd7"} => card.st = "stby"
    /\ pc \in Late \ {"cmd2", "cmd3", "cmd9", "cmd7", "m_cmd2", "m_cmd3", "m_cmd9", "m_cmd7"} =>
         card.st = "tran"
    /\ pc \in Late \ {"cmd2", "cmd3", "m_cmd2", "m_cmd3"} => card.rca = slot.rca
    /\ pc \in {"acmd6", "conf_width", "io_hs", "cmd6", "conf_hs", "cmd16", "done"} /\ isSdio =>
         card.kind \in Io

\* The versions that choose the next exchange; that of an SD card may have been read from
\* a stale line.
VersionInv ==
  Present =>
    /\ pc \in {"cis", "io_width", "acmd6", "conf_width", "io_hs", "cmd6", "conf_hs"} /\ isSd =>
         ("scr" \notin Shared => slot.version = (IF card.kind = "SD1" THEN 1 ELSE 2))
    /\ pc = "m_cmd7" => slot.version = (IF card.kind \in Mmc4 THEN 4 ELSE 3)
    /\ pc \in {"m_ext_csd", "m_last_width"} => card.kind \in Mmc4
    /\ pc \in {"m_width", "conf_m_width", "m_hs"} => card.kind = "MMC4"

\* The three views of the bus: the card's, the slot's and the driver's.
SameBus(a, b) == a.width = b.width /\ (SpeedTold => a.hs = b.hs)
MySide == IF card.kind \in Memory THEN card.mem ELSE card.fn
BusInv ==
  /\ pc \in {"cmd2", "cmd3", "cmd9", "m_cmd2", "m_cmd3", "m_cmd9"} => SlowBus(slot)
  /\ pc \in {"cmd7", "acmd51", "cis", "io_width", "m_cmd7", "m_ext_csd", "m_width",
             "m_last_width"} =>
       slot.width = 1 /\ slot.hs = 0
  /\ pc \in {"acmd6", "conf_width", "conf_m_width"} => slot.hs = 0
  /\ pc \in {"cmd2", "cmd3", "cmd9", "cmd7", "acmd51", "cis", "io_width", "acmd6", "conf_width",
             "m_cmd2", "m_cmd3", "m_cmd9", "m_cmd7", "m_ext_csd", "m_width", "m_last_width",
             "conf_m_width"} =>
       SlowBus(drv)
  /\ pc \in {"io_hs", "cmd6", "m_hs"} => drv.width = slot.width /\ drv.hs = 0
  /\ pc \in {"io_hs", "m_hs"} => slot.hs = 0
  /\ pc \in {"cmd16", "done", "m_cmd16"} \/ slot.state = "READY" => drv = BusOf(slot)
  /\ pc \in Late /\ Present =>
       /\ pc \in {"acmd51", "cis", "io_width", "acmd6", "m_ext_csd", "m_width", "m_last_width"} =>
            card.mem.width = 1 /\ card.mem.hs = 0
       /\ pc \in {"conf_width", "io_hs", "conf_m_width", "m_hs", "conf_mmc", "cmd16", "done",
          "m_cmd16"} =>
            SameBus(slot, MySide)
       /\ pc = "conf_hs" => SameBus(slot, MySide)
       /\ pc \in {"conf_width", "io_hs"} => MySide.hs = 0
       /\ pc = "cmd6" => card.mem.width = slot.width /\ card.mem.hs = 0
       /\ pc = "cmd6" /\ ~isSdio => slot.hs = 0

\* An installed card.
ReadyInv ==
  slot.state = "READY" /\ Present =>
    /\ Agree /\ card.kind # "none"
    /\ card.st \in {"tran", "one", "many"} /\ card.rca = slot.rca
    /\ SameBus(slot, MySide)
    /\ isSdio => card.kind \in Io

ClockInv ==
  /\ ~isSdio /\ (slot.state = "READY"
     \/ pc \in Late \ {"cmd2", "cmd3", "cmd9", "m_cmd2", "m_cmd3", "m_cmd9"}) =>
       slot.clock = 1 + slot.hs
  /\ ~isSdio /\ pc \in {"cmd6", "conf_hs", "m_hs"} => drv.clock = 1
  /\ ~isSdio /\ pc = "conf_mmc" => drv.clock <= 1
  /\ "switch_status" \notin Shared /\ ~swapped /\ card.kind \in Memory \ Io =>
       drv.clock <= 1 + card.mem.hs

SdInv ==
  /\ SdTyped /\ SlotInv /\ CardInv /\ TypeInv /\ StageInv /\ VersionInv /\ BusInv /\ ReadyInv
  /\ ClockInv
-----------------------------------------------------------------------------
(* What the exchanges do.                                                  *)

Commands == {"IO_RESET", "CMD0", "CMD8", "CMD5", "ACMD41", "CMD1", "CMD2", "CMD3", "CMD3_MMC",
             "CMD9", "CMD7", "ACMD51", "ACMD6", "CMD6", "CIS", "IO_WIDTH", "IO_HS", "IO_DIRECT",
             "IO_EXTENDED", "EXT_CSD", "CMD6_WIDTH", "CMD6_HS", "CMD16", "READ1", "WRITE1",
             "MULTI", "CMD13", "DATA", "CMD12"}

\* Whatever command a card executes, it stays a sound card of its kind, and only CMD0
\* takes its memory back to the slow bus.
LEMMA AfterSound ==
  ASSUME NEW c, Sound(c), NEW cmd \in Commands, NEW rca, NEW hcs, Executes(c, cmd, rca, hcs)
  PROVE  LET d == After(c, cmd)
         IN  Sound(d) /\ d.kind = c.kind /\ (cmd # "CMD0" => d.mem.hs >= c.mem.hs)
<1> DEFINE d == After(c, cmd)
<1> USE DEF Sound, Cards, Bus, Slow, Card, Kinds, Memory, Mmc, Mmc4, SdMem, Io, HighSpeed
<1>1. CASE cmd = "IO_RESET"
  BY <1>1 DEF After, Executes
<1>2. CASE cmd = "CMD0"
  BY <1>2 DEF After, Executes
<1>3. CASE cmd = "CMD5"
  BY <1>3 DEF After, Executes
<1>4. CASE cmd = "ACMD41"
  BY <1>4 DEF After, Executes
<1>5. CASE cmd = "CMD1"
  BY <1>5 DEF After, Executes
<1>6. CASE cmd = "CMD2"
  BY <1>6 DEF After, Executes
<1>7. CASE cmd = "CMD3"
  BY <1>7 DEF After, Executes
<1>8. CASE cmd = "CMD3_MMC"
  BY <1>8 DEF After, Executes
<1>9. CASE cmd = "CMD7"
  BY <1>9 DEF After, Executes
<1>10. CASE cmd = "ACMD6"
  BY <1>10 DEF After, Executes
<1>11. CASE cmd = "CMD6_WIDTH"
  BY <1>11 DEF After, Executes
<1>12. CASE cmd = "IO_WIDTH"
  BY <1>12 DEF After, Executes
<1>13. CASE cmd = "IO_HS"
  BY <1>13 DEF After, Executes
<1>14. CASE cmd = "READ1"
  BY <1>14 DEF After, Executes
<1>15. CASE cmd = "WRITE1"
  BY <1>15 DEF After, Executes
<1>16. CASE cmd = "MULTI"
  BY <1>16 DEF After, Executes
<1>17. CASE cmd = "DATA"
  BY <1>17 DEF After, Executes
<1>18. CASE cmd = "CMD12"
  BY <1>18 DEF After, Executes
<1>19. CASE cmd \in {"CMD6", "CMD6_HS"}
  <2>1. d = IF c.kind \in HighSpeed THEN [c EXCEPT !.mem = [c.mem EXCEPT !.hs = 1]] ELSE c
    BY <1>19 DEF After
  <2>2. c.st = "tran"
    BY <1>19 DEF Executes
  <2> QED  BY <2>1, <2>2, <1>19
<1>20. CASE cmd \in {"CMD8", "CMD9", "ACMD51", "CIS", "IO_DIRECT", "IO_EXTENDED", "EXT_CSD",
           "CMD16", "CMD13"}
  <2>1. d = c
    BY <1>20 DEF After
  <2> QED  BY <2>1, <1>20
<1> QED  BY <1>1, <1>2, <1>3, <1>4, <1>5, <1>6, <1>7, <1>8, <1>9, <1>10, <1>11, <1>12, <1>13,
        <1>14, <1>15, <1>16, <1>17, <1>18, <1>19, <1>20 DEF Commands

LEMMA DisturbedOnly ==
  ASSUME NEW c, NEW cmd, NEW d \in Disturbed(c, cmd)
  PROVE  d = c \/ d = After(c, cmd)
<1>1. CASE cmd = "READ1"  BY <1>1 DEF Disturbed
<1>2. CASE cmd = "DATA"   BY <1>2 DEF Disturbed
<1>3. CASE cmd \notin {"READ1", "DATA"}  BY <1>3 DEF Disturbed
<1> QED  BY <1>1, <1>2, <1>3

\* What becomes of the card when an exchange fails.
Missed(cmd) ==
  /\ \/ UNCHANGED <<card, faults>>
     \/ /\ Answers(cmd) /\ faults < MaxFaults /\ faults' = faults + 1
        /\ card' \in Disturbed(card, cmd)
  /\ UNCHANGED <<swaps, swapped>>
Executed(cmd) ==
  Answers(cmd) /\ card' = After(card, cmd) /\ UNCHANGED <<faults, swaps, swapped>>

LEMMA MissedCard ==
  ASSUME SdTyped, Sound(card), NEW cmd \in Commands, Missed(cmd)
  PROVE  /\ Sound(card') /\ card'.kind = card.kind
         /\ cmd # "CMD0" => card'.mem.hs >= card.mem.hs
         /\ faults' \in 0..MaxFaults /\ swaps' \in 0..MaxSwaps /\ swapped' = swapped
<1> USE SdAssumption DEF SdAssumption
<1>1. CASE UNCHANGED <<card, faults>>
  BY <1>1 DEF Missed, SdTyped, Sound, Cards, Bus
<1>2. CASE card' = card /\ faults < MaxFaults /\ faults' = faults + 1
  BY <1>2 DEF Missed, SdTyped, Sound, Cards, Bus
<1>3. CASE Answers(cmd) /\ card' = After(card, cmd) /\ faults < MaxFaults /\ faults' = faults + 1
  <2>1. Executes(card, cmd, slot.rca, v2)
    BY <1>3 DEF Answers
  <2> QED  BY <1>3, <2>1, AfterSound DEF Missed, SdTyped
<1> QED  BY <1>1, <1>2, <1>3, DisturbedOnly DEF Missed

LEMMA ExecutedCard ==
  ASSUME SdTyped, Sound(card), NEW cmd \in Commands, Executed(cmd)
  PROVE  /\ Sound(card') /\ card'.kind = card.kind
         /\ cmd # "CMD0" => card'.mem.hs >= card.mem.hs
         /\ faults' \in 0..MaxFaults /\ swaps' \in 0..MaxSwaps /\ swapped' = swapped
<1>1. Executes(card, cmd, slot.rca, v2)
  BY DEF Executed, Answers
<1> QED  BY <1>1, AfterSound DEF Executed, SdTyped

\* An installation that fails leaves the slot unusable.
LEMMA Failing ==
  ASSUME SdInv, pc \in Early \cup Late, NEW cmd \in Commands \ {"CMD0"}, Missed(cmd), InitFails
  PROVE  SdInv'
<1> USE DEF InitFails, Return, counts
<1>1. /\ Sound(card') /\ card'.kind = card.kind /\ card'.mem.hs >= card.mem.hs
      /\ faults' \in 0..MaxFaults /\ swaps' \in 0..MaxSwaps /\ swapped' = swapped
  BY MissedCard DEF SdInv, CardInv
<1>2. slot' = [slot EXCEPT !.state = "UNUSABLE"] /\ pc' = "idle"
  OBVIOUS
<1>3. SdTyped'
  BY <1>1, <1>2 DEF SdInv, SdTyped, Flags
<1>4. SlotInv'
  BY <1>2 DEF SdInv, SdTyped, SlotInv, Early, Late, LateSd, LateMmc, Calls
<1>5. CardInv'
  BY <1>1, <1>2 DEF SdInv, SdTyped, CardInv, isSdio
<1>6. TypeInv' /\ StageInv' /\ VersionInv'
  BY <1>2 DEF TypeInv, StageInv, VersionInv, Late, LateSd, LateMmc
<1>7. BusInv' /\ ReadyInv'
  BY <1>2 DEF SdInv, SdTyped, BusInv, ReadyInv, Late, LateSd, LateMmc
<1>8. ClockInv'
  <2>1. drv' = drv
    OBVIOUS
  <2>2. drv.clock \in Nat /\ card.mem.hs \in {0, 1} /\ card'.mem.hs \in {0, 1}
    BY <1>1 DEF SdInv, SdTyped, CardInv, Sound, Cards, Bus
  <2>3. slot'.state # "READY" /\ pc' \notin Late
            /\ pc' \notin {"cmd6", "conf_hs", "m_hs", "conf_mmc"}
    BY <1>2 DEF SdInv, SdTyped, Late, LateSd, LateMmc
  <2>4. "switch_status" \notin Shared /\ ~swapped /\ card.kind \in Memory \ Io =>
          drv.clock <= 1 + card.mem.hs
    BY DEF SdInv, ClockInv
  <2> QED
    BY <1>1, <2>1, <2>2, <2>3, <2>4 DEF ClockInv
<1> QED
  BY <1>3, <1>4, <1>5, <1>6, <1>7, <1>8 DEF SdInv

-----------------------------------------------------------------------------
(* Every step of the stack keeps the invariant.                            *)

SlotType == [state: {"READY", "INIT", "UNUSABLE", "NO_CARD"}, type: SUBSET Flags,
             version: 0..4, rca: 0..2, clock: Nat, width: {0, 1, 4}, hs: {0, 1}]

\* A field of the slot is set.  (Setting two of them is setting one of them twice.)
LEMMA SlotWith ==
  \A s \in SlotType :
    /\ \A x \in {"READY", "INIT", "UNUSABLE", "NO_CARD"} : [s EXCEPT !.state = x] \in SlotType
    /\ \A x \in SUBSET Flags : [s EXCEPT !.type = x] \in SlotType
    /\ \A x \in 0..4 : [s EXCEPT !.version = x] \in SlotType
    /\ \A x \in 0..2 : [s EXCEPT !.rca = x] \in SlotType
    /\ \A x \in Nat : [s EXCEPT !.clock = x] \in SlotType
    /\ \A x \in {0, 1, 4} : [s EXCEPT !.width = x] \in SlotType
    /\ \A x \in {0, 1} : [s EXCEPT !.hs = x] \in SlotType
<1> USE DEF SlotType
<1>1. \A s \in SlotType, x \in {"READY", "INIT", "UNUSABLE",
          "NO_CARD"} : [s EXCEPT !.state = x] \in SlotType
  OBVIOUS
<1>2. \A s \in SlotType, x \in SUBSET Flags : [s EXCEPT !.type = x] \in SlotType
  OBVIOUS
<1>3. \A s \in SlotType, x \in 0..4 : [s EXCEPT !.version = x] \in SlotType
  OBVIOUS
<1>4. \A s \in SlotType, x \in 0..2 : [s EXCEPT !.rca = x] \in SlotType
  OBVIOUS
<1>5. \A s \in SlotType, x \in Nat : [s EXCEPT !.clock = x] \in SlotType
  OBVIOUS
<1>6. \A s \in SlotType, x \in {0, 1, 4} : [s EXCEPT !.width = x] \in SlotType
  OBVIOUS
<1>7. \A s \in SlotType, x \in {0, 1} : [s EXCEPT !.hs = x] \in SlotType
  OBVIOUS
<1> HIDE DEF SlotType
<1> QED  BY <1>1, <1>2, <1>3, <1>4, <1>5, <1>6, <1>7

\* A successful exchange, but for what it does to the slot and to the card.
Advances(next) ==
  /\ pc' = next /\ UNCHANGED <<drv, ret, v2, retry, remaining, total, dir>>
  /\ faults' \in 0..MaxFaults /\ swaps' \in 0..MaxSwaps /\ swapped' = swapped

LEMMA AdvancesTyped ==
  ASSUME SdTyped, NEW next \in Early \cup Late \cup Calls, Advances(next), slot' \in SlotType
  PROVE  SdTyped'
<1> USE DEF Advances, SdTyped, SlotType
<1>1. drv' \in [clock: Nat, width: {1, 4}, hs: {0, 1}]
  OBVIOUS
<1>2. swapped' \in {TRUE, FALSE} /\ v2' \in {TRUE, FALSE} /\ retry' \in 1..10
  OBVIOUS
<1>3. remaining' \in Nat /\ total' \in Nat /\ dir' \in {"read", "write"}
  OBVIOUS
<1>4. ret' \in {"none", "OK", "UNKNOWN", "INIT_ONGOING", "UNUSABLE", "COMM"}
  OBVIOUS
<1> QED  BY <1>1, <1>2, <1>3, <1>4

LEMMA GoAdvances ==
  ASSUME SdInv, NEW cmd \in Commands, Executed(cmd), NEW s, NEW next, Go(s, next)
  PROVE  Advances(next) /\ slot' = s /\ Sound(card') /\ card'.kind = card.kind
<1>1. Sound(card') /\ card'.kind = card.kind /\ faults' \in 0..MaxFaults
      /\ swaps' \in 0..MaxSwaps /\ swapped' = swapped
  BY ExecutedCard DEF SdInv, CardInv
<1> QED  BY <1>1 DEF Go, counts, Advances

LEMMA IdentifyKeeps == ASSUME SdInv, Identify PROVE SdInv'
<1> USE DEF SlotInv, CardInv, TypeInv, StageInv, VersionInv, BusInv, ReadyInv, ClockInv,
     Early, Late, LateSd, LateMmc, Calls, Agree, Present, isSdio, isSd, Sound, Cards, Bus,
     SlowBus, SameBus, SpeedTold, BusOf, MySide, SlotType
<1>1. ASSUME Step("cmd2", "CMD2", slot, "cmd3")  PROVE SdInv'
  <2> pc = "cmd2"
    BY <1>1 DEF Step
  <2>1. ASSUME Executed("CMD2"), Go(slot, "cmd3")  PROVE SdInv'
    <3>1. card.kind \in Memory /\ card.st = "ready" /\ card' = [card EXCEPT !.st = "ident"]
      BY <2>1 DEF Executed, Answers, Executes, After
    <3>2. Advances("cmd3") /\ slot' = (slot) /\ Sound(card') /\ card'.kind = card.kind
      BY <2>1, GoAdvances DEF Commands
    <3>3. Sound(card') /\ card'.kind = card.kind
      BY <3>2
    <3>4. Advances("cmd3")
      BY <3>1, <3>2
    <3>5. /\ slot' \in SlotType /\ slot'.state = slot.state /\ slot'.type = slot.type
             /\ slot'.version = slot.version /\ slot'.rca = slot.rca
          /\ slot'.clock = slot.clock /\ slot'.width = slot.width /\ slot'.hs = slot.hs
      BY <3>1, <3>2 DEF SdInv, SdTyped, Flags
    <3>6. SdTyped'
      BY <3>4, <3>5, AdvancesTyped DEF SdInv
    <3>7. SlotInv' /\ CardInv' /\ TypeInv' /\ ReadyInv'
      BY <3>1, <3>3, <3>4, <3>5, <3>6 DEF SdInv, SdTyped, Advances
    <3>8. StageInv' /\ VersionInv'
      BY <3>1, <3>3, <3>4, <3>5, <3>6 DEF SdInv, SdTyped, Advances
    <3>9. BusInv'
      BY <3>1, <3>3, <3>4, <3>5, <3>6 DEF SdInv, SdTyped, Advances
    <3>10. ClockInv'
      BY <3>1, <3>3, <3>4, <3>5, <3>6 DEF SdInv, SdTyped, Advances
    <3> QED  BY <3>6, <3>7, <3>8, <3>9, <3>10 DEF SdInv
  <2>2. ASSUME Missed("CMD2"), InitFails  PROVE SdInv'
    BY <2>2, Failing DEF Commands
  <2> QED
    BY <1>1, <2>1, <2>2 DEF Step, Exchange, Executed, Missed
<1>2. ASSUME Step("cmd3", "CMD3", [slot EXCEPT !.rca = card'.rca], IF isSd THEN "cmd9"
             ELSE "cmd7")  PROVE SdInv'
  <2> pc = "cmd3"
    BY <1>2 DEF Step
  <2>1. ASSUME Executed("CMD3"), Go([slot EXCEPT !.rca = card'.rca], IF isSd THEN "cmd9"
               ELSE "cmd7")  PROVE SdInv'
    <3>1. card.kind \notin Mmc /\ card.st = (IF card.kind \in Memory THEN "ident"
              ELSE "ready") /\ card' = Card(card.kind, "stby", card.io, 2, card.mem, card.fn)
      BY <2>1 DEF Executed, Answers, Executes, After
    <3>2. Advances(IF isSd THEN "cmd9" ELSE "cmd7")
              /\ slot' = ([slot EXCEPT !.rca = card'.rca]) /\ Sound(card') /\ card'.kind = card.kind
      BY <2>1, GoAdvances DEF Commands
    <3>3. Sound(card') /\ card'.kind = card.kind
      BY <3>2
    <3>4. CASE isSd
      <4>1. Advances("cmd9")
        BY <3>1, <3>2, <3>4
      <4>2. /\ slot' \in SlotType /\ slot'.state = slot.state /\ slot'.type = slot.type
               /\ slot'.version = slot.version /\ slot'.rca = card'.rca
            /\ slot'.clock = slot.clock /\ slot'.width = slot.width /\ slot'.hs = slot.hs
        BY <3>1, <3>2, <3>4 DEF SdInv, SdTyped, Flags
      <4>3. SdTyped'
        BY <4>1, <4>2, AdvancesTyped DEF SdInv
      <4>4. SlotInv' /\ CardInv' /\ TypeInv' /\ ReadyInv'
        BY <3>1, <3>3, <3>4, <4>1, <4>2, <4>3 DEF SdInv, SdTyped, Advances, Card,
           Memory, SdMem, Mmc, Mmc4
      <4>5. StageInv' /\ VersionInv'
        BY <3>1, <3>3, <3>4, <4>1, <4>2, <4>3 DEF SdInv, SdTyped, Advances, Card,
           Memory, SdMem, Mmc, Mmc4
      <4>6. BusInv'
        BY <3>1, <3>3, <3>4, <4>1, <4>2, <4>3 DEF SdInv, SdTyped, Advances, Card,
           Memory, SdMem, Mmc, Mmc4
      <4>7. ClockInv'
        BY <3>1, <3>3, <3>4, <4>1, <4>2, <4>3 DEF SdInv, SdTyped, Advances, Card,
           Memory, SdMem, Mmc, Mmc4
      <4> QED  BY <4>3, <4>4, <4>5, <4>6, <4>7 DEF SdInv
    <3>5. CASE ~isSd
      <4>1. Advances("cmd7")
        BY <3>1, <3>2, <3>5
      <4>2. /\ slot' \in SlotType /\ slot'.state = slot.state /\ slot'.type = slot.type
               /\ slot'.version = slot.version /\ slot'.rca = card'.rca
            /\ slot'.clock = slot.clock /\ slot'.width = slot.width /\ slot'.hs = slot.hs
        BY <3>1, <3>2, <3>5 DEF SdInv, SdTyped, Flags
      <4>3. SdTyped'
        BY <4>1, <4>2, AdvancesTyped DEF SdInv
      <4>4. SlotInv' /\ CardInv' /\ TypeInv' /\ ReadyInv'
        BY <3>1, <3>3, <3>5, <4>1, <4>2, <4>3 DEF SdInv, SdTyped, Advances, Card,
           Memory, SdMem, Mmc, Mmc4
      <4>5. StageInv' /\ VersionInv'
        BY <3>1, <3>3, <3>5, <4>1, <4>2, <4>3 DEF SdInv, SdTyped, Advances, Card,
           Memory, SdMem, Mmc, Mmc4
      <4>6. BusInv'
        BY <3>1, <3>3, <3>5, <4>1, <4>2, <4>3 DEF SdInv, SdTyped, Advances, Card,
           Memory, SdMem, Mmc, Mmc4
      <4>7. ClockInv'
        BY <3>1, <3>3, <3>5, <4>1, <4>2, <4>3 DEF SdInv, SdTyped, Advances, Card,
           Memory, SdMem, Mmc, Mmc4
      <4> QED  BY <4>3, <4>4, <4>5, <4>6, <4>7 DEF SdInv
    <3> QED  BY <3>4, <3>5
  <2>2. ASSUME Missed("CMD3"), InitFails  PROVE SdInv'
    BY <2>2, Failing DEF Commands
  <2> QED
    BY <1>2, <2>1, <2>2 DEF Step, Exchange, Executed, Missed
<1>3. ASSUME Step("cmd9", "CMD9", [slot EXCEPT !.clock = 1], "cmd7")  PROVE SdInv'
  <2> pc = "cmd9"
    BY <1>3 DEF Step
  <2>1. ASSUME Executed("CMD9"), Go([slot EXCEPT !.clock = 1], "cmd7")  PROVE SdInv'
    <3>1. card.st = "stby" /\ card.rca = slot.rca /\ card' = card
      BY <2>1 DEF Executed, Answers, Executes, After
    <3>2. Advances("cmd7") /\ slot' = ([slot EXCEPT !.clock = 1]) /\ Sound(card')
              /\ card'.kind = card.kind
      BY <2>1, GoAdvances DEF Commands
    <3>3. Sound(card') /\ card'.kind = card.kind
      BY <3>2
    <3>4. Advances("cmd7")
      BY <3>1, <3>2
    <3>5. /\ slot' \in SlotType /\ slot'.state = slot.state /\ slot'.type = slot.type
             /\ slot'.version = slot.version /\ slot'.rca = slot.rca
          /\ slot'.clock = 1 /\ slot'.width = slot.width /\ slot'.hs = slot.hs
      BY <3>1, <3>2 DEF SdInv, SdTyped, Flags
    <3>6. SdTyped'
      BY <3>4, <3>5, AdvancesTyped DEF SdInv
    <3>7. SlotInv' /\ CardInv' /\ TypeInv' /\ ReadyInv'
      BY <3>1, <3>3, <3>4, <3>5, <3>6 DEF SdInv, SdTyped, Advances
    <3>8. StageInv' /\ VersionInv'
      BY <3>1, <3>3, <3>4, <3>5, <3>6 DEF SdInv, SdTyped, Advances
    <3>9. BusInv'
      BY <3>1, <3>3, <3>4, <3>5, <3>6 DEF SdInv, SdTyped, Advances
    <3>10. ClockInv'
      BY <3>1, <3>3, <3>4, <3>5, <3>6 DEF SdInv, SdTyped, Advances
    <3> QED  BY <3>6, <3>7, <3>8, <3>9, <3>10 DEF SdInv
  <2>2. ASSUME Missed("CMD9"), InitFails  PROVE SdInv'
    BY <2>2, Failing DEF Commands
  <2> QED
    BY <1>3, <2>1, <2>2 DEF Step, Exchange, Executed, Missed
<1>4. ASSUME Step("cmd7", "CMD7", slot, IF isSd THEN "acmd51" ELSE "cis")  PROVE SdInv'
  <2> pc = "cmd7"
    BY <1>4 DEF Step
  <2>1. ASSUME Executed("CMD7"), Go(slot, IF isSd THEN "acmd51" ELSE "cis")  PROVE SdInv'
    <3>1. card.st = "stby" /\ card.rca = slot.rca /\ card' = [card EXCEPT !.st = "tran"]
      BY <2>1 DEF Executed, Answers, Executes, After
    <3>2. Advances(IF isSd THEN "acmd51" ELSE "cis") /\ slot' = (slot) /\ Sound(card')
              /\ card'.kind = card.kind
      BY <2>1, GoAdvances DEF Commands
    <3>3. Sound(card') /\ card'.kind = card.kind
      BY <3>2
    <3>4. CASE isSd
      <4>1. Advances("acmd51")
        BY <3>1, <3>2, <3>4
      <4>2. /\ slot' \in SlotType /\ slot'.state = slot.state /\ slot'.type = slot.type
               /\ slot'.version = slot.version /\ slot'.rca = slot.rca
            /\ slot'.clock = slot.clock /\ slot'.width = slot.width /\ slot'.hs = slot.hs
        BY <3>1, <3>2, <3>4 DEF SdInv, SdTyped, Flags
      <4>3. SdTyped'
        BY <4>1, <4>2, AdvancesTyped DEF SdInv
      <4>4. SlotInv' /\ CardInv' /\ TypeInv' /\ ReadyInv'
        BY <3>1, <3>3, <3>4, <4>1, <4>2, <4>3 DEF SdInv, SdTyped, Advances
      <4>5. StageInv' /\ VersionInv'
        BY <3>1, <3>3, <3>4, <4>1, <4>2, <4>3 DEF SdInv, SdTyped, Advances
      <4>6. BusInv'
        BY <3>1, <3>3, <3>4, <4>1, <4>2, <4>3 DEF SdInv, SdTyped, Advances
      <4>7. ClockInv'
        BY <3>1, <3>3, <3>4, <4>1, <4>2, <4>3 DEF SdInv, SdTyped, Advances
      <4> QED  BY <4>3, <4>4, <4>5, <4>6, <4>7 DEF SdInv
    <3>5. CASE ~isSd
      <4>1. Advances("cis")
        BY <3>1, <3>2, <3>5
      <4>2. /\ slot' \in SlotType /\ slot'.state = slot.state /\ slot'.type = slot.type
               /\ slot'.version = slot.version /\ slot'.rca = slot.rca
            /\ slot'.clock = slot.clock /\ slot'.width = slot.width /\ slot'.hs = slot.hs
        BY <3>1, <3>2, <3>5 DEF SdInv, SdTyped, Flags
      <4>3. SdTyped'
        BY <4>1, <4>2, AdvancesTyped DEF SdInv
      <4>4. SlotInv' /\ CardInv' /\ TypeInv' /\ ReadyInv'
        BY <3>1, <3>3, <3>5, <4>1, <4>2, <4>3 DEF SdInv, SdTyped, Advances
      <4>5. StageInv' /\ VersionInv'
        BY <3>1, <3>3, <3>5, <4>1, <4>2, <4>3 DEF SdInv, SdTyped, Advances
      <4>6. BusInv'
        BY <3>1, <3>3, <3>5, <4>1, <4>2, <4>3 DEF SdInv, SdTyped, Advances
      <4>7. ClockInv'
        BY <3>1, <3>3, <3>5, <4>1, <4>2, <4>3 DEF SdInv, SdTyped, Advances
      <4> QED  BY <4>3, <4>4, <4>5, <4>6, <4>7 DEF SdInv
    <3> QED  BY <3>4, <3>5
  <2>2. ASSUME Missed("CMD7"), InitFails  PROVE SdInv'
    BY <2>2, Failing DEF Commands
  <2> QED
    BY <1>4, <2>1, <2>2 DEF Step, Exchange, Executed, Missed
<1>5. ASSUME NEW v \in {1, 2}, "scr" \notin Shared => v = (IF card.kind = "SD1" THEN 1 ELSE 2),
             Step("acmd51", "ACMD51", [slot EXCEPT !.version = v],
                  IF isSdio THEN "cis" ELSE "acmd6")
      PROVE  SdInv'
  <2> pc = "acmd51"
    BY <1>5 DEF Step
  <2>1. ASSUME Executed("ACMD51"), Go([slot EXCEPT !.version = v],
                                       IF isSdio THEN "cis" ELSE "acmd6")
        PROVE  SdInv'
    <3>1. card.kind \in SdMem /\ card.st = "tran" /\ card' = card
      BY <2>1 DEF Executed, Answers, Executes, After
    <3>2. Advances(IF isSdio THEN "cis" ELSE "acmd6")
              /\ slot' = [slot EXCEPT !.version = v]
              /\ Sound(card') /\ card'.kind = card.kind
      BY <2>1, GoAdvances DEF Commands
    <3>3. Sound(card') /\ card'.kind = card.kind
      BY <3>2
    <3>4. CASE isSdio
      <4>1. Advances("cis")
        BY <3>1, <3>2, <3>4
      <4>2. /\ slot' \in SlotType /\ slot'.state = slot.state /\ slot'.type = slot.type
               /\ slot'.version = v /\ slot'.rca = slot.rca
            /\ slot'.clock = slot.clock /\ slot'.width = slot.width /\ slot'.hs = slot.hs
        BY <3>1, <3>2, <3>4 DEF SdInv, SdTyped, Flags
      <4>3. SdTyped'
        BY <4>1, <4>2, AdvancesTyped DEF SdInv
      <4>4. SlotInv' /\ CardInv' /\ TypeInv' /\ ReadyInv'
        BY <3>1, <3>3, <3>4, <4>1, <4>2, <4>3 DEF SdInv, SdTyped, Advances
      <4>5. StageInv' /\ VersionInv'
        BY <1>5, <3>1, <3>3, <3>4, <4>1, <4>2, <4>3 DEF SdInv, SdTyped, Advances
      <4>6. BusInv'
        BY <3>1, <3>3, <3>4, <4>1, <4>2, <4>3 DEF SdInv, SdTyped, Advances
      <4>7. ClockInv'
        BY <3>1, <3>3, <3>4, <4>1, <4>2, <4>3 DEF SdInv, SdTyped, Advances
      <4> QED  BY <4>3, <4>4, <4>5, <4>6, <4>7 DEF SdInv
    <3>5. CASE ~isSdio
      <4>1. Advances("acmd6")
        BY <3>1, <3>2, <3>5
      <4>2. /\ slot' \in SlotType /\ slot'.state = slot.state /\ slot'.type = slot.type
               /\ slot'.version = v /\ slot'.rca = slot.rca
            /\ slot'.clock = slot.clock /\ slot'.width = slot.width /\ slot'.hs = slot.hs
        BY <3>1, <3>2, <3>5 DEF SdInv, SdTyped, Flags
      <4>3. SdTyped'
        BY <4>1, <4>2, AdvancesTyped DEF SdInv
      <4>4. SlotInv' /\ CardInv' /\ TypeInv' /\ ReadyInv'
        BY <3>1, <3>3, <3>5, <4>1, <4>2, <4>3 DEF SdInv, SdTyped, Advances
      <4>5. StageInv' /\ VersionInv'
        BY <1>5, <3>1, <3>3, <3>5, <4>1, <4>2, <4>3 DEF SdInv, SdTyped, Advances
      <4>6. BusInv'
        BY <3>1, <3>3, <3>5, <4>1, <4>2, <4>3 DEF SdInv, SdTyped, Advances
      <4>7. ClockInv'
        BY <3>1, <3>3, <3>5, <4>1, <4>2, <4>3 DEF SdInv, SdTyped, Advances
      <4> QED  BY <4>3, <4>4, <4>5, <4>6, <4>7 DEF SdInv
    <3> QED  BY <3>4, <3>5
  <2>2. ASSUME Missed("ACMD51"), InitFails  PROVE SdInv'
    BY <2>2, Failing DEF Commands
  <2> QED
    BY <1>5, <2>1, <2>2 DEF Step, Exchange, Executed, Missed
<1>6. CASE sd_acmd51
  <2> PICK v \in ReadBack("scr", IF card.kind = "SD1" THEN 1 ELSE 2, {1, 2}) :
         Step("acmd51", "ACMD51", [slot EXCEPT !.version = v], IF isSdio THEN "cis" ELSE "acmd6")
    BY <1>6 DEF sd_acmd51
  <2>1. v \in {1, 2} /\ ("scr" \notin Shared => v = (IF card.kind = "SD1" THEN 1 ELSE 2))
    BY DEF ReadBack
  <2> QED
    BY <1>5, <2>1
<1> QED  BY <1>1, <1>2, <1>3, <1>4, <1>6 DEF Identify, sd_decode_csd

LEMMA BusKeeps == ASSUME SdInv, sdio_cmd52_set_bus_width \/ sd_acmd6
    \/ sdio_cmd52_set_high_speed \/ sd_cm6_set_high_speed  PROVE SdInv'
<1> USE DEF SlotInv, CardInv, TypeInv, StageInv, VersionInv, BusInv, ReadyInv, ClockInv,
     Early, Late, LateSd, LateMmc, Calls, Agree, Present, isSdio, isSd, Sound, Cards, Bus,
     SlowBus, SameBus, SpeedTold, BusOf, MySide, SlotType
<1>1. ASSUME Step("io_width", "IO_WIDTH", IF card.kind = "COMBO" THEN Width4 ELSE slot,
             IF isSd THEN "acmd6" ELSE "conf_width")  PROVE SdInv'
  <2> pc = "io_width"
    BY <1>1 DEF Step
  <2>1. ASSUME Executed("IO_WIDTH"),
               Go(IF card.kind = "COMBO" THEN Width4 ELSE slot, IF isSd THEN "acmd6"
               ELSE "conf_width")  PROVE SdInv'
    <3>1. card.kind \in Io /\ card.st = "tran"
      BY <2>1 DEF Executed, Answers, Executes, After
    <3>2. Advances(IF isSd THEN "acmd6" ELSE "conf_width")
              /\ slot' = (IF card.kind = "COMBO" THEN Width4 ELSE slot) /\ Sound(card')
              /\ card'.kind = card.kind
      BY <2>1, GoAdvances DEF Commands
    <3>3. Sound(card') /\ card'.kind = card.kind
      BY <3>2
    <3>4. CASE card.kind = "COMBO" /\ isSd
      <4>1. Advances("acmd6") /\ card' = [card EXCEPT !.fn = [card.fn EXCEPT !.width = 4]]
        BY <2>1, <3>1, <3>2, <3>4 DEF Executed, After, isSd, isSdio
      <4>2. /\ slot' \in SlotType /\ slot'.state = slot.state /\ slot'.type = slot.type
               /\ slot'.version = slot.version /\ slot'.rca = slot.rca
            /\ slot'.clock = slot.clock /\ slot'.width = 4 /\ slot'.hs = slot.hs
        BY <2>1, <3>1, <3>2, <3>4 DEF SdInv, SdTyped, Flags, Width4
      <4>3. SdTyped'
        BY <4>1, <4>2, AdvancesTyped DEF SdInv
      <4>4. SlotInv' /\ CardInv' /\ TypeInv' /\ ReadyInv'
        BY <3>1, <3>3, <3>4, <4>1, <4>2, <4>3 DEF SdInv, SdTyped, Advances, Memory, SdMem, Mmc,
           Mmc4, HighSpeed, HighCap, Io
      <4>5. StageInv' /\ VersionInv'
        BY <3>1, <3>3, <3>4, <4>1, <4>2, <4>3 DEF SdInv, SdTyped, Advances, Memory, SdMem, Mmc,
           Mmc4, HighSpeed, HighCap, Io
      <4>6. BusInv'
        BY <3>1, <3>3, <3>4, <4>1, <4>2, <4>3 DEF SdInv, SdTyped, Advances, Memory, SdMem, Mmc,
           Mmc4, HighSpeed, HighCap, Io
      <4>7. ClockInv'
        BY <3>1, <3>3, <3>4, <4>1, <4>2, <4>3 DEF SdInv, SdTyped, Advances, Memory, SdMem, Mmc,
           Mmc4, HighSpeed, HighCap, Io
      <4> QED  BY <4>3, <4>4, <4>5, <4>6, <4>7 DEF SdInv
    <3>5. CASE card.kind = "COMBO" /\ ~isSd
      <4>1. Advances("conf_width") /\ card' = [card EXCEPT !.fn = [card.fn EXCEPT !.width = 4]]
        BY <2>1, <3>1, <3>2, <3>5 DEF Executed, After, isSd, isSdio
      <4>2. /\ slot' \in SlotType /\ slot'.state = slot.state /\ slot'.type = slot.type
               /\ slot'.version = slot.version /\ slot'.rca = slot.rca
            /\ slot'.clock = slot.clock /\ slot'.width = 4 /\ slot'.hs = slot.hs
        BY <2>1, <3>1, <3>2, <3>5 DEF SdInv, SdTyped, Flags, Width4
      <4>3. SdTyped'
        BY <4>1, <4>2, AdvancesTyped DEF SdInv
      <4>4. SlotInv' /\ CardInv' /\ TypeInv' /\ ReadyInv'
        BY <3>1, <3>3, <3>5, <4>1, <4>2, <4>3 DEF SdInv, SdTyped, Advances, Memory, SdMem, Mmc,
           Mmc4, HighSpeed, HighCap, Io
      <4>5. StageInv' /\ VersionInv'
        BY <3>1, <3>3, <3>5, <4>1, <4>2, <4>3 DEF SdInv, SdTyped, Advances, Memory, SdMem, Mmc,
           Mmc4, HighSpeed, HighCap, Io
      <4>6. BusInv'
        BY <3>1, <3>3, <3>5, <4>1, <4>2, <4>3 DEF SdInv, SdTyped, Advances, Memory, SdMem, Mmc,
           Mmc4, HighSpeed, HighCap, Io
      <4>7. ClockInv'
        BY <3>1, <3>3, <3>5, <4>1, <4>2, <4>3 DEF SdInv, SdTyped, Advances, Memory, SdMem, Mmc,
           Mmc4, HighSpeed, HighCap, Io
      <4> QED  BY <4>3, <4>4, <4>5, <4>6, <4>7 DEF SdInv
    <3>6. CASE card.kind # "COMBO" /\ isSd
      <4>1. Advances("acmd6") /\ card' = card
        BY <2>1, <3>1, <3>2, <3>6 DEF Executed, After, isSd, isSdio
      <4>2. /\ slot' \in SlotType /\ slot'.state = slot.state /\ slot'.type = slot.type
               /\ slot'.version = slot.version /\ slot'.rca = slot.rca
            /\ slot'.clock = slot.clock /\ slot'.width = slot.width /\ slot'.hs = slot.hs
        BY <2>1, <3>1, <3>2, <3>6 DEF SdInv, SdTyped, Flags, Width4
      <4>3. SdTyped'
        BY <4>1, <4>2, AdvancesTyped DEF SdInv
      <4>4. SlotInv' /\ CardInv' /\ TypeInv' /\ ReadyInv'
        BY <3>1, <3>3, <3>6, <4>1, <4>2, <4>3 DEF SdInv, SdTyped, Advances, Memory, SdMem, Mmc,
           Mmc4, HighSpeed, HighCap, Io
      <4>5. StageInv' /\ VersionInv'
        BY <3>1, <3>3, <3>6, <4>1, <4>2, <4>3 DEF SdInv, SdTyped, Advances, Memory, SdMem, Mmc,
           Mmc4, HighSpeed, HighCap, Io
      <4>6. BusInv'
        BY <3>1, <3>3, <3>6, <4>1, <4>2, <4>3 DEF SdInv, SdTyped, Advances, Memory, SdMem, Mmc,
           Mmc4, HighSpeed, HighCap, Io
      <4>7. ClockInv'
        BY <3>1, <3>3, <3>6, <4>1, <4>2, <4>3 DEF SdInv, SdTyped, Advances, Memory, SdMem, Mmc,
           Mmc4, HighSpeed, HighCap, Io
      <4> QED  BY <4>3, <4>4, <4>5, <4>6, <4>7 DEF SdInv
    <3>7. CASE card.kind # "COMBO" /\ ~isSd
      <4>1. Advances("conf_width") /\ card' = card
        BY <2>1, <3>1, <3>2, <3>7 DEF Executed, After, isSd, isSdio
      <4>2. /\ slot' \in SlotType /\ slot'.state = slot.state /\ slot'.type = slot.type
               /\ slot'.version = slot.version /\ slot'.rca = slot.rca
            /\ slot'.clock = slot.clock /\ slot'.width = slot.width /\ slot'.hs = slot.hs
        BY <2>1, <3>1, <3>2, <3>7 DEF SdInv, SdTyped, Flags, Width4
      <4>3. SdTyped'
        BY <4>1, <4>2, AdvancesTyped DEF SdInv
      <4>4. SlotInv' /\ CardInv' /\ TypeInv' /\ ReadyInv'
        BY <3>1, <3>3, <3>7, <4>1, <4>2, <4>3 DEF SdInv, SdTyped, Advances, Memory, SdMem, Mmc,
           Mmc4, HighSpeed, HighCap, Io
      <4>5. StageInv' /\ VersionInv'
        BY <3>1, <3>3, <3>7, <4>1, <4>2, <4>3 DEF SdInv, SdTyped, Advances, Memory, SdMem, Mmc,
           Mmc4, HighSpeed, HighCap, Io
      <4>6. BusInv'
        BY <3>1, <3>3, <3>7, <4>1, <4>2, <4>3 DEF SdInv, SdTyped, Advances, Memory, SdMem, Mmc,
           Mmc4, HighSpeed, HighCap, Io
      <4>7. ClockInv'
        BY <3>1, <3>3, <3>7, <4>1, <4>2, <4>3 DEF SdInv, SdTyped, Advances, Memory, SdMem, Mmc,
           Mmc4, HighSpeed, HighCap, Io
      <4> QED  BY <4>3, <4>4, <4>5, <4>6, <4>7 DEF SdInv
    <3> QED  BY <3>4, <3>5, <3>6, <3>7
  <2>2. ASSUME Missed("IO_WIDTH"), InitFails  PROVE SdInv'
    BY <2>2, Failing DEF Commands
  <2> QED
    BY <1>1, <2>1, <2>2 DEF Step, Exchange, Executed, Missed
<1>2. ASSUME Step("acmd6", "ACMD6", Width4, "conf_width")  PROVE SdInv'
  <2> pc = "acmd6"
    BY <1>2 DEF Step
  <2>1. ASSUME Executed("ACMD6"), Go(Width4, "conf_width")  PROVE SdInv'
    <3>1. card.kind \in SdMem /\ card.st = "tran"
              /\ card' = [card EXCEPT !.mem = [card.mem EXCEPT !.width = 4]]
      BY <2>1 DEF Executed, Answers, Executes, After
    <3>2. Advances("conf_width") /\ slot' = (Width4) /\ Sound(card') /\ card'.kind = card.kind
      BY <2>1, GoAdvances DEF Commands
    <3>3. Sound(card') /\ card'.kind = card.kind
      BY <3>2
    <3>4. Advances("conf_width")
      BY <3>1, <3>2
    <3>5. /\ slot' \in SlotType /\ slot'.state = slot.state /\ slot'.type = slot.type
             /\ slot'.version = slot.version /\ slot'.rca = slot.rca
          /\ slot'.clock = slot.clock /\ slot'.width = 4 /\ slot'.hs = slot.hs
      BY <3>1, <3>2 DEF SdInv, SdTyped, Flags, Width4
    <3>6. SdTyped'
      BY <3>4, <3>5, AdvancesTyped DEF SdInv
    <3>7. SlotInv' /\ CardInv' /\ TypeInv' /\ ReadyInv'
      BY <3>1, <3>3, <3>4, <3>5, <3>6 DEF SdInv, SdTyped, Advances, Memory, SdMem, Mmc, Mmc4,
         HighSpeed, HighCap, Io
    <3>8. StageInv' /\ VersionInv'
      BY <3>1, <3>3, <3>4, <3>5, <3>6 DEF SdInv, SdTyped, Advances, Memory, SdMem, Mmc, Mmc4,
         HighSpeed, HighCap, Io
    <3>9. BusInv'
      BY <3>1, <3>3, <3>4, <3>5, <3>6 DEF SdInv, SdTyped, Advances, Memory, SdMem, Mmc, Mmc4,
         HighSpeed, HighCap, Io
    <3>10. ClockInv'
      BY <3>1, <3>3, <3>4, <3>5, <3>6 DEF SdInv, SdTyped, Advances, Memory, SdMem, Mmc, Mmc4,
         HighSpeed, HighCap, Io
    <3> QED  BY <3>6, <3>7, <3>8, <3>9, <3>10 DEF SdInv
  <2>2. ASSUME Missed("ACMD6"), InitFails  PROVE SdInv'
    BY <2>2, Failing DEF Commands
  <2> QED
    BY <1>2, <2>1, <2>2 DEF Step, Exchange, Executed, Missed
<1>3. ASSUME Step("io_hs", "IO_HS", SetHs(slot), IF isSd /\ slot.version > 1 THEN "cmd6"
             ELSE "conf_hs")  PROVE SdInv'
  <2> pc = "io_hs"
    BY <1>3 DEF Step
  <2>1. ASSUME Executed("IO_HS"), Go(SetHs(slot), IF isSd /\ slot.version > 1 THEN "cmd6"
               ELSE "conf_hs")  PROVE SdInv'
    <3>1. card.kind \in Io /\ card.st = "tran"
      BY <2>1 DEF Executed, Answers, Executes, After
    <3>2. Advances(IF isSd /\ slot.version > 1 THEN "cmd6" ELSE "conf_hs")
              /\ slot' = (SetHs(slot)) /\ Sound(card') /\ card'.kind = card.kind
      BY <2>1, GoAdvances DEF Commands
    <3>3. Sound(card') /\ card'.kind = card.kind
      BY <3>2
    <3>4. CASE card.kind = "COMBO" /\ isSd /\ slot.version > 1
      <4>1. Advances("cmd6") /\ card' = [card EXCEPT !.fn = [card.fn EXCEPT !.hs = 1]]
        BY <2>1, <3>1, <3>2, <3>4 DEF Executed, After, isSd, isSdio
      <4>2. slot' = [slot EXCEPT !.hs = 1, !.clock = 2 * @] /\ 2 * slot.clock \in Nat
        BY <2>1, <3>1, <3>2, <3>4 DEF SdInv, SdTyped, SetHs, AssumeHs, HighSpeed, Io
      <4>3. slot' \in SlotType
        <5>1. slot \in SlotType
          BY DEF SdInv, SdTyped
        <5> QED  BY <4>2, <5>1 DEF SlotType
      <4>4. /\ slot' \in SlotType /\ slot'.state = slot.state /\ slot'.type = slot.type
               /\ slot'.version = slot.version /\ slot'.rca = slot.rca
            /\ slot'.clock = 2 * slot.clock /\ slot'.width = slot.width /\ slot'.hs = 1
        BY <2>1, <3>1, <3>2, <3>4, <4>3 DEF SdInv, SdTyped, Flags, SetHs, AssumeHs, HighSpeed, Io
      <4>5. SdTyped'
        BY <4>1, <4>4, AdvancesTyped DEF SdInv
      <4>6. SlotInv' /\ CardInv' /\ TypeInv' /\ ReadyInv'
        BY <3>1, <3>3, <3>4, <4>1, <4>4, <4>5 DEF SdInv, SdTyped, Advances, Memory, SdMem, Mmc,
           Mmc4, HighSpeed, HighCap, Io
      <4>7. StageInv' /\ VersionInv'
        BY <3>1, <3>3, <3>4, <4>1, <4>4, <4>5 DEF SdInv, SdTyped, Advances, Memory, SdMem, Mmc,
           Mmc4, HighSpeed, HighCap, Io
      <4>8. BusInv'
        BY <3>1, <3>3, <3>4, <4>1, <4>4, <4>5 DEF SdInv, SdTyped, Advances, Memory, SdMem, Mmc,
           Mmc4, HighSpeed, HighCap, Io
      <4>9. ClockInv'
        BY <3>1, <3>3, <3>4, <4>1, <4>4, <4>5 DEF SdInv, SdTyped, Advances, Memory, SdMem, Mmc,
           Mmc4, HighSpeed, HighCap, Io
      <4> QED  BY <4>5, <4>6, <4>7, <4>8, <4>9 DEF SdInv
    <3>5. CASE card.kind = "COMBO" /\ ~(isSd /\ slot.version > 1)
      <4>1. Advances("conf_hs") /\ card' = [card EXCEPT !.fn = [card.fn EXCEPT !.hs = 1]]
        BY <2>1, <3>1, <3>2, <3>5 DEF Executed, After, isSd, isSdio
      <4>2. slot' = [slot EXCEPT !.hs = 1, !.clock = 2 * @] /\ 2 * slot.clock \in Nat
        BY <2>1, <3>1, <3>2, <3>5 DEF SdInv, SdTyped, SetHs, AssumeHs, HighSpeed, Io
      <4>3. slot' \in SlotType
        <5>1. slot \in SlotType
          BY DEF SdInv, SdTyped
        <5> QED  BY <4>2, <5>1 DEF SlotType
      <4>4. /\ slot' \in SlotType /\ slot'.state = slot.state /\ slot'.type = slot.type
               /\ slot'.version = slot.version /\ slot'.rca = slot.rca
            /\ slot'.clock = 2 * slot.clock /\ slot'.width = slot.width /\ slot'.hs = 1
        BY <2>1, <3>1, <3>2, <3>5, <4>3 DEF SdInv, SdTyped, Flags, SetHs, AssumeHs, HighSpeed, Io
      <4>5. SdTyped'
        BY <4>1, <4>4, AdvancesTyped DEF SdInv
      <4>6. SlotInv' /\ CardInv' /\ TypeInv' /\ ReadyInv'
        BY <3>1, <3>3, <3>5, <4>1, <4>4, <4>5 DEF SdInv, SdTyped, Advances, Memory, SdMem, Mmc,
           Mmc4, HighSpeed, HighCap, Io
      <4>7. StageInv' /\ VersionInv'
        BY <3>1, <3>3, <3>5, <4>1, <4>4, <4>5 DEF SdInv, SdTyped, Advances, Memory, SdMem, Mmc,
           Mmc4, HighSpeed, HighCap, Io
      <4>8. ~SpeedTold
        <5>1. Present /\ Agree /\ isSd
          BY <3>1, <3>5 DEF SdInv
        <5>2. slot.version <= 1
          BY <3>5, <5>1 DEF SdInv, SdTyped
        <5> QED  BY <3>5, <5>1, <5>2 DEF SdInv
      <4>10. BusInv'
        BY <3>1, <3>3, <3>5, <4>1, <4>4, <4>5, <4>8 DEF SdInv, SdTyped, Advances, Memory, SdMem,
           Mmc, Mmc4, HighSpeed, HighCap, Io
      <4>9. ClockInv'
        BY <3>1, <3>3, <3>5, <4>1, <4>4, <4>5 DEF SdInv, SdTyped, Advances, Memory, SdMem, Mmc,
           Mmc4, HighSpeed, HighCap, Io
      <4> QED  BY <4>5, <4>6, <4>7, <4>8, <4>9, <4>10 DEF SdInv
    <3>6. CASE card.kind # "COMBO" /\ isSd /\ slot.version > 1
      <4>1. Advances("cmd6") /\ card' = card
        BY <2>1, <3>1, <3>2, <3>6 DEF Executed, After, isSd, isSdio
      <4>2. /\ slot' \in SlotType /\ slot'.state = slot.state /\ slot'.type = slot.type
               /\ slot'.version = slot.version /\ slot'.rca = slot.rca
            /\ slot'.clock = slot.clock /\ slot'.width = slot.width /\ slot'.hs = slot.hs
        BY <2>1, <3>1, <3>2, <3>6 DEF SdInv, SdTyped, Flags, SetHs, AssumeHs, HighSpeed, Io
      <4>3. SdTyped'
        BY <4>1, <4>2, AdvancesTyped DEF SdInv
      <4>4. SlotInv' /\ CardInv' /\ TypeInv' /\ ReadyInv'
        BY <3>1, <3>3, <3>6, <4>1, <4>2, <4>3 DEF SdInv, SdTyped, Advances, Memory, SdMem, Mmc,
           Mmc4, HighSpeed, HighCap, Io
      <4>5. StageInv' /\ VersionInv'
        BY <3>1, <3>3, <3>6, <4>1, <4>2, <4>3 DEF SdInv, SdTyped, Advances, Memory, SdMem, Mmc,
           Mmc4, HighSpeed, HighCap, Io
      <4>6. BusInv'
        BY <3>1, <3>3, <3>6, <4>1, <4>2, <4>3 DEF SdInv, SdTyped, Advances, Memory, SdMem, Mmc,
           Mmc4, HighSpeed, HighCap, Io
      <4>7. ClockInv'
        BY <3>1, <3>3, <3>6, <4>1, <4>2, <4>3 DEF SdInv, SdTyped, Advances, Memory, SdMem, Mmc,
           Mmc4, HighSpeed, HighCap, Io
      <4> QED  BY <4>3, <4>4, <4>5, <4>6, <4>7 DEF SdInv
    <3>7. CASE card.kind # "COMBO" /\ ~(isSd /\ slot.version > 1)
      <4>1. Advances("conf_hs") /\ card' = card
        BY <2>1, <3>1, <3>2, <3>7 DEF Executed, After, isSd, isSdio
      <4>2. /\ slot' \in SlotType /\ slot'.state = slot.state /\ slot'.type = slot.type
               /\ slot'.version = slot.version /\ slot'.rca = slot.rca
            /\ slot'.clock = slot.clock /\ slot'.width = slot.width /\ slot'.hs = slot.hs
        BY <2>1, <3>1, <3>2, <3>7 DEF SdInv, SdTyped, Flags, SetHs, AssumeHs, HighSpeed, Io
      <4>3. SdTyped'
        BY <4>1, <4>2, AdvancesTyped DEF SdInv
      <4>4. SlotInv' /\ CardInv' /\ TypeInv' /\ ReadyInv'
        BY <3>1, <3>3, <3>7, <4>1, <4>2, <4>3 DEF SdInv, SdTyped, Advances, Memory, SdMem, Mmc,
           Mmc4, HighSpeed, HighCap, Io
      <4>5. StageInv' /\ VersionInv'
        BY <3>1, <3>3, <3>7, <4>1, <4>2, <4>3 DEF SdInv, SdTyped, Advances, Memory, SdMem, Mmc,
           Mmc4, HighSpeed, HighCap, Io
      <4>6. BusInv'
        BY <3>1, <3>3, <3>7, <4>1, <4>2, <4>3 DEF SdInv, SdTyped, Advances, Memory, SdMem, Mmc,
           Mmc4, HighSpeed, HighCap, Io
      <4>7. ClockInv'
        BY <3>1, <3>3, <3>7, <4>1, <4>2, <4>3 DEF SdInv, SdTyped, Advances, Memory, SdMem, Mmc,
           Mmc4, HighSpeed, HighCap, Io
      <4> QED  BY <4>3, <4>4, <4>5, <4>6, <4>7 DEF SdInv
    <3> QED  BY <3>4, <3>5, <3>6, <3>7
  <2>2. ASSUME Missed("IO_HS"), InitFails  PROVE SdInv'
    BY <2>2, Failing DEF Commands
  <2> QED
    BY <1>3, <2>1, <2>2 DEF Step, Exchange, Executed, Missed
<1>4. ASSUME NEW s, s = SetHs(slot) \/ (s = AssumeHs(slot) /\ "switch_status" \in Shared),
             Step("cmd6", "CMD6", s, "conf_hs")
      PROVE  SdInv'
  <2> pc = "cmd6"
    BY <1>4 DEF Step
  <2>1. ASSUME Executed("CMD6"), Go(s, "conf_hs")  PROVE SdInv'
    <3>1. card.kind \in SdMem /\ card.st = "tran"
      BY <2>1 DEF Executed, Answers, Executes, After
    <3>2. Advances("conf_hs") /\ slot' = s /\ Sound(card') /\ card'.kind = card.kind
      BY <2>1, GoAdvances DEF Commands
    <3>3. Sound(card') /\ card'.kind = card.kind
      BY <3>2
    <3>4. CASE card.kind \in HighSpeed
      <4>1. Advances("conf_hs") /\ card' = [card EXCEPT !.mem = [card.mem EXCEPT !.hs = 1]]
        BY <1>4, <2>1, <3>1, <3>2, <3>4 DEF Executed, After, isSd, isSdio
      <4>2. slot' = [slot EXCEPT !.hs = 1, !.clock = 2 * @] /\ 2 * slot.clock \in Nat
        BY <1>4, <2>1, <3>1, <3>2, <3>4 DEF SdInv, SdTyped, SetHs, AssumeHs
      <4>3. slot' \in SlotType
        <5>1. slot \in SlotType
          BY DEF SdInv, SdTyped
        <5> QED  BY <4>2, <5>1 DEF SlotType
      <4>4. /\ slot' \in SlotType /\ slot'.state = slot.state /\ slot'.type = slot.type
               /\ slot'.version = slot.version /\ slot'.rca = slot.rca
            /\ slot'.clock = 2 * slot.clock /\ slot'.width = slot.width /\ slot'.hs = 1
        BY <4>2, <4>3 DEF SdInv, SdTyped
      <4>5. SdTyped'
        BY <4>1, <4>4, AdvancesTyped DEF SdInv
      <4>6. SlotInv' /\ CardInv' /\ TypeInv' /\ ReadyInv'
        BY <3>1, <3>3, <3>4, <4>1, <4>4, <4>5 DEF SdInv, SdTyped, Advances, Memory, SdMem, Mmc,
           Mmc4, HighSpeed, HighCap, Io
      <4>7. StageInv' /\ VersionInv'
        BY <3>1, <3>3, <3>4, <4>1, <4>4, <4>5 DEF SdInv, SdTyped, Advances, Memory, SdMem, Mmc,
           Mmc4, HighSpeed, HighCap, Io
      <4>8. BusInv'
        BY <3>1, <3>3, <3>4, <4>1, <4>4, <4>5 DEF SdInv, SdTyped, Advances, Memory, SdMem, Mmc,
           Mmc4, HighSpeed, HighCap, Io
      <4>9. ClockInv'
        BY <3>1, <3>3, <3>4, <4>1, <4>4, <4>5 DEF SdInv, SdTyped, Advances, Memory, SdMem, Mmc,
           Mmc4, HighSpeed, HighCap, Io
      <4> QED  BY <4>5, <4>6, <4>7, <4>8, <4>9 DEF SdInv
    <3>5. CASE card.kind \notin HighSpeed /\ s = slot
      <4>1. Advances("conf_hs") /\ card' = card
        BY <2>1, <3>1, <3>2, <3>5 DEF Executed, After, isSd, isSdio
      <4>2. /\ slot' \in SlotType /\ slot'.state = slot.state /\ slot'.type = slot.type
               /\ slot'.version = slot.version /\ slot'.rca = slot.rca
            /\ slot'.clock = slot.clock /\ slot'.width = slot.width /\ slot'.hs = slot.hs
        BY <2>1, <3>1, <3>2, <3>5 DEF SdInv, SdTyped, Flags, SetHs, AssumeHs
      <4>3. SdTyped'
        BY <4>1, <4>2, AdvancesTyped DEF SdInv
      <4>4. SlotInv' /\ CardInv' /\ TypeInv' /\ ReadyInv'
        BY <3>1, <3>3, <3>5, <4>1, <4>2, <4>3 DEF SdInv, SdTyped, Advances, Memory, SdMem, Mmc,
           Mmc4, HighSpeed, HighCap, Io
      <4>5. StageInv' /\ VersionInv'
        BY <3>1, <3>3, <3>5, <4>1, <4>2, <4>3 DEF SdInv, SdTyped, Advances, Memory, SdMem, Mmc,
           Mmc4, HighSpeed, HighCap, Io
      <4>6. BusInv'
        BY <3>1, <3>3, <3>5, <4>1, <4>2, <4>3 DEF SdInv, SdTyped, Advances, Memory, SdMem, Mmc,
           Mmc4, HighSpeed, HighCap, Io
      <4>7. ClockInv'
        BY <3>1, <3>3, <3>5, <4>1, <4>2, <4>3 DEF SdInv, SdTyped, Advances, Memory, SdMem, Mmc,
           Mmc4, HighSpeed, HighCap, Io
      <4> QED  BY <4>3, <4>4, <4>5, <4>6, <4>7 DEF SdInv
    <3>6. CASE /\ card.kind \notin HighSpeed /\ s = AssumeHs(slot)
               /\ "switch_status" \in Shared
      <4>1. Advances("conf_hs") /\ card' = card
        BY <1>4, <2>1, <3>1, <3>2, <3>6 DEF Executed, After, isSd, isSdio
      <4>2. slot' = [slot EXCEPT !.hs = 1, !.clock = 2 * @] /\ 2 * slot.clock \in Nat
        BY <1>4, <2>1, <3>1, <3>2, <3>6 DEF SdInv, SdTyped, SetHs, AssumeHs
      <4>3. slot' \in SlotType
        <5>1. slot \in SlotType
          BY DEF SdInv, SdTyped
        <5> QED  BY <4>2, <5>1 DEF SlotType
      <4>4. /\ slot' \in SlotType /\ slot'.state = slot.state /\ slot'.type = slot.type
               /\ slot'.version = slot.version /\ slot'.rca = slot.rca
            /\ slot'.clock = 2 * slot.clock /\ slot'.width = slot.width /\ slot'.hs = 1
        BY <1>4, <2>1, <3>1, <3>2, <3>6, <4>3 DEF SdInv, SdTyped, Flags, SetHs, AssumeHs
      <4>5. SdTyped'
        BY <4>1, <4>4, AdvancesTyped DEF SdInv
      <4>6. SlotInv' /\ CardInv' /\ TypeInv' /\ ReadyInv'
        BY <3>1, <3>3, <3>6, <4>1, <4>4, <4>5 DEF SdInv, SdTyped, Advances, Memory, SdMem, Mmc,
           Mmc4, HighSpeed, HighCap, Io
      <4>7. StageInv' /\ VersionInv'
        BY <3>1, <3>3, <3>6, <4>1, <4>4, <4>5 DEF SdInv, SdTyped, Advances, Memory, SdMem, Mmc,
           Mmc4, HighSpeed, HighCap, Io
      <4>8. BusInv'
        BY <3>1, <3>3, <3>6, <4>1, <4>4, <4>5 DEF SdInv, SdTyped, Advances, Memory, SdMem, Mmc,
           Mmc4, HighSpeed, HighCap, Io
      <4>9. ClockInv'
        BY <3>1, <3>3, <3>6, <4>1, <4>4, <4>5 DEF SdInv, SdTyped, Advances, Memory, SdMem, Mmc,
           Mmc4, HighSpeed, HighCap, Io
      <4> QED  BY <4>5, <4>6, <4>7, <4>8, <4>9 DEF SdInv
    <3> QED  BY <1>4, <3>4, <3>5, <3>6 DEF SetHs
  <2>2. ASSUME Missed("CMD6"), InitFails  PROVE SdInv'
    BY <2>2, Failing DEF Commands
  <2> QED
    BY <1>4, <2>1, <2>2 DEF Step, Exchange, Executed, Missed
<1>5. CASE sd_cm6_set_high_speed
  <2> PICK s \in ReadBack("switch_status", SetHs(slot), {AssumeHs(slot)}) :
         Step("cmd6", "CMD6", s, "conf_hs")
    BY <1>5 DEF sd_cm6_set_high_speed
  <2>1. s = SetHs(slot) \/ (s = AssumeHs(slot) /\ "switch_status" \in Shared)
    BY DEF ReadBack
  <2> QED
    BY <1>4, <2>1
<1> QED  BY <1>1, <1>2, <1>3, <1>5 DEF sdio_cmd52_set_bus_width, sd_acmd6,
        sdio_cmd52_set_high_speed

LEMMA MmcKeeps ==
  ASSUME SdInv,
         \/ mmc_mci_op_cond \/ mmc_decode_csd \/ mmc_cmd8 \/ mmc_cmd6_set_bus_width
         \/ mmc_cmd6_set_high_speed \/ Step("m_cmd2", "CMD2", [slot EXCEPT !.rca = 1], "m_cmd3")
         \/ Step("m_cmd3", "CMD3_MMC", slot, "m_cmd9")
         \/ Step("m_cmd7", "CMD7", slot, IF slot.version >= 4 THEN "m_ext_csd" ELSE "conf_mmc")
  PROVE  SdInv'
<1> USE DEF SlotInv, CardInv, TypeInv, StageInv, VersionInv, BusInv, ReadyInv, ClockInv,
     Early, Late, LateSd, LateMmc, Calls, Agree, Present, isSdio, isSd, Sound, Cards, Bus,
     SlowBus, SameBus, SpeedTold, BusOf, MySide, SlotType
<1>1. ASSUME Step("m_cmd1", "CMD1", WithHc, "m_cmd2")  PROVE SdInv'
  <2> pc = "m_cmd1"
    BY <1>1 DEF Step
  <2>1. ASSUME Executed("CMD1"), Go(WithHc, "m_cmd2")  PROVE SdInv'
    <3>1. card.kind \in Mmc /\ card.st = "idle" /\ card' = [card EXCEPT !.st = "ready"]
      BY <2>1 DEF Executed, Answers, Executes, After
    <3>2. Advances("m_cmd2") /\ slot' = (WithHc) /\ Sound(card') /\ card'.kind = card.kind
      BY <2>1, GoAdvances DEF Commands
    <3>3. Sound(card') /\ card'.kind = card.kind
      BY <3>2
    <3>4. CASE card.kind \in HighCap
      <4>1. Advances("m_cmd2")
        BY <3>1, <3>2, <3>4
      <4>2. /\ slot' \in SlotType /\ slot'.state = slot.state /\ slot'.type = slot.type
               \cup {"HC"} /\ slot'.version = slot.version /\ slot'.rca = slot.rca
            /\ slot'.clock = slot.clock /\ slot'.width = slot.width /\ slot'.hs = slot.hs
        BY <3>1, <3>2, <3>4 DEF SdInv, SdTyped, Flags, WithHc
      <4>3. SdTyped'
        BY <4>1, <4>2, AdvancesTyped DEF SdInv
      <4>4. SlotInv' /\ CardInv' /\ TypeInv' /\ ReadyInv'
        BY <3>1, <3>3, <3>4, <4>1, <4>2, <4>3 DEF SdInv, SdTyped, Advances, Memory, SdMem, Mmc,
           Mmc4, HighSpeed, HighCap, Io
      <4>5. StageInv' /\ VersionInv'
        BY <3>1, <3>3, <3>4, <4>1, <4>2, <4>3 DEF SdInv, SdTyped, Advances, Memory, SdMem, Mmc,
           Mmc4, HighSpeed, HighCap, Io
      <4>6. BusInv'
        BY <3>1, <3>3, <3>4, <4>1, <4>2, <4>3 DEF SdInv, SdTyped, Advances, Memory, SdMem, Mmc,
           Mmc4, HighSpeed, HighCap, Io
      <4>7. ClockInv'
        BY <3>1, <3>3, <3>4, <4>1, <4>2, <4>3 DEF SdInv, SdTyped, Advances, Memory, SdMem, Mmc,
           Mmc4, HighSpeed, HighCap, Io
      <4> QED  BY <4>3, <4>4, <4>5, <4>6, <4>7 DEF SdInv
    <3>5. CASE card.kind \notin HighCap
      <4>1. Advances("m_cmd2")
        BY <3>1, <3>2, <3>5
      <4>2. /\ slot' \in SlotType /\ slot'.state = slot.state /\ slot'.type = slot.type
               /\ slot'.version = slot.version /\ slot'.rca = slot.rca
            /\ slot'.clock = slot.clock /\ slot'.width = slot.width /\ slot'.hs = slot.hs
        BY <3>1, <3>2, <3>5 DEF SdInv, SdTyped, Flags, WithHc
      <4>3. SdTyped'
        BY <4>1, <4>2, AdvancesTyped DEF SdInv
      <4>4. SlotInv' /\ CardInv' /\ TypeInv' /\ ReadyInv'
        BY <3>1, <3>3, <3>5, <4>1, <4>2, <4>3 DEF SdInv, SdTyped, Advances, Memory, SdMem, Mmc,
           Mmc4, HighSpeed, HighCap, Io
      <4>5. StageInv' /\ VersionInv'
        BY <3>1, <3>3, <3>5, <4>1, <4>2, <4>3 DEF SdInv, SdTyped, Advances, Memory, SdMem, Mmc,
           Mmc4, HighSpeed, HighCap, Io
      <4>6. BusInv'
        BY <3>1, <3>3, <3>5, <4>1, <4>2, <4>3 DEF SdInv, SdTyped, Advances, Memory, SdMem, Mmc,
           Mmc4, HighSpeed, HighCap, Io
      <4>7. ClockInv'
        BY <3>1, <3>3, <3>5, <4>1, <4>2, <4>3 DEF SdInv, SdTyped, Advances, Memory, SdMem, Mmc,
           Mmc4, HighSpeed, HighCap, Io
      <4> QED  BY <4>3, <4>4, <4>5, <4>6, <4>7 DEF SdInv
    <3> QED  BY <3>4, <3>5
  <2>2. ASSUME Missed("CMD1"), InitFails  PROVE SdInv'
    BY <2>2, Failing DEF Commands
  <2> QED
    BY <1>1, <2>1, <2>2 DEF Step, Exchange, Executed, Missed
<1>2. ASSUME Step("m_cmd2", "CMD2", [slot EXCEPT !.rca = 1], "m_cmd3")  PROVE SdInv'
  <2> pc = "m_cmd2"
    BY <1>2 DEF Step
  <2>1. ASSUME Executed("CMD2"), Go([slot EXCEPT !.rca = 1], "m_cmd3")  PROVE SdInv'
    <3>1. card.kind \in Memory /\ card.st = "ready" /\ card' = [card EXCEPT !.st = "ident"]
      BY <2>1 DEF Executed, Answers, Executes, After
    <3>2. Advances("m_cmd3") /\ slot' = ([slot EXCEPT !.rca = 1]) /\ Sound(card')
              /\ card'.kind = card.kind
      BY <2>1, GoAdvances DEF Commands
    <3>3. Sound(card') /\ card'.kind = card.kind
      BY <3>2
    <3>4. Advances("m_cmd3")
      BY <3>1, <3>2
    <3>5. /\ slot' \in SlotType /\ slot'.state = slot.state /\ slot'.type = slot.type
             /\ slot'.version = slot.version /\ slot'.rca = 1
          /\ slot'.clock = slot.clock /\ slot'.width = slot.width /\ slot'.hs = slot.hs
      BY <3>1, <3>2 DEF SdInv, SdTyped, Flags
    <3>6. SdTyped'
      BY <3>4, <3>5, AdvancesTyped DEF SdInv
    <3>7. SlotInv' /\ CardInv' /\ TypeInv' /\ ReadyInv'
      BY <3>1, <3>3, <3>4, <3>5, <3>6 DEF SdInv, SdTyped, Advances
    <3>8. StageInv' /\ VersionInv'
      BY <3>1, <3>3, <3>4, <3>5, <3>6 DEF SdInv, SdTyped, Advances
    <3>9. BusInv'
      BY <3>1, <3>3, <3>4, <3>5, <3>6 DEF SdInv, SdTyped, Advances
    <3>10. ClockInv'
      BY <3>1, <3>3, <3>4, <3>5, <3>6 DEF SdInv, SdTyped, Advances
    <3> QED  BY <3>6, <3>7, <3>8, <3>9, <3>10 DEF SdInv
  <2>2. ASSUME Missed("CMD2"), InitFails  PROVE SdInv'
    BY <2>2, Failing DEF Commands
  <2> QED
    BY <1>2, <2>1, <2>2 DEF Step, Exchange, Executed, Missed
<1>3. ASSUME Step("m_cmd3", "CMD3_MMC", slot, "m_cmd9")  PROVE SdInv'
  <2> pc = "m_cmd3"
    BY <1>3 DEF Step
  <2>1. ASSUME Executed("CMD3_MMC"), Go(slot, "m_cmd9")  PROVE SdInv'
    <3>1. card.kind \in Mmc /\ card.st = "ident"
              /\ card' = Card(card.kind, "stby", card.io, 1, card.mem, card.fn)
      BY <2>1 DEF Executed, Answers, Executes, After
    <3>2. Advances("m_cmd9") /\ slot' = (slot) /\ Sound(card') /\ card'.kind = card.kind
      BY <2>1, GoAdvances DEF Commands
    <3>3. Sound(card') /\ card'.kind = card.kind
      BY <3>2
    <3>4. Advances("m_cmd9")
      BY <3>1, <3>2
    <3>5. /\ slot' \in SlotType /\ slot'.state = slot.state /\ slot'.type = slot.type
             /\ slot'.version = slot.version /\ slot'.rca = slot.rca
          /\ slot'.clock = slot.clock /\ slot'.width = slot.width /\ slot'.hs = slot.hs
      BY <3>1, <3>2 DEF SdInv, SdTyped, Flags
    <3>6. SdTyped'
      BY <3>4, <3>5, AdvancesTyped DEF SdInv
    <3>7. SlotInv' /\ CardInv' /\ TypeInv' /\ ReadyInv'
      BY <3>1, <3>3, <3>4, <3>5, <3>6 DEF SdInv, SdTyped, Advances, Card
    <3>8. StageInv' /\ VersionInv'
      BY <3>1, <3>3, <3>4, <3>5, <3>6 DEF SdInv, SdTyped, Advances, Card
    <3>9. BusInv'
      BY <3>1, <3>3, <3>4, <3>5, <3>6 DEF SdInv, SdTyped, Advances, Card
    <3>10. ClockInv'
      BY <3>1, <3>3, <3>4, <3>5, <3>6 DEF SdInv, SdTyped, Advances, Card
    <3> QED  BY <3>6, <3>7, <3>8, <3>9, <3>10 DEF SdInv
  <2>2. ASSUME Missed("CMD3_MMC"), InitFails  PROVE SdInv'
    BY <2>2, Failing DEF Commands
  <2> QED
    BY <1>3, <2>1, <2>2 DEF Step, Exchange, Executed, Missed
<1>4. ASSUME Step("m_cmd9", "CMD9",
             [slot EXCEPT !.clock = 1, !.version = IF card.kind \in Mmc4 THEN 4 ELSE 3],
             "m_cmd7")  PROVE SdInv'
  <2> pc = "m_cmd9"
    BY <1>4 DEF Step
  <2>1. ASSUME Executed("CMD9"), Go([slot EXCEPT !.clock = 1,
               !.version = IF card.kind \in Mmc4 THEN 4 ELSE 3], "m_cmd7")  PROVE SdInv'
    <3>1. card.st = "stby" /\ card.rca = slot.rca /\ card' = card
      BY <2>1 DEF Executed, Answers, Executes, After
    <3>2. Advances("m_cmd7") /\ slot' = ([slot EXCEPT !.clock = 1,
              !.version = IF card.kind \in Mmc4 THEN 4 ELSE 3]) /\ Sound(card')
              /\ card'.kind = card.kind
      BY <2>1, GoAdvances DEF Commands
    <3>3. Sound(card') /\ card'.kind = card.kind
      BY <3>2
    <3>4. CASE card.kind \in Mmc4
      <4>1. Advances("m_cmd7")
        BY <3>1, <3>2, <3>4
      <4>2. slot' = [slot EXCEPT !.clock = 1, !.version = 4] /\ 1 \in Nat /\ 4 \in 0..4
        BY <3>1, <3>2, <3>4 DEF SdInv, SdTyped
      <4>3. slot' \in SlotType
        <5>1. slot \in SlotType
          BY DEF SdInv, SdTyped
        <5> QED  BY <4>2, <5>1, SlotWith, Zenon
      <4>4. /\ slot' \in SlotType /\ slot'.state = slot.state /\ slot'.type = slot.type
               /\ slot'.version = 4 /\ slot'.rca = slot.rca
            /\ slot'.clock = 1 /\ slot'.width = slot.width /\ slot'.hs = slot.hs
        BY <3>1, <3>2, <3>4, <4>3 DEF SdInv, SdTyped, Flags
      <4>5. SdTyped'
        BY <4>1, <4>4, AdvancesTyped DEF SdInv
      <4>6. SlotInv' /\ CardInv' /\ TypeInv' /\ ReadyInv'
        BY <3>1, <3>3, <3>4, <4>1, <4>4, <4>5 DEF SdInv, SdTyped, Advances
      <4>7. StageInv' /\ VersionInv'
        BY <3>1, <3>3, <3>4, <4>1, <4>4, <4>5 DEF SdInv, SdTyped, Advances
      <4>8. BusInv'
        BY <3>1, <3>3, <3>4, <4>1, <4>4, <4>5 DEF SdInv, SdTyped, Advances
      <4>9. ClockInv'
        BY <3>1, <3>3, <3>4, <4>1, <4>4, <4>5 DEF SdInv, SdTyped, Advances
      <4> QED  BY <4>5, <4>6, <4>7, <4>8, <4>9 DEF SdInv
    <3>5. CASE card.kind \notin Mmc4
      <4>1. Advances("m_cmd7")
        BY <3>1, <3>2, <3>5
      <4>2. slot' = [slot EXCEPT !.clock = 1, !.version = 3] /\ 1 \in Nat /\ 3 \in 0..4
        BY <3>1, <3>2, <3>5 DEF SdInv, SdTyped
      <4>3. slot' \in SlotType
        <5>1. slot \in SlotType
          BY DEF SdInv, SdTyped
        <5> QED  BY <4>2, <5>1, SlotWith, Zenon
      <4>4. /\ slot' \in SlotType /\ slot'.state = slot.state /\ slot'.type = slot.type
               /\ slot'.version = 3 /\ slot'.rca = slot.rca
            /\ slot'.clock = 1 /\ slot'.width = slot.width /\ slot'.hs = slot.hs
        BY <3>1, <3>2, <3>5, <4>3 DEF SdInv, SdTyped, Flags
      <4>5. SdTyped'
        BY <4>1, <4>4, AdvancesTyped DEF SdInv
      <4>6. SlotInv' /\ CardInv' /\ TypeInv' /\ ReadyInv'
        BY <3>1, <3>3, <3>5, <4>1, <4>4, <4>5 DEF SdInv, SdTyped, Advances
      <4>7. StageInv' /\ VersionInv'
        BY <3>1, <3>3, <3>5, <4>1, <4>4, <4>5 DEF SdInv, SdTyped, Advances
      <4>8. BusInv'
        BY <3>1, <3>3, <3>5, <4>1, <4>4, <4>5 DEF SdInv, SdTyped, Advances
      <4>9. ClockInv'
        BY <3>1, <3>3, <3>5, <4>1, <4>4, <4>5 DEF SdInv, SdTyped, Advances
      <4> QED  BY <4>5, <4>6, <4>7, <4>8, <4>9 DEF SdInv
    <3> QED  BY <3>4, <3>5
  <2>2. ASSUME Missed("CMD9"), InitFails  PROVE SdInv'
    BY <2>2, Failing DEF Commands
  <2> QED
    BY <1>4, <2>1, <2>2 DEF Step, Exchange, Executed, Missed
<1>5. ASSUME Step("m_cmd7", "CMD7", slot, IF slot.version >= 4 THEN "m_ext_csd"
             ELSE "conf_mmc")  PROVE SdInv'
  <2> pc = "m_cmd7"
    BY <1>5 DEF Step
  <2>1. ASSUME Executed("CMD7"), Go(slot, IF slot.version >= 4 THEN "m_ext_csd"
               ELSE "conf_mmc")  PROVE SdInv'
    <3>1. card.st = "stby" /\ card.rca = slot.rca /\ card' = [card EXCEPT !.st = "tran"]
      BY <2>1 DEF Executed, Answers, Executes, After
    <3>2. Advances(IF slot.version >= 4 THEN "m_ext_csd" ELSE "conf_mmc") /\ slot' = (slot)
              /\ Sound(card') /\ card'.kind = card.kind
      BY <2>1, GoAdvances DEF Commands
    <3>3. Sound(card') /\ card'.kind = card.kind
      BY <3>2
    <3>4. CASE slot.version >= 4
      <4>1. Advances("m_ext_csd")
        BY <3>1, <3>2, <3>4
      <4>2. /\ slot' \in SlotType /\ slot'.state = slot.state /\ slot'.type = slot.type
               /\ slot'.version = slot.version /\ slot'.rca = slot.rca
            /\ slot'.clock = slot.clock /\ slot'.width = slot.width /\ slot'.hs = slot.hs
        BY <3>1, <3>2, <3>4 DEF SdInv, SdTyped, Flags
      <4>3. SdTyped'
        BY <4>1, <4>2, AdvancesTyped DEF SdInv
      <4>4. SlotInv' /\ CardInv' /\ TypeInv' /\ ReadyInv'
        BY <3>1, <3>3, <3>4, <4>1, <4>2, <4>3 DEF SdInv, SdTyped, Advances, Memory, SdMem, Mmc,
           Mmc4, HighSpeed, HighCap, Io
      <4>5. StageInv' /\ VersionInv'
        BY <3>1, <3>3, <3>4, <4>1, <4>2, <4>3 DEF SdInv, SdTyped, Advances, Memory, SdMem, Mmc,
           Mmc4, HighSpeed, HighCap, Io
      <4>6. BusInv'
        BY <3>1, <3>3, <3>4, <4>1, <4>2, <4>3 DEF SdInv, SdTyped, Advances, Memory, SdMem, Mmc,
           Mmc4, HighSpeed, HighCap, Io
      <4>7. ClockInv'
        BY <3>1, <3>3, <3>4, <4>1, <4>2, <4>3 DEF SdInv, SdTyped, Advances, Memory, SdMem, Mmc,
           Mmc4, HighSpeed, HighCap, Io
      <4> QED  BY <4>3, <4>4, <4>5, <4>6, <4>7 DEF SdInv
    <3>5. CASE ~(slot.version >= 4)
      <4>1. Advances("conf_mmc")
        BY <3>1, <3>2, <3>5
      <4>2. /\ slot' \in SlotType /\ slot'.state = slot.state /\ slot'.type = slot.type
               /\ slot'.version = slot.version /\ slot'.rca = slot.rca
            /\ slot'.clock = slot.clock /\ slot'.width = slot.width /\ slot'.hs = slot.hs
        BY <3>1, <3>2, <3>5 DEF SdInv, SdTyped, Flags
      <4>3. SdTyped'
        BY <4>1, <4>2, AdvancesTyped DEF SdInv
      <4>4. SlotInv' /\ CardInv' /\ TypeInv' /\ ReadyInv'
        BY <3>1, <3>3, <3>5, <4>1, <4>2, <4>3 DEF SdInv, SdTyped, Advances, Memory, SdMem, Mmc,
           Mmc4, HighSpeed, HighCap, Io
      <4>5. StageInv' /\ VersionInv'
        BY <3>1, <3>3, <3>5, <4>1, <4>2, <4>3 DEF SdInv, SdTyped, Advances, Memory, SdMem, Mmc,
           Mmc4, HighSpeed, HighCap, Io
      <4>6. BusInv'
        BY <3>1, <3>3, <3>5, <4>1, <4>2, <4>3 DEF SdInv, SdTyped, Advances, Memory, SdMem, Mmc,
           Mmc4, HighSpeed, HighCap, Io
      <4>7. ClockInv'
        BY <3>1, <3>3, <3>5, <4>1, <4>2, <4>3 DEF SdInv, SdTyped, Advances, Memory, SdMem, Mmc,
           Mmc4, HighSpeed, HighCap, Io
      <4> QED  BY <4>3, <4>4, <4>5, <4>6, <4>7 DEF SdInv
    <3> QED  BY <3>4, <3>5
  <2>2. ASSUME Missed("CMD7"), InitFails  PROVE SdInv'
    BY <2>2, Failing DEF Commands
  <2> QED
    BY <1>5, <2>1, <2>2 DEF Step, Exchange, Executed, Missed
<1>6. ASSUME NEW next \in {"m_width", "m_last_width"},
             next = "m_width" => card.kind \in HighSpeed,
             Step("m_ext_csd", "EXT_CSD", slot, next)
      PROVE  SdInv'
  <2> pc = "m_ext_csd"
    BY <1>6 DEF Step
  <2>1. ASSUME Executed("EXT_CSD"), Go(slot, next)  PROVE SdInv'
    <3>1. card.kind \in Mmc4 /\ card.st = "tran" /\ card' = card
      BY <2>1 DEF Executed, Answers, Executes, After
    <3>2. Advances(next) /\ slot' = (slot) /\ Sound(card') /\ card'.kind = card.kind
      BY <2>1, GoAdvances DEF Commands
    <3>3. Sound(card') /\ card'.kind = card.kind
      BY <3>2
    <3>4. Advances(next)
      BY <3>1, <3>2
    <3>5. /\ slot' \in SlotType /\ slot'.state = slot.state /\ slot'.type = slot.type
             /\ slot'.version = slot.version /\ slot'.rca = slot.rca
          /\ slot'.clock = slot.clock /\ slot'.width = slot.width /\ slot'.hs = slot.hs
      BY <3>1, <3>2 DEF SdInv, SdTyped, Flags
    <3>6. SdTyped'
      BY <3>4, <3>5, AdvancesTyped DEF SdInv
    <3>7. SlotInv' /\ CardInv' /\ TypeInv' /\ ReadyInv'
      BY <1>6, <3>1, <3>3, <3>4, <3>5, <3>6 DEF SdInv, SdTyped, Advances, Memory, SdMem, Mmc, Mmc4,
         HighSpeed, HighCap, Io
    <3>8. StageInv' /\ VersionInv'
      BY <1>6, <3>1, <3>3, <3>4, <3>5, <3>6 DEF SdInv, SdTyped, Advances, Memory, SdMem, Mmc, Mmc4,
         HighSpeed, HighCap, Io
    <3>9. BusInv'
      BY <1>6, <3>1, <3>3, <3>4, <3>5, <3>6 DEF SdInv, SdTyped, Advances, Memory, SdMem, Mmc, Mmc4,
         HighSpeed, HighCap, Io
    <3>10. ClockInv'
      BY <1>6, <3>1, <3>3, <3>4, <3>5, <3>6 DEF SdInv, SdTyped, Advances, Memory, SdMem, Mmc, Mmc4,
         HighSpeed, HighCap, Io
    <3> QED  BY <3>6, <3>7, <3>8, <3>9, <3>10 DEF SdInv
  <2>2. ASSUME Missed("EXT_CSD"), InitFails  PROVE SdInv'
    BY <2>2, Failing DEF Commands
  <2> QED
    BY <1>6, <2>1, <2>2 DEF Step, Exchange, Executed, Missed
<1>7. ASSUME NEW at, NEW next,
             <<at, next>> \in {<<"m_width", "conf_m_width">>, <<"m_last_width", "conf_mmc">>},
             Step(at, "CMD6_WIDTH", Width4, next)
      PROVE  SdInv'
  <2> /\ pc = at /\ at \in {"m_width", "m_last_width"}
      /\ next \in {"conf_m_width", "conf_mmc"}
    BY <1>7 DEF Step
  <2>1. ASSUME Executed("CMD6_WIDTH"), Go(Width4, next)  PROVE SdInv'
    <3>1. card.kind \in Mmc4 /\ card.st = "tran"
              /\ card' = [card EXCEPT !.mem = [card.mem EXCEPT !.width = 4]]
      BY <2>1 DEF Executed, Answers, Executes, After
    <3>2. Advances(next) /\ slot' = (Width4) /\ Sound(card') /\ card'.kind = card.kind
      BY <2>1, GoAdvances DEF Commands
    <3>3. Sound(card') /\ card'.kind = card.kind
      BY <3>2
    <3>4. Advances(next)
      BY <3>1, <3>2
    <3>5. /\ slot' \in SlotType /\ slot'.state = slot.state /\ slot'.type = slot.type
             /\ slot'.version = slot.version /\ slot'.rca = slot.rca
          /\ slot'.clock = slot.clock /\ slot'.width = 4 /\ slot'.hs = slot.hs
      BY <3>1, <3>2 DEF SdInv, SdTyped, Flags, Width4
    <3>6. SdTyped'
      BY <3>4, <3>5, AdvancesTyped DEF SdInv
    <3>7. SlotInv' /\ CardInv' /\ TypeInv' /\ ReadyInv'
      BY <1>7, <3>1, <3>3, <3>4, <3>5, <3>6 DEF SdInv, SdTyped, Advances, Memory, SdMem, Mmc, Mmc4,
         HighSpeed, HighCap, Io
    <3>8. StageInv' /\ VersionInv'
      BY <1>7, <3>1, <3>3, <3>4, <3>5, <3>6 DEF SdInv, SdTyped, Advances, Memory, SdMem, Mmc, Mmc4,
         HighSpeed, HighCap, Io
    <3>9. BusInv'
      BY <1>7, <3>1, <3>3, <3>4, <3>5, <3>6 DEF SdInv, SdTyped, Advances, Memory, SdMem, Mmc, Mmc4,
         HighSpeed, HighCap, Io
    <3>10. ClockInv'
      BY <1>7, <3>1, <3>3, <3>4, <3>5, <3>6 DEF SdInv, SdTyped, Advances, Memory, SdMem, Mmc, Mmc4,
         HighSpeed, HighCap, Io
    <3> QED  BY <3>6, <3>7, <3>8, <3>9, <3>10 DEF SdInv
  <2>2. ASSUME Missed("CMD6_WIDTH"), InitFails  PROVE SdInv'
    BY <2>2, Failing DEF Commands
  <2> QED
    BY <1>7, <2>1, <2>2 DEF Step, Exchange, Executed, Missed
<1>8. ASSUME Step("m_hs", "CMD6_HS", [slot EXCEPT !.hs = 1, !.clock = 2], "conf_mmc")  PROVE SdInv'
  <2> pc = "m_hs"
    BY <1>8 DEF Step
  <2>1. ASSUME Executed("CMD6_HS"), Go([slot EXCEPT !.hs = 1, !.clock = 2], "conf_mmc")
               PROVE SdInv'
    <3>1. card.kind = "MMC4" /\ card.st = "tran"
      BY <2>1 DEF Executed, Answers, Executes, After, SdInv
    <3>2. Advances("conf_mmc") /\ slot' = ([slot EXCEPT !.hs = 1, !.clock = 2])
              /\ Sound(card') /\ card'.kind = card.kind
      BY <2>1, GoAdvances DEF Commands
    <3>3. Sound(card') /\ card'.kind = card.kind
      BY <3>2
    <3>4. CASE card.kind \in HighSpeed
      <4>1. Advances("conf_mmc") /\ card' = [card EXCEPT !.mem = [card.mem EXCEPT !.hs = 1]]
        BY <2>1, <3>1, <3>2, <3>4 DEF Executed, After, isSd, isSdio
      <4>2. slot' = [slot EXCEPT !.hs = 1, !.clock = 2] /\ 2 \in Nat
        BY <2>1, <3>1, <3>2, <3>4 DEF SdInv, SdTyped
      <4>3. slot' \in SlotType
        <5>1. slot \in SlotType
          BY DEF SdInv, SdTyped
        <5> QED  BY <4>2, <5>1 DEF SlotType
      <4>4. /\ slot' \in SlotType /\ slot'.state = slot.state /\ slot'.type = slot.type
               /\ slot'.version = slot.version /\ slot'.rca = slot.rca
            /\ slot'.clock = 2 /\ slot'.width = slot.width /\ slot'.hs = 1
        BY <2>1, <3>1, <3>2, <3>4, <4>3 DEF SdInv, SdTyped, Flags
      <4>5. SdTyped'
        BY <4>1, <4>4, AdvancesTyped DEF SdInv
      <4>6. SlotInv' /\ CardInv' /\ TypeInv' /\ ReadyInv'
        BY <3>1, <3>3, <3>4, <4>1, <4>4, <4>5 DEF SdInv, SdTyped, Advances, Memory, SdMem, Mmc,
           Mmc4, HighSpeed, HighCap, Io
      <4>7. StageInv' /\ VersionInv'
        BY <3>1, <3>3, <3>4, <4>1, <4>4, <4>5 DEF SdInv, SdTyped, Advances, Memory, SdMem, Mmc,
           Mmc4, HighSpeed, HighCap, Io
      <4>8. BusInv'
        BY <3>1, <3>3, <3>4, <4>1, <4>4, <4>5 DEF SdInv, SdTyped, Advances, Memory, SdMem, Mmc,
           Mmc4, HighSpeed, HighCap, Io
      <4>9. ClockInv'
        BY <3>1, <3>3, <3>4, <4>1, <4>4, <4>5 DEF SdInv, SdTyped, Advances, Memory, SdMem, Mmc,
           Mmc4, HighSpeed, HighCap, Io
      <4> QED  BY <4>5, <4>6, <4>7, <4>8, <4>9 DEF SdInv
    <3> QED  BY <3>1, <3>4 DEF HighSpeed
  <2>2. ASSUME Missed("CMD6_HS"), InitFails  PROVE SdInv'
    BY <2>2, Failing DEF Commands
  <2> QED
    BY <1>8, <2>1, <2>2 DEF Step, Exchange, Executed, Missed
<1>9. CASE mmc_cmd8
  BY <1>6, <1>9 DEF mmc_cmd8
<1>10. CASE mmc_cmd6_set_bus_width
  BY <1>7, <1>10 DEF mmc_cmd6_set_bus_width
<1> QED
  BY <1>1, <1>2, <1>3, <1>4, <1>5, <1>8, <1>9, <1>10
  DEF mmc_mci_op_cond, mmc_decode_csd, mmc_cmd6_set_high_speed

\* An exchange early in the installation that goes on whatever became of it.
LEMMA EarlyStep ==
  ASSUME SdInv, pc \in Early, NEW cmd \in Commands, Missed(cmd) \/ Executed(cmd), pc' \in Early,
         UNCHANGED <<drv, ret, retry, remaining, total, dir>>, v2' \in {TRUE, FALSE},
         slot' \in SlotType, slot'.state = slot.state, slot'.clock = slot.clock,
         slot'.width = slot.width, slot'.hs = slot.hs, TypeInv',
         ~swapped /\ isSdio' => card.kind \in Io
  PROVE  SdInv'
<1>1. Sound(card') /\ card'.kind = card.kind /\ faults' \in 0..MaxFaults
      /\ swaps' \in 0..MaxSwaps /\ swapped' = swapped
  BY MissedCard, ExecutedCard DEF SdInv, CardInv
<1>2. slot.state = "INIT" /\ slot'.state = "INIT" /\ SlowBus(slot) /\ SlowBus(drv)
  BY DEF SdInv, SlotInv
<1>3. SlowBus(slot') /\ SlowBus(drv')
  BY <1>2 DEF SlowBus
<1>4. SdTyped'
  <2>1. drv' \in [clock: Nat, width: {1, 4}, hs: {0, 1}]
    BY DEF SdInv, SdTyped
  <2>2. swapped' \in {TRUE, FALSE} /\ retry' \in 1..10
    BY <1>1 DEF SdInv, SdTyped
  <2>3. remaining' \in Nat /\ total' \in Nat /\ dir' \in {"read", "write"}
    BY DEF SdInv, SdTyped
  <2>4. ret' \in {"none", "OK", "UNKNOWN", "INIT_ONGOING", "UNUSABLE", "COMM"}
    BY DEF SdInv, SdTyped
  <2> QED  BY <1>1, <2>1, <2>2, <2>3, <2>4 DEF SdTyped, SlotType
<1>5. pc' \notin Late \cup Calls /\ pc' # "idle"
  BY DEF Early, Late, LateSd, LateMmc, Calls
<1>6. SlotInv'
  BY <1>2, <1>3, <1>5 DEF SlotInv, SlowBus
<1>7. CardInv'
  BY <1>1 DEF CardInv
<1>8. StageInv' /\ VersionInv'
  BY DEF StageInv, VersionInv, Early, Late, LateSd, LateMmc
<1>9. BusInv'
  BY <1>2 DEF BusInv, Early, Late, LateSd, LateMmc
<1>10. ReadyInv'
  BY <1>2 DEF ReadyInv
<1>11. ClockInv'
  <2>1. drv'.clock = 0 /\ card'.mem.hs \in {0, 1}
    BY <1>1, <1>3 DEF SlowBus, Sound, Cards, Bus
  <2> QED
    BY <1>2, <2>1 DEF ClockInv, Early, Late, LateSd, LateMmc
<1> QED
  BY <1>4, <1>6, <1>7, <1>8, <1>9, <1>10, <1>11 DEF SdInv

\* The card is reset, whether it was heard or not.
LEMMA ResetKeeps ==
  ASSUME SdInv,
         \/ ResetCards
         \/ pc = "m_cmd0" /\ Exchange("CMD0", Go(slot, "m_cmd1"), Go(slot, "m_cmd1"))
  PROVE  SdInv'
<1>1. ASSUME NEW cmd \in Commands, NEW next \in Early, Missed(cmd) \/ Executed(cmd),
             Go(slot, next),
             \/ pc = "cmd52" /\ next = "cmd0"
             \/ pc = "cmd0" /\ next = "cmd8"
             \/ pc = "m_cmd0" /\ next = "m_cmd1"
      PROVE  SdInv'
  <2>1. slot' = slot /\ v2' = v2 /\ slot' \in SlotType /\ v2' \in {TRUE, FALSE}
    BY <1>1 DEF Go, SdInv, SdTyped, SlotType
  <2>2. TypeInv'
    BY <1>1, <2>1 DEF SdInv, TypeInv, Go, isSd, isSdio, LateSd, LateMmc
  <2>3. ~swapped /\ isSdio' => card.kind \in Io
    BY <2>1 DEF SdInv, CardInv, isSdio
  <2> QED
    BY <1>1, <2>1, <2>2, <2>3, EarlyStep DEF Go, counts, Early
<1>2. CASE pc = "cmd52" /\ Exchange("IO_RESET", Go(slot, "cmd0"), Go(slot, "cmd0"))
  <2>1. (Missed("IO_RESET") \/ Executed("IO_RESET")) /\ Go(slot, "cmd0")
    BY <1>2 DEF Exchange, Missed, Executed
  <2> QED  BY <1>1, <1>2, <2>1 DEF Early, Commands
<1>3. CASE pc = "cmd0" /\ Exchange("CMD0", Go(slot, "cmd8"), Go(slot, "cmd8"))
  <2>1. (Missed("CMD0") \/ Executed("CMD0")) /\ Go(slot, "cmd8")
    BY <1>3 DEF Exchange, Missed, Executed
  <2> QED  BY <1>1, <1>3, <2>1 DEF Early, Commands
<1>4. CASE pc = "m_cmd0" /\ Exchange("CMD0", Go(slot, "m_cmd1"), Go(slot, "m_cmd1"))
  <2>1. (Missed("CMD0") \/ Executed("CMD0")) /\ Go(slot, "m_cmd1")
    BY <1>4 DEF Exchange, Missed, Executed
  <2> QED  BY <1>1, <1>4, <2>1 DEF Early, Commands
<1> QED
  BY <1>2, <1>3, <1>4 DEF ResetCards

LEMMA Cmd8Keeps == ASSUME SdInv, sd_cmd8 PROVE SdInv'
<1> USE DEF Commands, Early, Late, LateSd, LateMmc
<1>1. ASSUME NEW b \in {TRUE, FALSE}, Missed("CMD8") \/ Executed("CMD8"), pc = "cmd8",
             v2' = b, pc' = "cmd5", UNCHANGED <<slot, drv, ret, retry, counts>>
      PROVE  SdInv'
  <2>1. slot' = slot /\ slot' \in SlotType
    BY <1>1 DEF SdInv, SdTyped, SlotType
  <2>2. TypeInv'
    BY <1>1, <2>1 DEF SdInv, TypeInv, isSd, isSdio
  <2>3. ~swapped /\ isSdio' => card.kind \in Io
    BY <2>1 DEF SdInv, CardInv, isSdio
  <2>4. UNCHANGED <<drv, ret, retry, remaining, total, dir>>
    BY <1>1 DEF counts
  <2>5. v2' \in {TRUE, FALSE}
    BY <1>1
  <2> QED
    BY <1>1, <2>1, <2>2, <2>3, <2>4, <2>5, EarlyStep
<1>2. ASSUME Missed("CMD8"), InitFails, pc = "cmd8"  PROVE SdInv'
  BY <1>2, Failing
<1> QED
  BY <1>1, <1>2 DEF sd_cmd8, Exchange, Missed, Executed

\* The slot is given another type, early in the installation.
LEMMA TypeStep ==
  ASSUME SdInv, NEW cmd \in Commands, Missed(cmd) \/ Executed(cmd), NEW t \in SUBSET Flags,
         NEW next \in {"acmd41", "m_cmd0"}, pc \in {"cmd5", "acmd41"},
         Go([slot EXCEPT !.type = t], next),
         next = "acmd41" => t \in {{"SD"}, {"SD", "SDIO"}}, next = "m_cmd0" => t = {"MMC"},
         "SDIO" \in t => card.kind \in Io
  PROVE  SdInv'
<1> USE DEF Go
<1>1. slot' \in SlotType /\ slot'.type = t /\ slot'.state = slot.state /\ slot'.clock = slot.clock
      /\ slot'.width = slot.width /\ slot'.hs = slot.hs
  BY DEF SdInv, SdTyped, SlotType
<1>2. v2' \in {TRUE, FALSE}
  BY DEF SdInv, SdTyped
<1>3. TypeInv'
  BY <1>1 DEF TypeInv, isSd, isSdio, LateSd, LateMmc
<1>4. isSdio' => card.kind \in Io
  BY <1>1 DEF isSdio
<1> QED
  BY <1>1, <1>2, <1>3, <1>4, EarlyStep DEF counts, Early

LEMMA OpCondKeeps == ASSUME SdInv, sdio_op_cond \/ sd_mci_op_cond PROVE SdInv'
<1> USE DEF SlotInv, CardInv, TypeInv, StageInv, VersionInv, BusInv, ReadyInv, ClockInv,
     Early, Late, LateSd, LateMmc, Calls, Agree, Present, isSdio, isSd, Sound, Cards, Bus,
     SlowBus, SameBus, SpeedTold, BusOf, MySide, SlotType
<1>1. ASSUME sdio_op_cond  PROVE SdInv'
  <2> pc = "cmd5"
    BY <1>1 DEF sdio_op_cond
  <2>1. ASSUME Executed("CMD5"), Go([slot EXCEPT !.type = {"SDIO"}], "cmd3"),
               card.kind # "COMBO"  PROVE SdInv'
    <3>1. card.kind = "SDIO" /\ card' = Card(card.kind, "ready", TRUE, card.rca, card.mem, card.fn)
      BY <2>1 DEF Executed, Answers, Executes, After, Io
    <3>2. Advances("cmd3") /\ slot' = ([slot EXCEPT !.type = {"SDIO"}]) /\ Sound(card')
              /\ card'.kind = card.kind
      BY <2>1, GoAdvances DEF Commands
    <3>3. Sound(card') /\ card'.kind = card.kind
      BY <3>2
    <3>4. Advances("cmd3")
      BY <3>1, <3>2
    <3>5. /\ slot' \in SlotType /\ slot'.state = slot.state /\ slot'.type = {"SDIO"}
             /\ slot'.version = slot.version /\ slot'.rca = slot.rca
          /\ slot'.clock = slot.clock /\ slot'.width = slot.width /\ slot'.hs = slot.hs
      BY <3>1, <3>2 DEF SdInv, SdTyped, Flags
    <3>6. SdTyped'
      BY <3>4, <3>5, AdvancesTyped DEF SdInv
    <3>7. SlotInv' /\ CardInv' /\ TypeInv' /\ ReadyInv'
      BY <3>1, <3>3, <3>4, <3>5, <3>6 DEF SdInv, SdTyped, Advances, Card, Memory, SdMem, Mmc, Mmc4,
         HighSpeed, HighCap, Io
    <3>8. StageInv' /\ VersionInv'
      BY <3>1, <3>3, <3>4, <3>5, <3>6 DEF SdInv, SdTyped, Advances, Card, Memory, SdMem, Mmc, Mmc4,
         HighSpeed, HighCap, Io
    <3>9. BusInv'
      BY <3>1, <3>3, <3>4, <3>5, <3>6 DEF SdInv, SdTyped, Advances, Card, Memory, SdMem, Mmc, Mmc4,
         HighSpeed, HighCap, Io
    <3>10. ClockInv'
      BY <3>1, <3>3, <3>4, <3>5, <3>6 DEF SdInv, SdTyped, Advances, Card, Memory, SdMem, Mmc, Mmc4,
         HighSpeed, HighCap, Io
    <3> QED  BY <3>6, <3>7, <3>8, <3>9, <3>10 DEF SdInv
  <2>2. ASSUME Executed("CMD5"), card.kind = "COMBO",
               Go([slot EXCEPT !.type = {"SD", "SDIO"}], "acmd41")
        PROVE  SdInv'
    BY <2>2, TypeStep DEF Commands, Flags, Io
  <2>3. ASSUME Missed("CMD5"), Go(slot, "acmd41")  PROVE SdInv'
    <3>1. slot.type = {"SD"} /\ slot = [slot EXCEPT !.type = {"SD"}]
      BY DEF SdInv, SdTyped
    <3>2. Go([slot EXCEPT !.type = {"SD"}], "acmd41")
      BY <2>3, <3>1
    <3> QED  BY <2>3, <3>2, TypeStep DEF Commands, Flags
  <2>4. ASSUME Missed("CMD5"), InitFails  PROVE SdInv'
    BY <2>4, Failing DEF Commands
  <2>5. CASE card.kind = "COMBO"
    BY <1>1, <2>2, <2>3, <2>4, <2>5 DEF sdio_op_cond, Exchange, Executed, Missed
  <2>6. CASE card.kind # "COMBO"
    BY <1>1, <2>1, <2>3, <2>4, <2>6 DEF sdio_op_cond, Exchange, Executed, Missed
  <2> QED  BY <2>5, <2>6
<1>2. ASSUME sd_mci_op_cond  PROVE SdInv'
  <2> pc = "acmd41"
    BY <1>2 DEF sd_mci_op_cond
  <2>1. ASSUME Executed("ACMD41"), Go(WithHc, "cmd2")  PROVE SdInv'
    <3>1. card.kind \in SdMem /\ card.st = "idle" /\ card' = [card EXCEPT !.st = "ready"]
      BY <2>1 DEF Executed, Answers, Executes, After
    <3>2. Advances("cmd2") /\ slot' = (WithHc) /\ Sound(card') /\ card'.kind = card.kind
      BY <2>1, GoAdvances DEF Commands
    <3>3. Sound(card') /\ card'.kind = card.kind
      BY <3>2
    <3>4. CASE card.kind \in HighCap
      <4>1. Advances("cmd2")
        BY <3>1, <3>2, <3>4
      <4>2. /\ slot' \in SlotType /\ slot'.state = slot.state /\ slot'.type = slot.type
               \cup {"HC"} /\ slot'.version = slot.version /\ slot'.rca = slot.rca
            /\ slot'.clock = slot.clock /\ slot'.width = slot.width /\ slot'.hs = slot.hs
        BY <3>1, <3>2, <3>4 DEF SdInv, SdTyped, Flags, WithHc
      <4>3. SdTyped'
        BY <4>1, <4>2, AdvancesTyped DEF SdInv
      <4>4. SlotInv' /\ CardInv' /\ TypeInv' /\ ReadyInv'
        BY <3>1, <3>3, <3>4, <4>1, <4>2, <4>3 DEF SdInv, SdTyped, Advances, Memory, SdMem, Mmc,
           Mmc4, HighSpeed, HighCap, Io
      <4>5. StageInv' /\ VersionInv'
        BY <3>1, <3>3, <3>4, <4>1, <4>2, <4>3 DEF SdInv, SdTyped, Advances, Memory, SdMem, Mmc,
           Mmc4, HighSpeed, HighCap, Io
      <4>6. BusInv'
        BY <3>1, <3>3, <3>4, <4>1, <4>2, <4>3 DEF SdInv, SdTyped, Advances, Memory, SdMem, Mmc,
           Mmc4, HighSpeed, HighCap, Io
      <4>7. ClockInv'
        BY <3>1, <3>3, <3>4, <4>1, <4>2, <4>3 DEF SdInv, SdTyped, Advances, Memory, SdMem, Mmc,
           Mmc4, HighSpeed, HighCap, Io
      <4> QED  BY <4>3, <4>4, <4>5, <4>6, <4>7 DEF SdInv
    <3>5. CASE card.kind \notin HighCap
      <4>1. Advances("cmd2")
        BY <3>1, <3>2, <3>5
      <4>2. /\ slot' \in SlotType /\ slot'.state = slot.state /\ slot'.type = slot.type
               /\ slot'.version = slot.version /\ slot'.rca = slot.rca
            /\ slot'.clock = slot.clock /\ slot'.width = slot.width /\ slot'.hs = slot.hs
        BY <3>1, <3>2, <3>5 DEF SdInv, SdTyped, Flags, WithHc
      <4>3. SdTyped'
        BY <4>1, <4>2, AdvancesTyped DEF SdInv
      <4>4. SlotInv' /\ CardInv' /\ TypeInv' /\ ReadyInv'
        BY <3>1, <3>3, <3>5, <4>1, <4>2, <4>3 DEF SdInv, SdTyped, Advances, Memory, SdMem, Mmc,
           Mmc4, HighSpeed, HighCap, Io
      <4>5. StageInv' /\ VersionInv'
        BY <3>1, <3>3, <3>5, <4>1, <4>2, <4>3 DEF SdInv, SdTyped, Advances, Memory, SdMem, Mmc,
           Mmc4, HighSpeed, HighCap, Io
      <4>6. BusInv'
        BY <3>1, <3>3, <3>5, <4>1, <4>2, <4>3 DEF SdInv, SdTyped, Advances, Memory, SdMem, Mmc,
           Mmc4, HighSpeed, HighCap, Io
      <4>7. ClockInv'
        BY <3>1, <3>3, <3>5, <4>1, <4>2, <4>3 DEF SdInv, SdTyped, Advances, Memory, SdMem, Mmc,
           Mmc4, HighSpeed, HighCap, Io
      <4> QED  BY <4>3, <4>4, <4>5, <4>6, <4>7 DEF SdInv
    <3> QED  BY <3>4, <3>5
  <2>2. ASSUME Missed("ACMD41"), Go(NowMmc, "m_cmd0")  PROVE SdInv'
    BY <2>2, TypeStep DEF Commands, Flags, NowMmc
  <2> QED
    BY <1>2, <2>1, <2>2 DEF sd_mci_op_cond, Exchange, Executed, Missed
<1> QED  BY <1>1, <1>2

\* The bytes of the CIS that give the clock: those of the card, or, when one is lost,
\* whatever the stack held.
LEMMA CisKeeps == ASSUME SdInv, sdio_get_max_speed PROVE SdInv'
<1> USE DEF SlotInv, CardInv, TypeInv, StageInv, VersionInv, BusInv, ReadyInv, ClockInv,
     Early, Late, LateSd, LateMmc, Calls, Agree, Present, isSdio, isSd, Sound, Cards, Bus,
     SlowBus, SameBus, SpeedTold, BusOf, MySide, SlotType
<1> pc = "cis"
  BY DEF sdio_get_max_speed
<1>1. ASSUME NEW any \in {0, 1, 8}, Missed("CIS") \/ Executed("CIS"),
             Go([slot EXCEPT !.clock = any], "io_width")
      PROVE  SdInv'
  <2>1. After(card, "CIS") = card
    BY DEF After
  <2>2. card' = card
    BY <1>1, <2>1, DisturbedOnly DEF Missed, Executed
  <2>3. faults' \in 0..MaxFaults /\ swaps' \in 0..MaxSwaps /\ swapped' = swapped
    BY <1>1, MissedCard, ExecutedCard DEF SdInv, Commands
  <2>4. Advances("io_width")
    BY <1>1, <2>3 DEF Advances, Go, counts
  <2>5. slot' = [slot EXCEPT !.clock = any] /\ slot \in SlotType
    BY <1>1 DEF Go, SdInv, SdTyped
  <2>6. /\ slot' \in SlotType /\ slot'.state = slot.state /\ slot'.type = slot.type
        /\ slot'.version = slot.version /\ slot'.rca = slot.rca
        /\ slot'.width = slot.width /\ slot'.hs = slot.hs
    BY <1>1, <2>5 DEF SdInv, SdTyped, Flags
  <2>7. SdTyped'
    BY <2>4, <2>6, AdvancesTyped DEF SdInv
  <2>8. SlotInv' /\ CardInv' /\ TypeInv' /\ ReadyInv'
    BY <2>2, <2>4, <2>6, <2>7 DEF SdInv, SdTyped, Advances
  <2>9. StageInv' /\ VersionInv'
    BY <2>2, <2>4, <2>6, <2>7 DEF SdInv, SdTyped, Advances
  <2>10. BusInv'
    BY <2>2, <2>4, <2>6, <2>7 DEF SdInv, SdTyped, Advances
  <2>11. ClockInv'
    BY <2>2, <2>4, <2>6, <2>7 DEF SdInv, SdTyped, Advances
  <2> QED  BY <2>7, <2>8, <2>9, <2>10, <2>11 DEF SdInv
<1>2. ASSUME Missed("CIS"), InitFails  PROVE SdInv'
  BY <1>2, Failing DEF Commands
<1> QED
  BY <1>1, <1>2 DEF sdio_get_max_speed, Exchange, Missed, Executed

\* The driver is given the bus of the slot.
LEMMA ConfigureKeeps ==
  ASSUME SdInv, UNCHANGED <<card, swaps, faults, swapped, slot, ret, v2, remaining, total, dir>>,
         drv' = BusOf(slot), retry' \in 1..10,
         \/ pc = "conf_width"
            /\ pc' = (IF isSdio THEN "io_hs" ELSE IF slot.version > 1 THEN "cmd6" ELSE "conf_hs")
         \/ pc = "conf_hs" /\ pc' = (IF isSd THEN "cmd16" ELSE "done")
         \/ pc = "conf_m_width" /\ pc' = "m_hs"
         \/ pc = "conf_mmc" /\ pc' = "m_cmd16"
  PROVE  SdInv'
<1> USE DEF SlotInv, CardInv, TypeInv, StageInv, VersionInv, BusInv, ReadyInv, ClockInv,
     Early, Late, LateSd, LateMmc, Calls, Agree, Present, isSdio, isSd, Sound, Cards, Bus,
     SlowBus, SameBus, SpeedTold, BusOf, MySide, Kinds, Memory, SdMem, Mmc, Mmc4, Io
<1>1. slot.width \in {1, 4} /\ slot.clock \in Nat /\ slot.hs \in {0, 1}
  BY DEF SdInv, SdTyped
<1>2. drv' \in [clock: Nat, width: {1, 4}, hs: {0, 1}]
  BY <1>1
<1>3. SdTyped'
  <2>1. pc' \in Early \cup Late \cup Calls \cup {"idle"}
    OBVIOUS
  <2>2. swapped' \in {TRUE, FALSE} /\ v2' \in {TRUE, FALSE}
    BY DEF SdInv, SdTyped
  <2>3. remaining' \in Nat /\ total' \in Nat /\ dir' \in {"read", "write"}
        /\ swaps' \in 0..MaxSwaps /\ faults' \in 0..MaxFaults
    BY DEF SdInv, SdTyped
  <2>4. ret' \in {"none", "OK", "UNKNOWN", "INIT_ONGOING", "UNUSABLE", "COMM"}
    BY DEF SdInv, SdTyped
  <2>5. slot' \in [state: {"READY", "INIT", "UNUSABLE", "NO_CARD"}, type: SUBSET Flags,
               version: 0..4, rca: 0..2, clock: Nat, width: {0, 1, 4}, hs: {0, 1}]
    BY DEF SdInv, SdTyped
  <2> QED  BY <1>2, <2>1, <2>2, <2>3, <2>4, <2>5 DEF SdTyped
<1>4. SlotInv' /\ CardInv' /\ TypeInv' /\ ReadyInv'
  BY <1>1 DEF SdInv
<1>5. StageInv' /\ VersionInv'
  BY <1>1 DEF SdInv, SdTyped
<1>6. BusInv'
  BY <1>1 DEF SdInv, SdTyped
<1>7. ClockInv'
  BY <1>1 DEF SdInv, SdTyped
<1> QED  BY <1>3, <1>4, <1>5, <1>6, <1>7 DEF SdInv

\* The installation ends well, with the card's answer to CMD16 or without asking it.
LEMMA InstalledKeeps ==
  ASSUME SdInv, pc \in {"done", "cmd16", "m_cmd16"}, card' = card, faults' \in 0..MaxFaults,
         UNCHANGED <<swaps, swapped>>, Installed
  PROVE  SdInv'
<1> USE DEF SlotInv, CardInv, TypeInv, StageInv, VersionInv, BusInv, ReadyInv, ClockInv,
     Early, Late, LateSd, LateMmc, Calls, Agree, Present, isSdio, isSd, Sound, Cards, Bus,
     SlowBus, SameBus, SpeedTold, BusOf, MySide, Kinds, Memory, SdMem, Mmc, Mmc4, Io
<1>1. slot' = [slot EXCEPT !.state = "READY"] /\ pc' = "idle" /\ ret' = "INIT_ONGOING"
      /\ UNCHANGED <<drv, v2, retry, remaining, total, dir>>
  BY DEF Installed, Return, counts
<1>2. /\ slot' \in SlotType /\ slot'.state = "READY" /\ slot'.type = slot.type
      /\ slot'.version = slot.version /\ slot'.rca = slot.rca /\ slot'.clock = slot.clock
      /\ slot'.width = slot.width /\ slot'.hs = slot.hs
  BY <1>1 DEF SdInv, SdTyped, SlotType, Flags
<1>3. SdTyped'
  BY <1>1, <1>2 DEF SdInv, SdTyped, SlotType
<1>4. SlotInv' /\ CardInv' /\ TypeInv'
  BY <1>1, <1>2 DEF SdInv, SdTyped
<1>5. ReadyInv'
  BY <1>1, <1>2 DEF SdInv, SdTyped
<1>6. StageInv' /\ VersionInv'
  BY <1>1, <1>2 DEF SdInv, SdTyped
<1>7. BusInv'
  BY <1>1, <1>2 DEF SdInv, SdTyped
<1>8. ClockInv'
  BY <1>1, <1>2 DEF SdInv, SdTyped
<1> QED  BY <1>3, <1>4, <1>5, <1>6, <1>7, <1>8 DEF SdInv

\* Only counters, answers and locals change.
LEMMA CountersKeep ==
  ASSUME SdInv, UNCHANGED <<card, swapped, slot, drv, pc>>, pc # "idle", faults' \in 0..MaxFaults,
         swaps' \in 0..MaxSwaps, v2' \in {TRUE, FALSE}, retry' \in 1..10, remaining' \in Nat,
         total' \in Nat, dir' \in {"read", "write"},
         ret' \in {"none", "OK", "UNKNOWN", "INIT_ONGOING", "UNUSABLE", "COMM"}
  PROVE  SdInv'
<1>1. SdTyped'
  <2>1. swapped' \in {TRUE, FALSE} /\ pc' \in Early \cup Late \cup Calls \cup {"idle"}
    BY DEF SdInv, SdTyped
  <2>2. slot' \in [state: {"READY", "INIT", "UNUSABLE", "NO_CARD"}, type: SUBSET Flags,
               version: 0..4, rca: 0..2, clock: Nat, width: {0, 1, 4}, hs: {0, 1}]
    BY DEF SdInv, SdTyped
  <2>3. drv' \in [clock: Nat, width: {1, 4}, hs: {0, 1}]
    BY DEF SdInv, SdTyped
  <2> QED  BY <2>1, <2>2, <2>3 DEF SdTyped
<1>2. SlotInv' /\ CardInv' /\ TypeInv' /\ ReadyInv'
  BY DEF SdInv, SlotInv, CardInv, TypeInv, ReadyInv, Present, Agree, isSd, isSdio,
     MySide, SameBus, SpeedTold
<1>3. StageInv' /\ VersionInv' /\ BusInv' /\ ClockInv'
  BY DEF SdInv, StageInv, VersionInv, BusInv, ClockInv, Present, Agree, isSd, isSdio,
     MySide, SameBus, SpeedTold
<1> QED  BY <1>1, <1>2, <1>3 DEF SdInv

\* CMD16, asked once of an SD card and ten times of an MMC.
LEMMA Cmd16Keeps ==
  ASSUME SdInv, (pc = "cmd16" /\ Exchange("CMD16", Installed, InitFails)) \/ Cmd16Again
  PROVE  SdInv'
<1>1. After(card, "CMD16") = card
  BY DEF After
<1>2. ASSUME Executed("CMD16"), pc \in {"cmd16", "m_cmd16"}, Installed  PROVE SdInv'
  BY <1>1, <1>2, ExecutedCard, InstalledKeeps DEF Executed, SdInv, SdTyped
<1>3. ASSUME Missed("CMD16"), pc \in {"cmd16", "m_cmd16"}, InitFails  PROVE SdInv'
  BY <1>3, Failing DEF Commands, Late, LateSd, LateMmc
<1>4. ASSUME Missed("CMD16"), pc = "m_cmd16", retry # 1, retry' = retry - 1,
             UNCHANGED <<slot, drv, pc, ret, v2, counts>>
      PROVE  SdInv'
  <2>1. card' = card
    BY <1>1, <1>4, DisturbedOnly DEF Missed
  <2>2. faults' \in 0..MaxFaults /\ swaps' \in 0..MaxSwaps /\ swapped' = swapped
    BY <1>4, MissedCard DEF SdInv, CardInv, Commands
  <2>3. retry' \in 1..10
    <3>1. retry \in 1..10
      BY DEF SdInv, SdTyped
    <3>2. retry' = retry - 1 /\ retry # 1
      BY <1>4
    <3> QED  BY <3>1, <3>2
  <2>4. v2' \in {TRUE, FALSE}
    BY <1>4 DEF SdInv, SdTyped
  <2>5. remaining' \in Nat /\ total' \in Nat /\ dir' \in {"read", "write"}
        /\ ret' \in {"none", "OK", "UNKNOWN", "INIT_ONGOING", "UNUSABLE", "COMM"}
    BY <1>4 DEF SdInv, SdTyped, counts
  <2> QED
    BY <1>4, <2>1, <2>2, <2>3, <2>4, <2>5, CountersKeep
<1>5. CASE Cmd16Again
  BY <1>2, <1>3, <1>4, <1>5 DEF Cmd16Again, Exchange, Executed, Missed
<1>6. CASE pc = "cmd16" /\ Exchange("CMD16", Installed, InitFails)
  BY <1>2, <1>3, <1>6 DEF Exchange, Executed, Missed
<1> QED  BY <1>5, <1>6

-----------------------------------------------------------------------------
(* The calls.                                                              *)

\* sd_mmc_select_slot begins a slow bus for an installation, and leaves a card that is
\* installed as it is.
LEMMA Selecting ==
  ASSUME SdInv, pc = "idle", NEW s, s = sd_mmc_select_slot
  PROVE  /\ s \in SlotType /\ s.state \in {"INIT", "READY"}
         /\ s.state = "INIT" => SlowBus(s)
         /\ s.state = "READY" => s = slot /\ BusOf(s) = drv
         /\ s.width \in {1, 4}
<1> slot \in SlotType
  BY DEF SdInv, SdTyped, SlotType
<1>1. CASE slot.state \in {"NO_CARD", "UNUSABLE"}
  <2>1. s = [slot EXCEPT !.state = "INIT", !.clock = 0, !.width = 1, !.hs = 0]
        /\ 0 \in Nat /\ 0 \in {0, 1} /\ 1 \in {0, 1, 4}
    BY <1>1 DEF sd_mmc_select_slot
  <2>2. s \in SlotType
    BY <2>1, SlotWith, Zenon
  <2> QED  BY <2>1, <2>2 DEF SlotType, SlowBus
<1>2. CASE slot.state \in {"INIT", "READY"}
  <2>1. s = slot
    BY <1>2 DEF sd_mmc_select_slot
  <2>2. (slot.state = "INIT" => SlowBus(slot)) /\ (slot.state = "READY" => drv = BusOf(slot))
    BY DEF SdInv, SlotInv, BusInv
  <2> QED  BY <1>2, <2>1, <2>2 DEF SdInv, SlotInv
<1> QED  BY <1>1, <1>2 DEF SlotType

\* A call that does no more than that, or goes on to its first exchange.
LEMMA SelectedKeeps ==
  ASSUME SdInv, pc = "idle", slot' = sd_mmc_select_slot, drv' = BusOf(slot'),
         UNCHANGED <<env, v2, retry, remaining>>, total' \in Nat, dir' \in {"read", "write"},
         ret' \in {"none", "OK", "UNKNOWN", "INIT_ONGOING", "UNUSABLE", "COMM"},
         pc' = "idle" \/ (slot'.state = "READY" /\ pc' \in Calls),
         ret' = "OK" => slot'.state = "READY"
  PROVE  SdInv'
<1>1. /\ slot' \in SlotType /\ slot'.state \in {"INIT", "READY"}
      /\ slot'.state = "INIT" => SlowBus(slot')
      /\ slot'.state = "READY" => slot' = slot /\ drv' = drv
      /\ slot'.width \in {1, 4}
  BY Selecting
<1> UNCHANGED <<card, swaps, faults, swapped>>
  BY DEF env
<1>2. pc' \notin Early \cup Late
  BY DEF Early, Late, LateSd, LateMmc, Calls
<1>3. SdTyped'
  <2>1. drv' \in [clock: Nat, width: {1, 4}, hs: {0, 1}]
    BY <1>1 DEF BusOf, SlotType
  <2>2. swapped' \in {TRUE, FALSE} /\ v2' \in {TRUE, FALSE} /\ retry' \in 1..10
    BY DEF SdInv, SdTyped
  <2>3. remaining' \in Nat /\ swaps' \in 0..MaxSwaps /\ faults' \in 0..MaxFaults
    BY DEF SdInv, SdTyped
  <2> QED  BY <1>1, <2>1, <2>2, <2>3 DEF SdTyped, SlotType
<1>4. SlotInv'
  BY <1>1, <1>2 DEF SlotInv, SlowBus, BusOf, Calls, Early
<1>5. CardInv'
  <2>1. slot.type = slot'.type
    <3> slot \in SlotType
      BY DEF SdInv, SdTyped, SlotType
    <3> QED  BY DEF sd_mmc_select_slot, SlotType
  <2> QED  BY <2>1 DEF SdInv, CardInv, isSdio
<1>6. TypeInv' /\ StageInv' /\ VersionInv'
  BY DEF TypeInv, StageInv, VersionInv, Late, LateSd, LateMmc, Calls
<1>7. BusInv'
  BY DEF BusInv, Late, LateSd, LateMmc, Calls
<1>8. ReadyInv'
  BY <1>1 DEF SdInv, ReadyInv, Agree, Present, SameBus, SpeedTold, MySide, isSdio
<1>9. ClockInv'
  <2>1. CASE slot'.state = "READY"
    <3>1. slot' = slot /\ drv' = drv
      BY <1>1, <2>1
    <3>2. pc' \notin Late /\ pc' \notin {"cmd6", "conf_hs", "m_hs", "conf_mmc"}
      BY <1>2 DEF Late, LateSd, LateMmc, Calls
    <3> QED  BY <2>1, <3>1, <3>2 DEF SdInv, ClockInv, isSdio
  <2>2. CASE slot'.state = "INIT"
    <3>1. drv'.clock = 0 /\ card'.mem.hs \in {0, 1}
      BY <1>1, <2>2 DEF SlowBus, BusOf, SdInv, CardInv, Sound, Cards, Bus
    <3>2. pc' = "idle"
      BY <2>2
    <3> QED  BY <2>2, <3>1, <3>2 DEF ClockInv, Late, LateSd, LateMmc
  <2> QED  BY <1>1, <2>1, <2>2
<1> QED  BY <1>3, <1>4, <1>5, <1>6, <1>7, <1>8, <1>9 DEF SdInv

LEMMA CallOnKeeps ==
  ASSUME SdInv, NEW n \in Nat, NEW next \in Calls, NEW d \in {"read", "write"}, CallOn(next, n, d)
  PROVE  SdInv'
<1>1. pc = "idle" /\ slot' = sd_mmc_select_slot /\ drv' = BusOf(slot')
      /\ UNCHANGED <<env, v2, retry, remaining>>
  BY DEF CallOn, Free
<1>2. CASE slot'.state = "INIT"
  <2>1. ret' = "INIT_ONGOING" /\ UNCHANGED <<pc, total, dir>>
    BY <1>1, <1>2 DEF CallOn
  <2>2. total' \in Nat /\ dir' \in {"read", "write"}
    BY <2>1 DEF SdInv, SdTyped
  <2> QED  BY <1>1, <2>1, <2>2, SelectedKeeps
<1>3. CASE slot'.state # "INIT"
  <2>1. ret' = "none" /\ pc' = next /\ total' = n /\ dir' = d
    BY <1>1, <1>3 DEF CallOn
  <2>2. slot'.state = "READY"
    BY <1>1, <1>3, Selecting
  <2> QED  BY <1>1, <2>1, <2>2, SelectedKeeps
<1> QED  BY <1>2, <1>3

LEMMA GetKeeps == ASSUME SdInv, sd_mmc_get PROVE SdInv'
<1>1. pc = "idle" /\ slot' = sd_mmc_select_slot /\ drv' = BusOf(slot')
      /\ UNCHANGED <<env, pc, v2, retry, counts>>
         /\ ret' = (IF slot'.state = "INIT" THEN "UNKNOWN" ELSE "OK")
  BY DEF sd_mmc_get, Free
<1>2. remaining' = remaining /\ total' \in Nat /\ dir' \in {"read", "write"}
  BY <1>1 DEF SdInv, SdTyped, counts
<1>3. slot'.state \in {"INIT", "READY"}
  BY <1>1, Selecting
<1> QED  BY <1>1, <1>2, <1>3, SelectedKeeps

\* An installation begins, with whatever card is in the slot by now.
LEMMA CheckKeeps == ASSUME SdInv, sd_mmc_check PROVE SdInv'
<1> DEFINE s == sd_mmc_select_slot
<1>1. pc = "idle" /\ drv' = BusOf(s) /\ UNCHANGED <<card, swaps, faults, retry, counts>>
  BY DEF sd_mmc_check, Free
<1>2. remaining' = remaining /\ total' \in Nat /\ dir' \in {"read", "write"}
  BY <1>1 DEF SdInv, SdTyped, counts
<1>3. CASE s.state # "INIT"
  <2>1. slot' = s /\ ret' = "OK" /\ UNCHANGED <<pc, v2, swapped>>
    BY <1>3 DEF sd_mmc_check
  <2>2. slot'.state = "READY"
    BY <1>1, <1>3, <2>1, Selecting
  <2> QED  BY <1>1, <1>2, <2>1, <2>2, SelectedKeeps DEF env
<1>4. CASE s.state = "INIT"
  <2>1. slot' = TrySd(s) /\ pc' = "cmd52" /\ v2' = FALSE /\ swapped' = FALSE /\ ret' = "none"
    BY <1>4 DEF sd_mmc_check
  <2>2. s \in SlotType /\ SlowBus(s)
    BY <1>1, <1>4, Selecting
  <2>3. slot' \in SlotType
    <3>1. slot' = [s EXCEPT !.type = {"SD"}, !.version = 0, !.rca = 0]
      BY <2>1 DEF TrySd
    <3>2. {"SD"} \in SUBSET Flags /\ 0 \in 0..4 /\ 0 \in 0..2
      BY DEF Flags
    <3> QED  BY <2>2, <3>1, <3>2, SlotWith, Zenon
  <2>4. slot'.state = "INIT" /\ slot'.type = {"SD"} /\ SlowBus(slot')
    BY <1>4, <2>1, <2>2 DEF TrySd, SlotType, SlowBus
  <2>5. SlowBus(drv') /\ drv' \in [clock: Nat, width: {1, 4}, hs: {0, 1}]
    BY <1>1, <2>2 DEF SlowBus, BusOf, SlotType
  <2>6. SdTyped'
    <3>1. retry' \in 1..10 /\ remaining' \in Nat /\ swaps' \in 0..MaxSwaps
              /\ faults' \in 0..MaxFaults
      BY <1>1, <1>2 DEF SdInv, SdTyped
    <3>2. pc' \in Early /\ v2' \in {TRUE, FALSE} /\ swapped' \in {TRUE, FALSE}
      BY <2>1 DEF Early
    <3> QED  BY <1>2, <2>1, <2>3, <2>5, <3>1, <3>2 DEF SdTyped, SlotType
  <2>7. SlotInv' /\ TypeInv' /\ StageInv' /\ VersionInv'
    BY <2>1, <2>4, <2>5 DEF SlotInv, TypeInv, StageInv, VersionInv, SlowBus, Calls, Late, LateSd,
       LateMmc
  <2>8. CardInv'
    BY <1>1, <2>4 DEF SdInv, CardInv, isSdio
  <2>9. BusInv' /\ ReadyInv'
    BY <2>1, <2>4 DEF BusInv, ReadyInv, Late, LateSd, LateMmc
  <2>10. ClockInv'
    <3>1. drv'.clock = 0 /\ card'.mem.hs \in {0, 1}
      BY <2>5, <2>8 DEF SlowBus, CardInv, Sound, Cards, Bus
    <3> QED  BY <2>1, <2>4, <3>1 DEF ClockInv, Late, LateSd, LateMmc
  <2> QED  BY <2>6, <2>7, <2>8, <2>9, <2>10 DEF SdInv
<1> QED  BY <1>3, <1>4

\* An exchange of a call to an installed card: the card is soon as ready as before.
AtWork == {"tran", "one", "many"}
BlockCommands == {"IO_DIRECT", "IO_EXTENDED", "READ1", "WRITE1", "MULTI", "CMD13", "DATA", "CMD12"}

LEMMA AfterBlock ==
  ASSUME Sound(card), NEW cmd \in BlockCommands, NEW hcs, NEW rca, Executes(card, cmd, rca, hcs)
  PROVE  card.st \in AtWork /\ \E x \in AtWork : After(card, cmd) = [card EXCEPT !.st = x]
<1> USE DEF AtWork, Sound, Cards
<1> DEFINE To(x) == After(card, cmd) = [card EXCEPT !.st = x]
<1>1. CASE cmd = "READ1"
  <2> To("one") /\ card.st = "tran"  BY <1>1 DEF After, Executes
  <2> QED  OBVIOUS
<1>2. CASE cmd = "WRITE1"
  <2> To("one") /\ card.st = "tran"  BY <1>2 DEF After, Executes
  <2> QED  OBVIOUS
<1>3. CASE cmd = "MULTI"
  <2> To("many") /\ card.st = "tran"  BY <1>3 DEF After, Executes
  <2> QED  OBVIOUS
<1>4. CASE cmd = "DATA"
  <2> card.st \in {"one", "many"}  BY <1>4 DEF Executes
  <2> To(IF card.st = "one" THEN "tran" ELSE card.st)  BY <1>4 DEF After
  <2> QED  OBVIOUS
<1>5. CASE cmd = "CMD12"
  <2> To("tran") /\ card.st = "many"  BY <1>5 DEF After, Executes
  <2> QED  OBVIOUS
<1>6. CASE cmd \in {"IO_DIRECT", "IO_EXTENDED", "CMD13"}
  <2> After(card, cmd) = card /\ card.st \in {"tran", "many"}  BY <1>6 DEF After, Executes
  <2> card = [card EXCEPT !.st = card.st]  OBVIOUS
  <2> QED  OBVIOUS
<1> QED  BY <1>1, <1>2, <1>3, <1>4, <1>5, <1>6 DEF BlockCommands

LEMMA BlockKeeps ==
  ASSUME SdInv, pc \in Calls, NEW cmd \in BlockCommands, Missed(cmd) \/ Executed(cmd),
         pc' \in Calls \cup {"idle"}, UNCHANGED <<slot, drv, v2, retry>>, remaining' \in Nat,
         total' \in Nat, dir' \in {"read", "write"},
         ret' \in {"none", "OK", "UNKNOWN", "INIT_ONGOING", "UNUSABLE", "COMM"}
  PROVE  SdInv'
<1>1. Sound(card') /\ card'.kind = card.kind /\ faults' \in 0..MaxFaults
      /\ swaps' \in 0..MaxSwaps /\ swapped' = swapped
  BY MissedCard, ExecutedCard DEF SdInv, CardInv, BlockCommands, Commands
<1>2. \/ card' = card
      \/ card.st \in AtWork /\ \E x \in AtWork : card' = [card EXCEPT !.st = x]
  <2>1. card' = card \/ (Answers(cmd) /\ card' = After(card, cmd))
    BY DisturbedOnly DEF Missed, Executed
  <2>2. CASE Answers(cmd) /\ card' = After(card, cmd)
    <3>1. Executes(card, cmd, slot.rca, v2) /\ Sound(card)
      BY <2>2 DEF Answers, SdInv, CardInv
    <3>2. card.st \in AtWork /\ \E x \in AtWork : After(card, cmd) = [card EXCEPT !.st = x]
      BY <3>1, AfterBlock
    <3> QED  BY <2>2, <3>2
  <2> QED  BY <2>1, <2>2
<1>3. /\ card'.rca = card.rca /\ card'.mem = card.mem /\ card'.fn = card.fn
      /\ card'.st = card.st \/ (card.st \in AtWork /\ card'.st \in AtWork)
  BY <1>2 DEF SdInv, CardInv, Sound, Cards
<1>4. slot.state = "READY" /\ pc \notin Early \cup Late /\ pc' \notin Early \cup Late
  BY DEF SdInv, SlotInv, Calls, Early, Late, LateSd, LateMmc
<1>5. SdTyped'
  <2>1. drv' \in [clock: Nat, width: {1, 4}, hs: {0, 1}]
    BY DEF SdInv, SdTyped
  <2>2. swapped' \in {TRUE, FALSE} /\ v2' \in {TRUE, FALSE} /\ retry' \in 1..10
    BY <1>1 DEF SdInv, SdTyped
  <2>3. slot' \in [state: {"READY", "INIT", "UNUSABLE", "NO_CARD"}, type: SUBSET Flags,
               version: 0..4, rca: 0..2, clock: Nat, width: {0, 1, 4}, hs: {0, 1}]
    BY DEF SdInv, SdTyped
  <2> QED  BY <1>1, <2>1, <2>2, <2>3 DEF SdTyped
<1>6. SlotInv'
  BY <1>4 DEF SdInv, SlotInv, Early
<1>7. CardInv'
  BY <1>1 DEF SdInv, CardInv, isSdio
<1>8. TypeInv' /\ StageInv' /\ VersionInv'
  BY DEF TypeInv, StageInv, VersionInv, Late, LateSd, LateMmc, Calls
<1>9. BusInv'
  BY <1>4 DEF SdInv, BusInv, Late, LateSd, LateMmc, Calls
<1>10. ReadyInv'
  BY <1>1, <1>3 DEF SdInv, ReadyInv, Present, Agree, SameBus, SpeedTold, MySide, isSdio, AtWork
<1>11. ClockInv'
  BY <1>1, <1>3, <1>4 DEF SdInv, ClockInv, isSdio, Late, LateSd, LateMmc, Calls
<1> QED  BY <1>5, <1>6, <1>7, <1>8, <1>9, <1>10, <1>11 DEF SdInv

-----------------------------------------------------------------------------
(* The card stack keeps its invariant.                                     *)

LEMMA ChoosesSpeed == ASSUME SdInv, SetWidth \/ SetSpeed PROVE SdInv'
<1> USE DEF env, counts
<1>1. CASE sd_mmc_configure_slot("conf_width",
             IF isSdio THEN "io_hs" ELSE IF slot.version > 1 THEN "cmd6" ELSE "conf_hs")
  <2>1. retry' \in 1..10
    BY <1>1 DEF sd_mmc_configure_slot, SdInv, SdTyped
  <2> QED  BY <1>1, <2>1, ConfigureKeeps DEF sd_mmc_configure_slot
<1>2. CASE sd_mmc_configure_slot("conf_hs", IF isSd THEN "cmd16" ELSE "done")
  <2>1. retry' \in 1..10
    BY <1>2 DEF sd_mmc_configure_slot, SdInv, SdTyped
  <2> QED  BY <1>2, <2>1, ConfigureKeeps DEF sd_mmc_configure_slot
<1>3. CASE pc = "done" /\ Installed /\ UNCHANGED env
  <2>1. faults' \in 0..MaxFaults
    BY <1>3 DEF SdInv, SdTyped
  <2> QED  BY <1>3, <2>1, InstalledKeeps
<1> QED  BY <1>1, <1>2, <1>3, BusKeeps, Cmd16Keeps DEF SetWidth, SetSpeed

LEMMA MmcInstalls == ASSUME SdInv, InstallMmc PROVE SdInv'
<1>1. CASE pc = "conf_mmc" /\ drv' = BusOf(slot) /\ pc' = "m_cmd16" /\ retry' = 10
           /\ UNCHANGED <<env, slot, ret, v2, counts>>
  BY <1>1, ConfigureKeeps DEF env, counts
<1>2. CASE sd_mmc_configure_slot("conf_m_width", "m_hs")
  <2>1. retry' \in 1..10
    BY <1>2 DEF sd_mmc_configure_slot, SdInv, SdTyped
  <2> QED  BY <1>2, <2>1, ConfigureKeeps DEF sd_mmc_configure_slot, env, counts
<1> QED
  BY <1>1, <1>2, ResetKeeps, MmcKeeps, Cmd16Keeps DEF InstallMmc

\* The exchanges of the calls.
LEMMA CallsKeep ==
  ASSUME SdInv, InitBlocks \/ SdioAccess \/ StopTransmission
                \/ \E abort \in BOOLEAN : sd_mmc_wait_end_of_blocks(abort)
  PROVE  SdInv'
<1> DEFINE Executing(cmd) == Missed(cmd) \/ Executed(cmd)
           Answer(r) == slot' = slot /\ pc' = "idle" /\ ret' = r
                        /\ UNCHANGED <<drv, v2, retry, remaining, total, dir>>
           Next(p) == slot' = slot /\ pc' = p
                        /\ UNCHANGED <<drv, ret, v2, retry, remaining, total, dir>>
<1> USE DEF Return, Go, counts, BlockCommands, Calls
<1> remaining \in Nat /\ total \in Nat /\ dir \in {"read", "write"}
    /\ ret \in {"none", "OK", "UNKNOWN", "INIT_ONGOING", "UNUSABLE", "COMM"}
  BY DEF SdInv, SdTyped
<1>1. ASSUME pc \in Calls, NEW cmd \in BlockCommands, Executing(cmd),
             Answer("OK") \/ Answer("COMM") \/ Next("read") \/ Next("cmd12_again")
      PROVE  SdInv'
  <2>1. pc' \in Calls \cup {"idle"} /\ UNCHANGED <<slot, drv, v2, retry>>
    BY <1>1
  <2>2. remaining' \in Nat /\ total' \in Nat /\ dir' \in {"read", "write"}
    BY <1>1
  <2>3. ret' \in {"none", "OK", "UNKNOWN", "INIT_ONGOING", "UNUSABLE", "COMM"}
    BY <1>1
  <2> QED  BY <1>1, <2>1, <2>2, <2>3, BlockKeeps
<1>2. ASSUME pc \in Calls, NEW cmd \in BlockCommands, Executing(cmd),
             pc' \in {"idle", "cmd12"}, ret' = "OK", remaining' \in Nat,
             UNCHANGED <<slot, drv, v2, retry, total, dir>>
      PROVE  SdInv'
  <2>1. total' \in Nat /\ dir' \in {"read", "write"}
    BY <1>2
  <2> QED  BY <1>2, <2>1, BlockKeeps
<1> USE DEF Exchange, Missed, Executed
<1>3. CASE sd_mmc_cmd13
  <2>1. Executing("CMD13") /\ pc = "cmd13" /\ (Next("read") \/ Answer("COMM"))
    BY <1>3 DEF sd_mmc_cmd13, refused
  <2> QED  BY <2>1, <1>1
<1>4. CASE pc \in {"read", "write"} /\ InitBlocks
  <2>1. ASSUME NEW cmd \in BlockCommands,
               Exchange(cmd, /\ pc' = "idle" /\ ret' = "OK" /\ remaining' = total
                             /\ UNCHANGED <<slot, drv, v2, retry, total, dir>>, refused)
        PROVE  SdInv'
    <3>1. CASE pc' = "idle" /\ ret' = "OK" /\ remaining' = total
               /\ UNCHANGED <<slot, drv, v2, retry, total, dir>>
      <4>1. Executing(cmd)
        BY <2>1
      <4> QED  BY <1>4, <3>1, <4>1, <1>2
    <3>2. CASE Answer("COMM")
      <4>1. Executing(cmd)
        BY <2>1
      <4> QED  BY <1>4, <3>2, <4>1, <1>1
    <3> QED  BY <2>1, <3>1, <3>2 DEF refused
  <2> QED  BY <1>4, <2>1 DEF InitBlocks, sd_mmc_cmd13
<1>5. CASE SdioAccess
  <2>1. pc \in {"IO_DIRECT", "IO_EXTENDED"} /\ Executing(pc) /\ (Answer("OK") \/ Answer("COMM"))
    BY <1>5 DEF SdioAccess, sdio_cmd52, sdio_cmd53, refused
  <2> QED  BY <2>1, <1>1
<1>6. CASE StopTransmission
  <2>1. pc \in {"cmd12", "cmd12_again"} /\ Executing("CMD12")
        /\ (Answer("OK") \/ Answer("COMM") \/ Next("cmd12_again"))
    BY <1>6 DEF StopTransmission
  <2> QED  BY <2>1, <1>1
<1>7. ASSUME NEW abort \in BOOLEAN, sd_mmc_wait_end_of_blocks(abort)  PROVE SdInv'
  <2> DEFINE left == IF abort THEN 0 ELSE remaining
  <2>1. pc = "started" /\ Executing("DATA")
    BY <1>7 DEF sd_mmc_wait_end_of_blocks
  <2>2. CASE remaining' = left /\ pc' = (IF left = 0 /\ total > 1 THEN "cmd12" ELSE "idle")
             /\ ret' = "OK" /\ UNCHANGED <<slot, drv, v2, retry, total, dir>>
    BY <2>1, <2>2, <1>2
  <2>3. CASE Answer("COMM")
    BY <2>1, <2>3, <1>1
  <2> QED  BY <1>7, <2>2, <2>3 DEF sd_mmc_wait_end_of_blocks
<1> QED  BY <1>3, <1>4, <1>5, <1>6, <1>7 DEF InitBlocks

LEMMA RunningKeeps == ASSUME SdInv, Running PROVE SdInv'
<1> QED
  BY ResetKeeps, Cmd8Keeps, OpCondKeeps, IdentifyKeeps, CisKeeps, ChoosesSpeed, MmcInstalls,
     CallsKeep
  DEF Running

LEMMA StartKeeps ==
  ASSUME SdInv, NEW n \in Nat, sd_mmc_start_blocks(n)
  PROVE  SdInv'
<1>1. /\ pc = "idle" /\ ret = "OK" /\ n \in 1..remaining /\ pc' = "started"
      /\ remaining' = remaining - n
      /\ UNCHANGED <<card, swaps, faults, swapped, slot, drv, ret, v2, retry, total, dir>>
  BY DEF sd_mmc_start_blocks, env
<1>2. slot.state = "READY"
  BY <1>1 DEF SdInv, SlotInv
<1>3. pc' \in Calls /\ pc' \notin Early \cup Late
  BY <1>1 DEF Early, Late, LateSd, LateMmc, Calls
<1>4. SdTyped'
  <2>1. remaining \in Nat
    BY DEF SdInv, SdTyped
  <2>2. remaining' \in Nat
    BY <1>1, <2>1
  <2>3. swapped' \in {TRUE, FALSE} /\ v2' \in {TRUE, FALSE}
    BY <1>1 DEF SdInv, SdTyped
  <2>4. retry' \in 1..10 /\ total' \in Nat /\ dir' \in {"read", "write"}
        /\ ret' \in {"none", "OK", "UNKNOWN", "INIT_ONGOING", "UNUSABLE", "COMM"}
        /\ swaps' \in 0..MaxSwaps /\ faults' \in 0..MaxFaults
    BY <1>1 DEF SdInv, SdTyped
  <2>5. drv' \in [clock: Nat, width: {1, 4}, hs: {0, 1}]
    BY <1>1 DEF SdInv, SdTyped
  <2>6. slot' \in [state: {"READY", "INIT", "UNUSABLE", "NO_CARD"}, type: SUBSET Flags,
               version: 0..4, rca: 0..2, clock: Nat, width: {0, 1, 4}, hs: {0, 1}]
    BY <1>1 DEF SdInv, SdTyped
  <2> QED  BY <1>3, <2>2, <2>3, <2>4, <2>5, <2>6 DEF SdTyped
<1>5. SlotInv' /\ CardInv' /\ ReadyInv'
  BY <1>1, <1>2, <1>3 DEF SdInv, SlotInv, CardInv, ReadyInv, Present, Agree, isSdio,
     MySide, SameBus, SpeedTold
<1>6. TypeInv' /\ StageInv' /\ VersionInv'
  BY <1>1 DEF TypeInv, StageInv, VersionInv, Late, LateSd, LateMmc
<1>7. BusInv' /\ ClockInv'
  BY <1>1, <1>2, <1>3 DEF SdInv, BusInv, ClockInv, isSdio, SameBus, SpeedTold, Late,
     LateSd, LateMmc
<1> QED  BY <1>4, <1>5, <1>6, <1>7 DEF SdInv

LEMMA CallerKeeps == ASSUME SdInv, Caller PROVE SdInv'
<1>1. ASSUME NEW n \in Blocks, sd_mmc_init_read_blocks(n) \/ sd_mmc_init_write_blocks(n)
      PROVE  SdInv'
  <2>1. n \in Nat
    BY SdAssumption DEF SdAssumption
  <2> QED
    BY <1>1, <2>1, CallOnKeeps DEF sd_mmc_init_read_blocks, sd_mmc_init_write_blocks, Calls
<1>2. ASSUME NEW cmd \in {"IO_DIRECT", "IO_EXTENDED"}, sdio_access(cmd)  PROVE SdInv'
  <2>1. total \in Nat /\ dir \in {"read", "write"}
    BY DEF SdInv, SdTyped
  <2> QED  BY <1>2, <2>1, CallOnKeeps DEF sdio_access, Calls
<1>3. ASSUME NEW n \in 1..remaining, sd_mmc_start_blocks(n)  PROVE SdInv'
  <2>1. remaining \in Nat
    BY DEF SdInv, SdTyped
  <2>2. n \in Nat
    BY <2>1
  <2> QED  BY <1>3, <2>2, StartKeeps
<1> QED
  BY <1>1, <1>2, <1>3, CheckKeeps, GetKeeps, CallsKeep DEF Caller

\* A card that is put in is idle and not present for the installation under way.
LEMMA WorldKeeps == ASSUME SdInv, World PROVE SdInv'
<1>1. /\ swapped' = TRUE /\ faults' = faults /\ swaps' \in 0..MaxSwaps
      /\ UNCHANGED <<slot, drv, pc, ret, v2, retry, remaining, total, dir>>
      /\ \E k \in Kinds \cup {"none"} : card' = PowerUp(k)
  <2>1. CASE Remove
    BY <2>1 DEF Remove, NoCard, host, SdInv, SdTyped
  <2>2. ASSUME NEW k \in Inserted, Insert(k)
        PROVE  /\ swapped' = TRUE /\ faults' = faults /\ swaps' \in 0..MaxSwaps
               /\ UNCHANGED <<slot, drv, pc, ret, v2, retry, remaining, total, dir>>
               /\ \E x \in Kinds \cup {"none"} : card' = PowerUp(x)
    BY <2>2, SdAssumption DEF Insert, host, SdInv, SdTyped, SdAssumption
  <2> QED  BY <2>1, <2>2 DEF World
<1>2. Sound(card') /\ card'.st = "idle"
  BY <1>1 DEF PowerUp, Card, Sound, Cards, Bus, Slow, Kinds
<1>3. SdTyped'
  <2>1. slot' \in [state: {"READY", "INIT", "UNUSABLE", "NO_CARD"}, type: SUBSET Flags,
               version: 0..4, rca: 0..2, clock: Nat, width: {0, 1, 4}, hs: {0, 1}]
        /\ drv' \in [clock: Nat, width: {1, 4}, hs: {0, 1}]
    BY <1>1 DEF SdInv, SdTyped
  <2>2. v2' \in {TRUE, FALSE}
    BY <1>1 DEF SdInv, SdTyped
  <2>3. /\ retry' \in 1..10 /\ total' \in Nat /\ remaining' \in Nat /\ dir' \in {"read", "write"}
        /\ ret' \in {"none", "OK", "UNKNOWN", "INIT_ONGOING", "UNUSABLE", "COMM"}
        /\ faults' \in 0..MaxFaults /\ pc' \in Early \cup Late \cup Calls \cup {"idle"}
    BY <1>1 DEF SdInv, SdTyped
  <2> QED  BY <1>1, <2>1, <2>2, <2>3 DEF SdTyped
<1>4. ~Present' /\ swapped'
  BY <1>1, <1>2 DEF Present
<1>5. SlotInv' /\ CardInv' /\ TypeInv'
  BY <1>1, <1>2, <1>4 DEF SdInv, SlotInv, CardInv, TypeInv, isSd, isSdio
<1>6. StageInv' /\ VersionInv' /\ ReadyInv'
  BY <1>4 DEF StageInv, VersionInv, ReadyInv
<1>7. BusInv' /\ ClockInv'
  BY <1>1, <1>4 DEF SdInv, BusInv, ClockInv, isSdio
<1> QED  BY <1>3, <1>5, <1>6, <1>7 DEF SdInv

LEMMA SdStart == SdInit => SdInv
<1> SUFFICES ASSUME SdInit PROVE SdInv
  OBVIOUS
<1> USE SdAssumption DEF SdInit, SdAssumption
<1>1. SdTyped
  <2>1. slot \in SlotType /\ drv \in [clock: Nat, width: {1, 4}, hs: {0, 1}]
    BY DEF SlotType, Flags
  <2>2. swapped \in {TRUE, FALSE} /\ v2 \in {TRUE, FALSE}
    OBVIOUS
  <2>3. swaps \in 0..MaxSwaps /\ faults \in 0..MaxFaults /\ remaining \in Nat /\ total \in Nat
        /\ retry \in 1..10
    OBVIOUS
  <2> QED  BY <2>1, <2>2, <2>3 DEF SdTyped, SlotType
<1>2. SlotInv /\ TypeInv /\ StageInv /\ VersionInv /\ BusInv /\ ReadyInv
  BY DEF SlotInv, TypeInv, StageInv, VersionInv, BusInv, ReadyInv, Early, Late, LateSd, LateMmc,
         Calls, SlowBus
<1>3. CardInv
  BY DEF CardInv, NoCard, PowerUp, Card, Sound, Cards, Bus, Slow, Kinds, isSdio
<1>4. ClockInv
  BY DEF ClockInv, NoCard, PowerUp, Card, Slow, Late, LateSd, LateMmc, Memory, SdMem, Mmc, Mmc4
<1> QED  BY <1>1, <1>2, <1>3, <1>4 DEF SdInv

LEMMA SdStutter == ASSUME SdInv, UNCHANGED sdVars PROVE SdInv'
<1> USE DEF sdVars, env, host
<1>1. SdTyped'
  <2>1. slot' \in SlotType /\ drv' \in [clock: Nat, width: {1, 4}, hs: {0, 1}]
    BY DEF SdInv, SdTyped, SlotType
  <2>2. swapped' \in {TRUE, FALSE} /\ v2' \in {TRUE, FALSE}
    BY DEF SdInv, SdTyped
  <2>3. /\ swaps' \in 0..MaxSwaps /\ faults' \in 0..MaxFaults /\ remaining' \in Nat
        /\ total' \in Nat /\ retry' \in 1..10 /\ dir' \in {"read", "write"}
        /\ ret' \in {"none", "OK", "UNKNOWN", "INIT_ONGOING", "UNUSABLE", "COMM"}
        /\ pc' \in Early \cup Late \cup Calls \cup {"idle"}
    BY DEF SdInv, SdTyped
  <2> QED  BY <2>1, <2>2, <2>3 DEF SdTyped, SlotType
<1>2. SlotInv' /\ CardInv' /\ TypeInv' /\ ReadyInv'
  BY DEF SdInv, SlotInv, CardInv, TypeInv, ReadyInv, Present, Agree, isSd, isSdio,
     MySide, SameBus, SpeedTold
<1>3. StageInv' /\ VersionInv' /\ BusInv' /\ ClockInv'
  BY DEF SdInv, StageInv, VersionInv, BusInv, ClockInv, Present, Agree, isSd, isSdio,
     MySide, SameBus, SpeedTold
<1> QED  BY <1>1, <1>2, <1>3 DEF SdInv

\* The inductive invariant of the stack holds, with any caller that keeps to its order.
THEOREM SdAlways == SdSpec => []SdInv
<1>1. ASSUME SdInv, [SdNext]_sdVars  PROVE SdInv'
  BY <1>1, WorldKeeps, CallerKeeps, RunningKeeps, SdStutter DEF SdNext
<1> QED  BY SdStart, <1>1, PTL DEF SdSpec

\* The card that is ready is the one that was installed, and is known as it is.
THEOREM ReadyIsInstalled == SdSpec => []ReadyMeansInstalled
<1>1. SdInv => ReadyMeansInstalled
  <2> SUFFICES ASSUME SdInv, slot.state = "READY", ~swapped  PROVE ReadyMeansInstalled
    BY DEF ReadyMeansInstalled
  <2>1. /\ Agree /\ card.kind # "none" /\ card.st \in {"tran", "one", "many"}
        /\ card.rca = slot.rca /\ SameBus(slot, MySide) /\ (isSdio => card.kind \in Io)
    BY DEF SdInv, ReadyInv, Present
  <2>2. slot \in SlotType /\ drv = BusOf(slot) /\ Sound(card)
    BY DEF SdInv, SdTyped, SlotType, BusInv, CardInv
  <2>3. slot.type \ {"SDIO"} = MemFlags(card.kind)
    BY <2>1, <2>2 DEF Agree, SlotType, MemFlags, Flags
  <2>4. MySide = IF isSd \/ ~isSdio THEN card.mem ELSE card.fn
    <3>1. card.kind \in Kinds /\ card.mem \in Bus /\ card.fn \in Bus
      BY <2>1, <2>2 DEF Sound, Cards
    <3>2. CASE card.kind = "SDIO"
      BY <2>2, <3>1, <3>2 DEF MySide, Sound, Bus
    <3>3. CASE card.kind # "SDIO"
      BY <2>1, <3>1, <3>3 DEF MySide, Agree, isSd, isSdio, Memory, SdMem, Mmc, Mmc4, Io, Kinds
    <3> QED  BY <3>2, <3>3
  <2>5. OnBus(MySide)
    BY <2>1, <2>2 DEF SameBus, BusOf, OnBus
  <2> QED  BY <2>1, <2>3, <2>4, <2>5 DEF ReadyMeansInstalled
<1> QED  BY SdAlways, <1>1, PTL

\* Blocks are clocked only over a bus both sides have agreed on.
THEOREM BusAgreed == SdSpec => []DataOnAgreedBus
<1>1. SdInv => DataOnAgreedBus
  <2> SUFFICES ASSUME SdInv, pc \in DOMAIN DataStep, Answers(DataStep[pc])
               PROVE  OnBus(card.mem)
    BY DEF DataOnAgreedBus
  <2> card.mem \in Bus /\ card.kind \in Kinds \cup {"none"} /\ Sound(card)
    BY DEF SdInv, CardInv, Sound, Cards
  <2> SUFFICES drv.width = card.mem.width /\ (SpeedTold => drv.hs = card.mem.hs)
    BY DEF OnBus
  <2>1. pc \in {"acmd51", "m_ext_csd", "cmd6", "read", "write", "started"}
    BY DEF DataStep
  <2>2. card.st # "idle"
    <3>1. CASE pc = "acmd51"
      BY <3>1 DEF Answers, Executes, DataStep
    <3>2. CASE pc = "cmd6"
      BY <3>2 DEF Answers, Executes, DataStep
    <3>3. CASE pc = "m_ext_csd"
      BY <3>3 DEF Answers, Executes, DataStep
    <3>4. CASE pc = "read"
      BY <3>4 DEF Answers, Executes, DataStep
    <3>5. CASE pc = "write"
      BY <3>5 DEF Answers, Executes, DataStep
    <3>6. CASE pc = "started"
      BY <3>6 DEF Answers, Executes, DataStep
    <3> QED  BY <2>1, <3>1, <3>2, <3>3, <3>4, <3>5, <3>6
  <2>3. Present
    BY <2>2 DEF Present
  <2>4. CASE pc \in {"acmd51", "m_ext_csd"}
    BY <2>3, <2>4 DEF SdInv, BusInv, SlowBus, Late, LateSd, LateMmc
  <2>5. CASE pc = "cmd6"
    BY <2>3, <2>5 DEF SdInv, BusInv, Late, LateSd
  <2>6. CASE pc \in {"read", "write", "started"}
    <3>1. slot.state = "READY"
      BY <2>6 DEF SdInv, SlotInv, Calls
    <3>2. SameBus(slot, MySide) /\ drv = BusOf(slot)
      BY <2>3, <3>1 DEF SdInv, ReadyInv, BusInv
    <3>3. card.kind \in Memory
      <4>1. CASE pc = "read"
        BY <4>1 DEF Answers, Executes, DataStep
      <4>2. CASE pc = "write"
        BY <4>2 DEF Answers, Executes, DataStep
      <4>3. CASE pc = "started"
        <5>1. card.st \in {"one", "many"}
          BY <4>3 DEF Answers, Executes, DataStep
        <5> QED  BY <5>1 DEF Sound, Memory, SdMem, Mmc, Mmc4, Kinds
      <4> QED  BY <2>6, <4>1, <4>2, <4>3
    <3> QED  BY <3>2, <3>3 DEF SameBus, SpeedTold, MySide, BusOf
  <2> QED  BY <2>1, <2>4, <2>5, <2>6
<1> QED  BY SdAlways, <1>1, PTL

\* No memory card is clocked faster than it stands.
THEOREM ClockStands == SdSpec => []ClockInLimits
<1>1. SdInv => ClockInLimits
  <2> SUFFICES ASSUME SdInv, card.kind \in Memory \ Io, ~swapped  PROVE ClockInLimits
    BY DEF ClockInLimits
  <2>1. "switch_status" \notin Shared => drv.clock <= 1 + card.mem.hs
    BY DEF SdInv, ClockInv, CardInv, Sound, Cards, Bus
  <2>2. ASSUME card.st \in {"idle", "ready", "ident"}, pc # "idle"  PROVE drv.clock = 0
    <3>1. CASE pc \in Early
      BY <3>1 DEF SdInv, SlotInv, SlowBus
    <3>2. CASE pc \in Late
      <4>1. pc \in {"cmd2", "cmd3", "m_cmd2", "m_cmd3"}
        BY <2>2, <3>2 DEF SdInv, StageInv, Present, Late, LateSd, LateMmc
      <4> QED  BY <4>1 DEF SdInv, BusInv, SlowBus
    <3>3. CASE pc \in Calls
      BY <2>2, <3>3 DEF SdInv, SlotInv, ReadyInv, Present
    <3> QED  BY <2>2, <3>1, <3>2, <3>3 DEF SdInv, SdTyped
  <2> QED  BY <2>1, <2>2 DEF ClockInLimits
<1> QED  BY SdAlways, <1>1, PTL

-----------------------------------------------------------------------------
(* The disk.                                                               *)

\* The exchanges that follow the reading of the CSD.
AfterCsd == Late \ {"cmd2", "cmd3", "cmd9", "m_cmd2", "m_cmd3", "m_cmd9"}

JobType ==
  [op: {"none", "initialize", "status", "sync", "wait", "read", "write"}, first: Nat, count: Nat,
   at: {"free", "capacity", "check", "checked", "typed", "init", "inited", "started", "failed"},
   i: Nat, tries: 0..2, last: Int, lost: {TRUE, FALSE}, faults: Nat]

\* Where the stack is while the job is at each of its calls.
JobInv ==
  /\ job \in JobType /\ capacity \in Nat /\ ejected \in {TRUE, FALSE}
  /\ total \in {0, 1} /\ remaining <= total
  /\ job.at = "free" <=> job.op = "none"
  /\ job.at \in {"capacity", "init", "inited", "started", "failed"} => job.op \in Transfers
  /\ job.op \in Transfers => job.count >= 1
  /\ job.at \in {"free", "capacity", "check", "typed", "init", "failed"} => pc = "idle"
  /\ job.at = "checked" => pc \in Early \cup Late \cup {"idle"}
  /\ job.at = "inited" => pc \in {"idle", "cmd13", "read", "write"}
  /\ job.at = "started" => pc = "started"
  /\ job.i <= job.count /\ (job.at \in {"inited", "started", "failed"} => job.i < job.count)
  /\ job.at \in {"init", "inited", "started", "failed"} => job.first + job.count <= job.last + 1

\* A capacity that is given to the caller is that of an installed card, and the card
\* in the slot has it, unless it has taken the place of the installed one and is idle.
CapacityInv ==
  /\ job.last = -1 \/ (slot.state = "READY" /\ job.last = capacity - 1)
  /\ slot.state = "READY" \/ pc \in AfterCsd =>
       (Present /\ card.kind \in Memory => capacity = Sectors[card.kind])
  /\ job.lost = TRUE /\ slot.state = "READY" /\ (job.at = "capacity" \/ job.last >= 0) => ~Present

MediumInv ==
  /\ card.kind = "none" => medium = <<>>
  /\ card.kind # "none" => DOMAIN medium = 0..(Sectors[card.kind] - 1)

DiskInv == SdInv /\ JobInv /\ CapacityInv /\ MediumInv

\* The exchanges that an idle card does not take part in: all but those of the reset.
LateCommands == Commands \ {"IO_RESET", "CMD0", "CMD8", "CMD5", "ACMD41", "CMD1"}

LEMMA IdleSilent ==
  ASSUME NEW c, NEW cmd \in LateCommands, NEW rca, NEW hcs, Executes(c, cmd, rca, hcs)
  PROVE  c.st # "idle"
<1>1. CASE cmd \in {"CMD2", "CMD3", "CMD3_MMC"}
  <2>1. CASE cmd = "CMD2"
    BY <2>1 DEF Executes
  <2>2. CASE cmd = "CMD3"
    BY <2>2 DEF Executes
  <2>3. CASE cmd = "CMD3_MMC"
    BY <2>3 DEF Executes
  <2> QED  BY <1>1, <2>1, <2>2, <2>3
<1>2. CASE cmd \in {"CMD9", "CMD7"}
  BY <1>2 DEF Executes
<1>3. CASE cmd \in {"ACMD51", "ACMD6", "CMD6"}
  BY <1>3 DEF Executes
<1>4. CASE cmd \in {"CIS", "IO_WIDTH", "IO_HS", "IO_DIRECT", "IO_EXTENDED"}
  BY <1>4 DEF Executes
<1>5. CASE cmd \in {"EXT_CSD", "CMD6_WIDTH", "CMD6_HS"}
  BY <1>5 DEF Executes
<1>6. CASE cmd \in {"CMD16", "READ1", "WRITE1", "MULTI"}
  BY <1>6 DEF Executes
<1>7. CASE cmd = "CMD13"
  BY <1>7 DEF Executes
<1>8. CASE cmd = "DATA"
  BY <1>8 DEF Executes
<1>9. CASE cmd = "CMD12"
  BY <1>9 DEF Executes
<1> QED
  BY <1>1, <1>2, <1>3, <1>4, <1>5, <1>6, <1>7, <1>8, <1>9 DEF LateCommands, Commands

\* What every step of a call that is under way has in common, as far as the disk is
\* concerned.
CardStays ==
  /\ card'.kind = card.kind /\ UNCHANGED <<swaps, swapped>>
  /\ pc \in Late \cup Calls /\ card.st = "idle" => card'.st = "idle"
Path ==
  /\ pc \in Early \cup Late => pc' \in Early \cup Late \cup {"idle"}
  /\ pc \in Calls => slot' = slot
  /\ pc \in {"cmd13", "read", "write"} => pc' \in {"idle", "read"}
  /\ pc' \in AfterCsd => \/ pc \in AfterCsd \cup {"cmd9", "m_cmd9"}
                         \/ pc = "cmd3" /\ ~isSd
  /\ slot'.state = "READY" => slot.state = "READY" \/ pc \in AfterCsd
  /\ total' = total /\ remaining' \in {remaining, total}
  /\ pc \in {"cmd9", "m_cmd9"} /\ pc' # "idle" => card.st # "idle"
GoesOn == CardStays /\ Path /\ pc # "idle" /\ pc # "started"

LEMMA ExchangeStays ==
  ASSUME SdInv, NEW cmd \in Commands, Missed(cmd) \/ Executed(cmd),
         pc \in Early \/ cmd \in LateCommands
  PROVE  CardStays
<1>1. card'.kind = card.kind /\ UNCHANGED <<swaps, swapped>>
  BY MissedCard, ExecutedCard DEF SdInv, CardInv, Missed, Executed
<1>2. ASSUME pc \in Late \cup Calls, card.st = "idle"  PROVE card' = card
  <2>1. pc \notin Early
    BY <1>2 DEF Early, Late, LateSd, LateMmc, Calls
  <2>2. ~Answers(cmd)
    BY <1>2, <2>1, IdleSilent DEF Answers
  <2> QED  BY <2>2, DisturbedOnly DEF Missed, Executed
<1> QED  BY <1>1, <1>2 DEF CardStays

\* One exchange of the installation.
LEMMA StepGoesOn ==
  ASSUME SdInv, NEW at, NEW cmd \in Commands, NEW s, NEW next, Step(at, cmd, s, next),
         s.state = slot.state, at \in Early \cup Late, next \in Early \cup Late,
         at \in Early \/ cmd \in LateCommands,
         next \in AfterCsd => at \in AfterCsd \cup {"cmd9", "m_cmd9"} \/ (at = "cmd3" /\ ~isSd)
  PROVE  GoesOn
<1>1. pc = at /\ (Missed(cmd) \/ Executed(cmd)) /\ (Go(s, next) \/ InitFails)
  BY DEF Step, Exchange, Missed, Executed
<1>2. CardStays
  BY <1>1, ExchangeStays
<1>3. pc \notin Calls \cup {"cmd13", "read", "write", "started", "idle"} /\ slot.state = "INIT"
  BY <1>1 DEF Early, Late, LateSd, LateMmc, Calls, SdInv, SlotInv
<1>4. CASE Go(s, next)
  <2>1. pc' # "idle"
    BY <1>4 DEF Go, Early, Late, LateSd, LateMmc
  <2>2. ASSUME at \in {"cmd9", "m_cmd9"}  PROVE card.st # "idle"
    <3>1. Executes(card, cmd, slot.rca, v2)
      BY <2>1, <2>2 DEF Step, Exchange, InitFails, Return, Answers
    <3> QED  BY <2>2, <3>1, IdleSilent DEF Early
  <2> QED
    BY <1>1, <1>2, <1>3, <1>4, <2>2 DEF Go, counts, GoesOn, Path
<1>5. CASE InitFails
  <2>1. slot'.state = "UNUSABLE" /\ pc' = "idle"
    BY <1>5 DEF InitFails, Return, SdInv, SdTyped
  <2> QED
    BY <1>1, <1>2, <1>3, <1>5, <2>1 DEF InitFails, Return, counts, GoesOn, Path, AfterCsd, Late,
       LateSd, LateMmc
<1> QED  BY <1>1, <1>4, <1>5

\* A step of the installation that leaves slot.state alone or ends it.
LEMMA EarlyGoesOn ==
  ASSUME SdInv, NEW cmd \in Commands, Missed(cmd) \/ Executed(cmd), pc \in Early,
         pc' \in Early \cup {"cmd2", "cmd3", "m_cmd2", "idle"},
         slot'.state \in {"INIT", "UNUSABLE"}, UNCHANGED <<remaining, total>>
  PROVE  GoesOn
<1>1. CardStays
  BY ExchangeStays
<1>2. pc \notin Calls \cup {"cmd13", "read", "write", "started", "idle", "cmd9", "m_cmd9"}
      /\ pc' \in Early \cup Late \cup {"idle"} /\ pc' \notin AfterCsd
  BY DEF Early, Late, LateSd, LateMmc, Calls, AfterCsd
<1> QED  BY <1>1, <1>2 DEF GoesOn, Path

LEMMA EarlyGoes ==
  ASSUME SdInv, \/ ResetCards \/ sd_cmd8 \/ sdio_op_cond \/ sd_mci_op_cond
                \/ pc = "m_cmd0" /\ Exchange("CMD0", Go(slot, "m_cmd1"), Go(slot, "m_cmd1"))
  PROVE  GoesOn
<1> slot \in SlotType
  BY DEF SdInv, SdTyped, SlotType
<1>1. pc \in Early => slot.state = "INIT"
  BY DEF SdInv, SlotInv
<1>2. pc \in Early => (InitFails => slot'.state = "UNUSABLE" /\ pc' = "idle"
          /\ UNCHANGED <<remaining, total>>)
  BY DEF InitFails, Return, counts, SlotType
<1> USE DEF Exchange, Missed, Executed, Go, counts, Early, Commands
<1>3. CASE ResetCards
  <2>1. CASE pc = "cmd52"
    <3>1. (Missed("IO_RESET") \/ Executed("IO_RESET")) /\ Go(slot, "cmd0")
      BY <1>3, <2>1 DEF ResetCards
    <3> QED  BY <1>1, <2>1, <3>1, EarlyGoesOn
  <2>2. CASE pc = "cmd0"
    <3>1. (Missed("CMD0") \/ Executed("CMD0")) /\ Go(slot, "cmd8")
      BY <1>3, <2>2 DEF ResetCards
    <3> QED  BY <1>1, <2>2, <3>1, EarlyGoesOn
  <2> QED  BY <1>3, <2>1, <2>2 DEF ResetCards
<1>4. CASE sd_cmd8
  <2>1. Missed("CMD8") \/ Executed("CMD8")
    BY <1>4 DEF sd_cmd8
  <2>2. pc = "cmd8" /\ (InitFails \/ (pc' = "cmd5" /\ UNCHANGED <<slot, remaining, total>>))
    BY <1>4 DEF sd_cmd8
  <2> QED  BY <1>1, <1>2, <2>1, <2>2, EarlyGoesOn
<1>5. CASE sdio_op_cond
  <2>1. Missed("CMD5") \/ Executed("CMD5")
    BY <1>5 DEF sdio_op_cond
  <2>2. pc = "cmd5" /\ (InitFails
            \/ (pc' \in {"acmd41", "cmd3"} /\ slot'.state = slot.state /\ UNCHANGED <<remaining,
            total>>))
    BY <1>5 DEF sdio_op_cond, SlotType
  <2> QED  BY <1>1, <1>2, <2>1, <2>2, EarlyGoesOn
<1>6. CASE sd_mci_op_cond
  <2>1. Missed("ACMD41") \/ Executed("ACMD41")
    BY <1>6 DEF sd_mci_op_cond
  <2>2. pc = "acmd41" /\ pc' \in {"m_cmd0", "cmd2"} /\ slot'.state = slot.state
            /\ UNCHANGED <<remaining, total>>
    BY <1>6 DEF sd_mci_op_cond, SlotType, WithHc, NowMmc
  <2> QED  BY <1>1, <2>1, <2>2, EarlyGoesOn
<1>7. CASE pc = "m_cmd0" /\ Exchange("CMD0", Go(slot, "m_cmd1"), Go(slot, "m_cmd1"))
  <2>1. (Missed("CMD0") \/ Executed("CMD0")) /\ Go(slot, "m_cmd1")
    BY <1>7
  <2> QED  BY <1>1, <1>7, <2>1, EarlyGoesOn
<1> QED  BY <1>3, <1>4, <1>5, <1>6, <1>7

\* The names the steps use, and how the steps change the slot.
LEMMA Names ==
  /\ {"cmd2", "cmd3", "cmd9", "m_cmd1", "m_cmd2", "m_cmd3", "m_cmd9"} \subseteq Early \cup Late
  /\ {"cmd2", "cmd3", "cmd9", "m_cmd2", "m_cmd3", "m_cmd9"} \cap AfterCsd = {}
  /\ {"cmd7", "acmd51", "cis", "io_width", "acmd6", "conf_width", "io_hs", "cmd6", "conf_hs",
      "m_cmd7", "m_ext_csd", "m_width", "m_last_width", "conf_m_width", "m_hs", "conf_mmc"}
       \subseteq AfterCsd
  /\ AfterCsd \subseteq Early \cup Late /\ "m_cmd1" \in Early
  /\ {"CMD2", "CMD3", "CMD3_MMC", "CMD9", "CMD7", "ACMD51", "ACMD6", "CMD6", "IO_WIDTH", "IO_HS",
      "EXT_CSD", "CMD6_WIDTH", "CMD6_HS"} \subseteq LateCommands
  /\ LateCommands \subseteq Commands /\ "CMD1" \in Commands
<1>1. /\ {"cmd2", "cmd3", "cmd9", "m_cmd1", "m_cmd2", "m_cmd3", "m_cmd9"} \subseteq Early \cup Late
      /\ {"cmd2", "cmd3", "cmd9", "m_cmd2", "m_cmd3", "m_cmd9"} \cap AfterCsd = {}
      /\ AfterCsd \subseteq Early \cup Late /\ "m_cmd1" \in Early
  BY DEF Early, Late, LateSd, LateMmc, AfterCsd
<1>2. {"cmd7", "acmd51", "cis", "io_width", "acmd6", "conf_width", "io_hs", "cmd6", "conf_hs",
       "m_cmd7", "m_ext_csd", "m_width", "m_last_width", "conf_m_width", "m_hs", "conf_mmc"}
        \subseteq AfterCsd
  BY DEF Late, LateSd, LateMmc, AfterCsd
<1>3. /\ {"CMD2", "CMD3", "CMD3_MMC", "CMD9", "CMD7", "ACMD51", "ACMD6", "CMD6", "IO_WIDTH",
          "IO_HS", "EXT_CSD", "CMD6_WIDTH", "CMD6_HS"} \subseteq LateCommands
      /\ LateCommands \subseteq Commands /\ "CMD1" \in Commands
  BY DEF Commands, LateCommands
<1> QED  BY <1>1, <1>2, <1>3

LEMMA SameState ==
  ASSUME SdInv
  PROVE  /\ Width4.state = slot.state /\ SetHs(slot).state = slot.state
         /\ AssumeHs(slot).state = slot.state
         /\ WithHc.state = slot.state
         /\ \A x : /\ [slot EXCEPT !.rca = x].state = slot.state
                   /\ [slot EXCEPT !.clock = x].state = slot.state
                   /\ [slot EXCEPT !.version = x].state = slot.state
                   /\ \A y : /\ [slot EXCEPT !.clock = x, !.version = y].state = slot.state
                             /\ [slot EXCEPT !.hs = x, !.clock = y].state = slot.state
<1>1. slot \in SlotType
  BY DEF SdInv, SdTyped, SlotType
<1> QED  BY <1>1 DEF Width4, SetHs, AssumeHs, WithHc, SlotType

\* A step of the installation once the card has its address.
LEMMA AddressedGoesOn ==
  ASSUME SdInv, NEW at \in AfterCsd \cup {"cmd9", "m_cmd9"}, NEW cmd \in LateCommands, NEW s,
         NEW next \in AfterCsd, Step(at, cmd, s, next), s.state = slot.state
  PROVE  GoesOn
<1>1. at \in Early \cup Late /\ next \in Early \cup Late /\ cmd \in Commands
  BY Names
<1> QED  BY <1>1, StepGoesOn

LEMMA IdentifyGoes == ASSUME SdInv, Identify PROVE GoesOn
<1>1. CASE Step("cmd2", "CMD2", slot, "cmd3")
  BY <1>1, Names, StepGoesOn
<1>2. CASE Step("cmd3", "CMD3", [slot EXCEPT !.rca = card'.rca], IF isSd THEN "cmd9" ELSE "cmd7")
  <2>1. [slot EXCEPT !.rca = card'.rca].state = slot.state
    BY SameState
  <2>2. CASE isSd
    <3>1. Step("cmd3", "CMD3", [slot EXCEPT !.rca = card'.rca], "cmd9")
      BY <1>2, <2>2
    <3> QED  BY <2>1, <3>1, Names, StepGoesOn
  <2>3. CASE ~isSd
    <3>1. Step("cmd3", "CMD3", [slot EXCEPT !.rca = card'.rca], "cmd7")
      BY <1>2, <2>3
    <3> QED  BY <2>1, <2>3, <3>1, Names, StepGoesOn
  <2> QED  BY <2>2, <2>3
<1>3. CASE sd_decode_csd
  BY <1>3, SameState, Names, AddressedGoesOn DEF sd_decode_csd
<1>4. CASE Step("cmd7", "CMD7", slot, IF isSd THEN "acmd51" ELSE "cis")
  <2>1. (IF isSd THEN "acmd51" ELSE "cis") \in AfterCsd
    BY Names
  <2> QED  BY <1>4, <2>1, Names, AddressedGoesOn
<1>5. CASE sd_acmd51
  <2>1. (IF isSdio THEN "cis" ELSE "acmd6") \in AfterCsd
    BY Names
  <2> PICK v \in ReadBack("scr", IF card.kind = "SD1" THEN 1 ELSE 2, {1, 2}) :
         Step("acmd51", "ACMD51", [slot EXCEPT !.version = v], IF isSdio THEN "cis" ELSE "acmd6")
    BY <1>5 DEF sd_acmd51
  <2> QED  BY <2>1, SameState, Names, AddressedGoesOn
<1> QED  BY <1>1, <1>2, <1>3, <1>4, <1>5 DEF Identify

LEMMA BusGoes ==
  ASSUME SdInv, \/ sdio_cmd52_set_bus_width \/ sd_acmd6
                \/ sdio_cmd52_set_high_speed \/ sd_cm6_set_high_speed
  PROVE  GoesOn
<1>2. CASE sdio_cmd52_set_bus_width
  <2>1. (IF card.kind = "COMBO" THEN Width4 ELSE slot).state = slot.state
    BY SameState
  <2>2. (IF isSd THEN "acmd6" ELSE "conf_width") \in AfterCsd
    BY Names
  <2> QED  BY <1>2, <2>1, <2>2, Names, AddressedGoesOn DEF sdio_cmd52_set_bus_width
<1>3. CASE sd_acmd6
  BY <1>3, SameState, Names, AddressedGoesOn DEF sd_acmd6
<1>4. CASE sdio_cmd52_set_high_speed
  <2>1. (IF isSd /\ slot.version > 1 THEN "cmd6" ELSE "conf_hs") \in AfterCsd
    BY Names
  <2> QED  BY <1>4, <2>1, SameState, Names, AddressedGoesOn DEF sdio_cmd52_set_high_speed
<1>5. CASE sd_cm6_set_high_speed
  <2> PICK s \in ReadBack("switch_status", SetHs(slot), {AssumeHs(slot)}) :
         Step("cmd6", "CMD6", s, "conf_hs")
    BY <1>5 DEF sd_cm6_set_high_speed
  <2>1. s.state = slot.state
    BY SameState DEF ReadBack
  <2> QED  BY <2>1, Names, AddressedGoesOn
<1> QED  BY <1>2, <1>3, <1>4, <1>5

LEMMA MmcGoes ==
  ASSUME SdInv,
         \/ mmc_mci_op_cond \/ mmc_decode_csd \/ mmc_cmd8 \/ mmc_cmd6_set_bus_width
         \/ mmc_cmd6_set_high_speed \/ Step("m_cmd2", "CMD2", [slot EXCEPT !.rca = 1], "m_cmd3")
         \/ Step("m_cmd3", "CMD3_MMC", slot, "m_cmd9")
         \/ Step("m_cmd7", "CMD7", slot, IF slot.version >= 4 THEN "m_ext_csd" ELSE "conf_mmc")
  PROVE  GoesOn
<1>1. CASE mmc_mci_op_cond
  BY <1>1, SameState, Names, StepGoesOn DEF mmc_mci_op_cond
<1>2. CASE mmc_decode_csd
  <2> DEFINE s == [slot EXCEPT !.clock = 1, !.version = IF card.kind \in Mmc4 THEN 4 ELSE 3]
  <2>1. s.state = slot.state
    BY SameState
  <2>2. Step("m_cmd9", "CMD9", s, "m_cmd7")
    BY <1>2 DEF mmc_decode_csd
  <2> HIDE DEF s
  <2> QED  BY <2>1, <2>2, Names, AddressedGoesOn
<1>3. CASE mmc_cmd8
  <2>1. (IF card.kind \in HighSpeed THEN "m_width" ELSE "m_last_width") \in AfterCsd
    BY Names
  <2> QED  BY <1>3, <2>1, Names, AddressedGoesOn DEF mmc_cmd8
<1>4. CASE mmc_cmd6_set_bus_width
  BY <1>4, SameState, Names, AddressedGoesOn DEF mmc_cmd6_set_bus_width
<1>5. CASE mmc_cmd6_set_high_speed
  BY <1>5, SameState, Names, AddressedGoesOn DEF mmc_cmd6_set_high_speed
<1>6. CASE Step("m_cmd2", "CMD2", [slot EXCEPT !.rca = 1], "m_cmd3")
  BY <1>6, SameState, Names, StepGoesOn
<1>7. CASE Step("m_cmd3", "CMD3_MMC", slot, "m_cmd9")
  BY <1>7, Names, StepGoesOn
<1>8. CASE Step("m_cmd7", "CMD7", slot, IF slot.version >= 4 THEN "m_ext_csd" ELSE "conf_mmc")
  <2>1. (IF slot.version >= 4 THEN "m_ext_csd" ELSE "conf_mmc") \in AfterCsd
    BY Names
  <2> QED  BY <1>8, <2>1, Names, AddressedGoesOn
<1> QED  BY <1>1, <1>2, <1>3, <1>4, <1>5, <1>6, <1>7, <1>8

\* The last steps of the installation, and the driver's.
LEMMA LateGoesOn ==
  ASSUME SdInv, pc \in AfterCsd, CardStays, pc' \in AfterCsd \cup {"idle"},
         remaining' = remaining, total' = total
  PROVE  GoesOn
<1>1. pc \notin Calls \cup {"cmd13", "read", "write", "started", "idle", "cmd9", "m_cmd9"}
          /\ pc \in Late /\ pc' \in Late \cup {"idle"}
  BY DEF AfterCsd, Late, LateSd, LateMmc, Calls
<1> QED  BY <1>1 DEF GoesOn, Path

LEMMA LateGoes ==
  ASSUME SdInv, \/ sdio_get_max_speed
                \/ sd_mmc_configure_slot("conf_width",
                     IF isSdio THEN "io_hs" ELSE IF slot.version > 1 THEN "cmd6" ELSE "conf_hs")
                \/ sd_mmc_configure_slot("conf_hs", IF isSd THEN "cmd16" ELSE "done")
                \/ sd_mmc_configure_slot("conf_m_width", "m_hs")
                \/ pc = "done" /\ Installed /\ UNCHANGED env
                \/ pc = "cmd16" /\ Exchange("CMD16", Installed, InitFails)
                \/ pc = "conf_mmc" /\ drv' = BusOf(slot) /\ pc' = "m_cmd16" /\ retry' = 10
                   /\ UNCHANGED <<env, slot, ret, v2, counts>>
                \/ Cmd16Again
  PROVE  GoesOn
<1> USE DEF AfterCsd, Late, LateSd, LateMmc, Commands, LateCommands, Exchange, Missed, Executed,
            Go, InitFails, Installed, Return, counts
<1>1. UNCHANGED env => CardStays
  BY DEF env, CardStays
<1>2. CASE sdio_get_max_speed
  <2>1. pc = "cis" /\ (Missed("CIS") \/ Executed("CIS"))
    BY <1>2 DEF sdio_get_max_speed
  <2>2. pc' \in {"io_width", "idle"} /\ UNCHANGED <<remaining, total>>
    BY <1>2 DEF sdio_get_max_speed
  <2>3. CardStays
    BY <2>1, ExchangeStays
  <2> QED  BY <2>1, <2>2, <2>3, LateGoesOn
<1>3. CASE \/ sd_mmc_configure_slot("conf_width",
                IF isSdio THEN "io_hs" ELSE IF slot.version > 1 THEN "cmd6" ELSE "conf_hs")
           \/ sd_mmc_configure_slot("conf_hs", IF isSd THEN "cmd16" ELSE "done")
           \/ sd_mmc_configure_slot("conf_m_width", "m_hs")
  BY <1>1, <1>3, LateGoesOn DEF sd_mmc_configure_slot
<1>4. CASE pc = "done" /\ Installed /\ UNCHANGED env
  BY <1>1, <1>4, LateGoesOn
<1>5. CASE (pc = "cmd16" /\ Exchange("CMD16", Installed, InitFails)) \/ Cmd16Again
  <2>1. pc \in {"cmd16", "m_cmd16"} /\ (Missed("CMD16") \/ Executed("CMD16"))
    BY <1>5 DEF Cmd16Again
  <2>2. pc' \in {pc, "idle"} /\ UNCHANGED <<remaining, total>>
    BY <1>5 DEF Cmd16Again
  <2>3. CardStays
    BY <2>1, ExchangeStays
  <2> QED  BY <2>1, <2>2, <2>3, LateGoesOn
<1>6. CASE pc = "conf_mmc" /\ drv' = BusOf(slot) /\ pc' = "m_cmd16" /\ retry' = 10
           /\ UNCHANGED <<env, slot, ret, v2, counts>>
  BY <1>1, <1>6, LateGoesOn
<1> QED  BY <1>2, <1>3, <1>4, <1>5, <1>6

LEMMA CallsGo ==
  ASSUME SdInv, InitBlocks \/ SdioAccess \/ StopTransmission
  PROVE  GoesOn
<1> USE DEF Commands, LateCommands, Calls, Exchange, Missed, Executed, Go, Return, refused, counts
<1>1. ASSUME NEW cmd \in BlockCommands, Missed(cmd) \/ Executed(cmd), pc \in Calls \ {"started"},
             pc' \in {"idle", "read"} \/ pc \in {"cmd12", "cmd12_again"}, slot' = slot,
                 total' = total,
             pc' \in {"idle", "read", "cmd12_again"},
             remaining' \in {remaining, total}
      PROVE  GoesOn
  <2>1. CardStays
    BY <1>1, ExchangeStays DEF BlockCommands
  <2>2. pc' \notin AfterCsd /\ pc \notin Early \cup Late /\ pc # "idle"
    BY <1>1 DEF AfterCsd, Early, Late, LateSd, LateMmc
  <2> QED  BY <1>1, <2>1, <2>2 DEF GoesOn, Path
<1> USE DEF BlockCommands
<1>2. CASE sd_mmc_cmd13
  <2>1. pc = "cmd13" /\ (Missed("CMD13") \/ Executed("CMD13"))
    BY <1>2 DEF sd_mmc_cmd13
  <2>2. pc' \in {"idle", "read"} /\ UNCHANGED <<slot, total, remaining>>
    BY <1>2 DEF sd_mmc_cmd13
  <2> QED  BY <2>1, <2>2, <1>1
<1>3. CASE InitBlocks /\ pc \in {"read", "write"}
  <2>1. \E cmd \in BlockCommands : Missed(cmd) \/ Executed(cmd)
    <3>1. CASE pc = "read" /\ total > 1
      <4> Missed("MULTI") \/ Executed("MULTI")
        BY <1>3, <3>1 DEF InitBlocks, sd_mmc_cmd13
      <4> QED  OBVIOUS
    <3>2. CASE pc = "read" /\ ~(total > 1)
      <4> Missed("READ1") \/ Executed("READ1")
        BY <1>3, <3>2 DEF InitBlocks, sd_mmc_cmd13
      <4> QED  OBVIOUS
    <3>3. CASE pc = "write" /\ total > 1
      <4> Missed("MULTI") \/ Executed("MULTI")
        BY <1>3, <3>3 DEF InitBlocks, sd_mmc_cmd13
      <4> QED  OBVIOUS
    <3>4. CASE pc = "write" /\ ~(total > 1)
      <4> Missed("WRITE1") \/ Executed("WRITE1")
        BY <1>3, <3>4 DEF InitBlocks, sd_mmc_cmd13
      <4> QED  OBVIOUS
    <3> QED  BY <1>3, <3>1, <3>2, <3>3, <3>4
  <2>2. pc' = "idle" /\ slot' = slot /\ total' = total /\ remaining' \in {remaining, total}
    BY <1>3 DEF InitBlocks, sd_mmc_cmd13
  <2> QED  BY <1>3, <2>1, <2>2, <1>1
<1>4. CASE SdioAccess
  <2>1. pc \in {"IO_DIRECT", "IO_EXTENDED"} /\ (Missed(pc) \/ Executed(pc))
    BY <1>4 DEF SdioAccess, sdio_cmd52, sdio_cmd53
  <2>2. pc' = "idle" /\ UNCHANGED <<slot, total, remaining>>
    BY <1>4 DEF SdioAccess, sdio_cmd52, sdio_cmd53
  <2> QED  BY <2>1, <2>2, <1>1
<1>5. CASE StopTransmission
  <2>1. pc \in {"cmd12", "cmd12_again"} /\ (Missed("CMD12") \/ Executed("CMD12"))
    BY <1>5 DEF StopTransmission
  <2>2. pc' \in {"idle", "cmd12_again"} /\ UNCHANGED <<slot, total, remaining>>
    BY <1>5 DEF StopTransmission
  <2> QED  BY <2>1, <2>2, <1>1
<1> QED  BY <1>2, <1>3, <1>4, <1>5 DEF InitBlocks, sd_mmc_cmd13

LEMMA RunningGoesOn == ASSUME SdInv, Running PROVE GoesOn
<1> QED
  BY EarlyGoes, IdentifyGoes, BusGoes, MmcGoes, LateGoes, CallsGo
  DEF Running, SetWidth, SetSpeed, InstallMmc

-----------------------------------------------------------------------------
(* Every step of the disk keeps the invariant.                             *)

\* A field of the job is set.
LEMMA JobWith ==
  \A j \in JobType :
    /\ \A x \in {"free", "capacity", "check", "checked", "typed", "init", "inited", "started",
                 "failed"} : LET r == [j EXCEPT !.at = x]
         IN  /\ r \in JobType /\ r.at = x /\ r.op = j.op /\ r.first = j.first
             /\ r.count = j.count /\ r.i = j.i /\ r.last = j.last /\ r.lost = j.lost
    /\ \A x \in Int : [j EXCEPT !.last = x] \in JobType
    /\ \A x \in Nat : [j EXCEPT !.i = x] \in JobType
    /\ \A x \in {TRUE, FALSE} : [j EXCEPT !.lost = x] \in JobType
    /\ \A x \in 0..2 : [j EXCEPT !.tries = x] \in JobType
<1> USE DEF JobType
<1>1. ASSUME NEW j \in JobType,
             NEW x \in {"free", "capacity", "check", "checked", "typed", "init", "inited",
                 "started", "failed"}
      PROVE  LET r == [j EXCEPT !.at = x]
             IN  /\ r \in JobType /\ r.at = x /\ r.op = j.op /\ r.first = j.first
                 /\ r.count = j.count /\ r.i = j.i /\ r.last = j.last /\ r.lost = j.lost
  OBVIOUS
<1>2. ASSUME NEW j \in JobType, NEW x \in Int  PROVE [j EXCEPT !.last = x] \in JobType
  OBVIOUS
<1>3. ASSUME NEW j \in JobType, NEW x \in Nat  PROVE [j EXCEPT !.i = x] \in JobType
  OBVIOUS
<1>4. ASSUME NEW j \in JobType, NEW x \in {TRUE, FALSE}  PROVE [j EXCEPT !.lost = x] \in JobType
  OBVIOUS
<1>5. ASSUME NEW j \in JobType, NEW x \in 0..2  PROVE [j EXCEPT !.tries = x] \in JobType
  OBVIOUS
<1> HIDE DEF JobType
<1> QED  BY <1>1, <1>2, <1>3, <1>4, <1>5

\* A card is changed.
LEMMA ChangeKeeps == ASSUME DiskInv, ChangeCard PROVE DiskInv'
<1> USE DEF DiskInv
<1>1. SdInv'
  BY WorldKeeps DEF ChangeCard
<1>2. /\ swapped' = TRUE /\ UNCHANGED <<slot, drv, pc, ret, v2, retry, remaining, total, dir>>
      /\ \E k \in Kinds \cup {"none"} : card' = PowerUp(k)
  BY SdAssumption DEF ChangeCard, World, Remove, Insert, NoCard, host, SdAssumption
<1>3. card'.st = "idle" /\ card'.kind \in Kinds \cup {"none"}
  BY <1>2 DEF PowerUp, Card
<1>4. ~Present'
  BY <1>2, <1>3 DEF Present
<1> DEFINE b == job.op # "none"
<1>5. job' = [job EXCEPT !.lost = b] /\ b \in {TRUE, FALSE} /\ job \in JobType
  BY DEF ChangeCard, JobInv
<1> HIDE DEF b
<1>6. /\ job' \in JobType /\ job'.op = job.op /\ job'.first = job.first /\ job'.count = job.count
      /\ job'.at = job.at /\ job'.i = job.i /\ job'.last = job.last
  <2>1. job' \in JobType
    BY <1>5, JobWith, Zenon
  <2> QED  BY <1>5, <2>1 DEF JobType
<1>7. capacity' = capacity /\ ejected' = ejected
  BY DEF ChangeCard
<1>8. JobInv'
  <2>1. ejected' \in {TRUE, FALSE}
    BY <1>7 DEF JobInv
  <2> QED  BY <1>2, <1>6, <1>7, <2>1 DEF JobInv
<1>9. CapacityInv'
  BY <1>2, <1>4, <1>6, <1>7 DEF CapacityInv
<1>10. MediumInv'
  BY <1>3 DEF MediumInv, ChangeCard, Fresh, Kinds
<1> QED  BY <1>1, <1>8, <1>9, <1>10

\* The stack goes on.
LEMMA ContinueKeeps == ASSUME DiskInv, Continue PROVE DiskInv'
<1> USE DEF DiskInv
<1>1. SdInv' /\ GoesOn
  BY RunningKeeps, RunningGoesOn DEF Continue
<1>2. UNCHANGED <<medium, ejected, job, buff, res, status>>
  BY DEF Continue
<1>3. card'.kind = card.kind /\ swapped' = swapped /\ pc # "idle" /\ pc # "started" /\ Path
      /\ (pc \in Late \cup Calls /\ card.st = "idle" => card'.st = "idle")
  BY <1>1 DEF GoesOn, CardStays
<1>4. pc \in Late \cup Calls /\ ~Present => ~Present'
  BY <1>3 DEF Present
<1>5. capacity' \in Nat
  <2>1. pc \in {"cmd9", "m_cmd9"} /\ pc' # "idle" => card.kind \in Kinds
    BY <1>3 DEF Path, CardInv, SdInv, Sound, Cards
  <2> QED  BY <2>1, DiskAssumption DEF Continue, JobInv, DiskAssumption
<1>6. capacity' = capacity
      \/ (pc \in {"cmd9", "m_cmd9"} /\ pc' # "idle" /\ capacity' = Sectors[card.kind])
  BY DEF Continue
<1>7. slot.state = "READY" => pc \in Calls /\ slot' = slot /\ capacity' = capacity
  <2>1. slot.state = "READY" => pc \in Calls
    BY <1>3 DEF SdInv, SdTyped, SlotInv
  <2> QED  BY <1>3, <1>6, <2>1 DEF Path, Calls
<1>8. JobInv'
  <2>1. ejected' \in {TRUE, FALSE}
    BY <1>2 DEF JobInv
  <2>2. total' \in {0, 1} /\ remaining' <= total'
    BY <1>3 DEF Path, JobInv, SdInv, SdTyped
  <2>3. job.at \notin {"free", "capacity", "check", "typed", "init", "failed", "started"}
    BY <1>3 DEF JobInv
  <2>4. job.at = "checked" => pc' \in Early \cup Late \cup {"idle"}
    BY <1>3 DEF JobInv, Path
  <2>5. job.at = "inited" => pc' \in {"idle", "cmd13", "read", "write"}
    BY <1>3 DEF JobInv, Path
  <2> QED  BY <1>2, <1>5, <2>1, <2>2, <2>3, <2>4, <2>5 DEF JobInv
<1>9. CapacityInv'
  <2>1. job.last = -1 \/ (slot'.state = "READY" /\ job.last = capacity' - 1)
    BY <1>7 DEF CapacityInv
  <2>2. ASSUME slot'.state = "READY" \/ pc' \in AfterCsd, Present', card'.kind \in Memory
        PROVE  capacity' = Sectors[card'.kind]
    <3>1. slot.state = "READY" \/ pc \in AfterCsd \cup {"cmd9", "m_cmd9"} \/ (pc = "cmd3" /\ ~isSd)
      BY <1>3, <2>2 DEF Path
    <3>2. pc \in Late \cup Calls
      BY <1>7, <3>1 DEF AfterCsd, Late, LateSd, LateMmc
    <3>3. Present
      BY <1>4, <2>2, <3>2
    <3>4. CASE slot.state = "READY"
      BY <1>3, <1>7, <2>2, <3>3, <3>4 DEF CapacityInv
    <3>5. CASE pc \in AfterCsd
      BY <1>3, <1>6, <2>2, <3>3, <3>5 DEF CapacityInv, AfterCsd
    <3>6. CASE pc \in {"cmd9", "m_cmd9"} /\ slot.state # "READY"
      <4>1. slot'.state # "READY"
        BY <1>3, <3>6 DEF Path, AfterCsd
      <4>2. pc' # "idle"
        BY <2>2, <4>1 DEF AfterCsd, Late, LateSd, LateMmc
      <4> QED  BY <1>3, <3>6, <4>2 DEF Continue
    <3>7. CASE pc = "cmd3" /\ ~isSd
      <4>1. card.kind = "SDIO"
        BY <3>3, <3>7 DEF SdInv, StageInv, Late, LateSd
      <4> QED  BY <1>3, <2>2, <4>1 DEF Memory, SdMem, Mmc, Mmc4
    <3> QED  BY <3>1, <3>4, <3>5, <3>6, <3>7
  <2>3. ASSUME job.lost = TRUE, slot'.state = "READY", job.at = "capacity" \/ job.last >= 0
        PROVE  ~Present'
    <3>1. job.last >= 0 /\ slot.state = "READY"
      BY <1>3, <2>3 DEF JobInv, CapacityInv
    <3>2. ~Present
      BY <2>3, <3>1 DEF CapacityInv
    <3> QED  BY <1>4, <1>7, <3>1, <3>2
  <2> QED  BY <1>2, <2>1, <2>2, <2>3 DEF CapacityInv
<1>10. MediumInv'
  BY <1>2, <1>3 DEF MediumInv
<1> QED  BY <1>1, <1>8, <1>9, <1>10

\* The job moves on, and with it at most a call that only selects the slot.
LEMMA JobGoes ==
  ASSUME DiskInv, SdInv', UNCHANGED <<card, swapped, medium, capacity, ejected>>,
         total' \in {0, 1}, remaining' <= total',
         pc = "idle", slot' = slot \/ slot'.state = "INIT",
         NEW next \in {"check", "checked", "typed", "init", "inited", "started", "failed"},
         job' \in JobType, job'.at = next, job'.op = job.op, job'.first = job.first,
         job'.count = job.count, job'.i = job.i, job'.last = job.last, job'.lost = job.lost,
         job.op # "none", job.last = -1 \/ slot' = slot,
         next \in {"init", "inited", "started", "failed"} =>
           job.op \in Transfers /\ job.first + job.count <= job.last + 1,
         next \in {"inited", "started", "failed"} => job.i < job.count,
         CASE next = "checked" -> pc' \in {"idle", "cmd52"}
           [] next = "inited"  -> pc' \in {"idle", "cmd13", "write"}
           [] next = "started" -> pc' = "started"
           [] OTHER -> pc' = "idle"
  PROVE  DiskInv'
<1> USE DEF DiskInv
<1>1. JobInv'
  <2>1. ejected' \in {TRUE, FALSE}
    BY DEF JobInv
  <2>2. next = "checked" => pc' \in Early \cup Late \cup {"idle"}
    BY DEF Early
  <2> QED  BY <2>1, <2>2 DEF JobInv
<1>2. CapacityInv'
  <2>1. pc' \notin AfterCsd
    BY DEF AfterCsd, Late, LateSd, LateMmc
  <2>2. Present' <=> Present
    BY DEF Present
  <2>3. job.last = -1 \/ (slot'.state = "READY" /\ job.last = capacity - 1)
    BY DEF CapacityInv
  <2>4. slot'.state = "READY" /\ job'.lost = TRUE /\ job'.last >= 0 => ~Present
    BY <2>3 DEF CapacityInv
  <2>5. slot'.state = "READY" => (Present /\ card.kind \in Memory => capacity = Sectors[card.kind])
    BY DEF CapacityInv
  <2> QED  BY <2>1, <2>2, <2>3, <2>4, <2>5 DEF CapacityInv
<1>3. MediumInv'
  BY DEF MediumInv
<1> QED  BY <1>1, <1>2, <1>3

LEMMA JobMoves ==
  ASSUME DiskInv, SdInv', UNCHANGED <<card, swapped, medium, capacity, ejected>>,
         total' \in {0, 1}, remaining' <= total',
         pc = "idle", slot' = slot \/ slot'.state = "INIT",
         NEW next \in {"check", "checked", "typed", "init", "inited", "started", "failed"},
         job' = [job EXCEPT !.at = next],
         job.op # "none", job.last = -1 \/ slot' = slot,
         next \in {"init", "inited", "started", "failed"} =>
           job.op \in Transfers /\ job.first + job.count <= job.last + 1,
         next \in {"inited", "started", "failed"} => job.i < job.count,
         CASE next = "checked" -> pc' \in {"idle", "cmd52"}
           [] next = "inited"  -> pc' \in {"idle", "cmd13", "write"}
           [] next = "started" -> pc' = "started"
           [] OTHER -> pc' = "idle"
  PROVE  DiskInv'
<1>1. job \in JobType
  BY DEF DiskInv, JobInv
<1>2. /\ job' \in JobType /\ job'.at = next /\ job'.op = job.op /\ job'.first = job.first
      /\ job'.count = job.count /\ job'.i = job.i /\ job'.last = job.last /\ job'.lost = job.lost
  BY <1>1 DEF JobType
<1> QED  BY <1>2, JobGoes

\* The calls that only select the slot, as the disk makes them.
LEMMA GetMoves ==
  ASSUME DiskInv, sd_mmc_get
  PROVE  /\ SdInv' /\ UNCHANGED <<card, swapped, total, remaining>> /\ pc = "idle" /\ pc' = "idle"
         /\ slot' = slot \/ slot'.state = "INIT"
         /\ ret' = "OK" => slot' = slot /\ slot.state = "READY"
<1>1. SdInv'
  BY GetKeeps DEF DiskInv
<1>2. pc = "idle" /\ slot' = sd_mmc_select_slot /\ UNCHANGED <<card, swapped, total,
          remaining>> /\ pc' = pc
      /\ ret' = (IF slot'.state = "INIT" THEN "UNKNOWN" ELSE "OK")
  BY DEF sd_mmc_get, Free, env, counts
<1> QED  BY <1>1, <1>2, Selecting DEF DiskInv

LEMMA CapacityKeeps == ASSUME DiskInv, sd_mmc_read_capacity PROVE DiskInv'
<1> USE DEF DiskInv
<1> DEFINE last == (IF ret' = "OK" THEN capacity ELSE 0) - 1
<1>1. /\ SdInv' /\ UNCHANGED <<card, swapped, total, remaining>> /\ pc' = "idle"
      /\ slot' = slot \/ slot'.state = "INIT"
      /\ ret' = "OK" => slot' = slot /\ slot.state = "READY"
  BY GetMoves DEF sd_mmc_read_capacity
<1>2. job' = [job EXCEPT !.at = "check", !.last = last] /\ job.at = "capacity"
      /\ UNCHANGED <<medium, capacity, ejected>>
  BY DEF sd_mmc_read_capacity
<1>3. capacity \in Nat /\ job \in JobType /\ last \in Int /\ last >= -1
  BY DEF JobInv
<1>4. job' \in JobType
  <2>1. [job EXCEPT !.at = "check"] \in JobType
    BY <1>3 DEF JobType
  <2>2. [[job EXCEPT !.at = "check"] EXCEPT !.last = last] \in JobType
    BY <1>3, <2>1, JobWith, Zenon
  <2>3. job' = [[job EXCEPT !.at = "check"] EXCEPT !.last = last]
    BY <1>2, Zenon
  <2> QED  BY <2>2, <2>3
<1>5. /\ job'.at = "check" /\ job'.op = job.op /\ job'.first = job.first /\ job'.count = job.count
      /\ job'.i = job.i /\ job'.last = last /\ job'.lost = job.lost
  BY <1>2, <1>3 DEF JobType
<1>6. JobInv'
  <2>1. ejected' \in {TRUE, FALSE}
    BY <1>2 DEF JobInv
  <2> QED  BY <1>1, <1>2, <1>4, <1>5, <2>1 DEF JobInv
<1>7. CapacityInv'
  <2>1. last = -1 \/ (slot' = slot /\ slot.state = "READY" /\ last = capacity - 1)
    BY <1>1, <1>3
  <2>2. (Present' <=> Present) /\ pc' \notin AfterCsd
    BY <1>1 DEF Present, AfterCsd, Late, LateSd, LateMmc
  <2>3. slot'.state = "READY" => slot.state = "READY"
    BY <1>1
  <2>4. slot'.state = "READY" => (Present /\ card.kind \in Memory => capacity = Sectors[card.kind])
    BY <2>3 DEF CapacityInv
  <2>5. slot'.state = "READY" /\ job.lost = TRUE => ~Present
    BY <1>2, <2>3 DEF CapacityInv
  <2> QED  BY <1>1, <1>2, <1>5, <2>1, <2>2, <2>4, <2>5 DEF CapacityInv
<1>8. MediumInv'
  BY <1>1, <1>2 DEF MediumInv
<1> QED  BY <1>1, <1>6, <1>7, <1>8

LEMMA ReadyKeeps == ASSUME DiskInv, TestReady PROVE DiskInv'
<1> USE DEF DiskInv
<1>1. CASE Call("check", sd_mmc_check, "checked")
  <2>1. SdInv' /\ job.at = "check" /\ pc = "idle" /\ job' = [job EXCEPT !.at = "checked"]
        /\ UNCHANGED <<medium, capacity, ejected>>
    BY <1>1, CheckKeeps DEF Call
  <2>2. UNCHANGED <<card, total, remaining>>
    BY <1>1 DEF Call, sd_mmc_check, counts
  <2>3. (slot'.state = "INIT" /\ pc' = "cmd52")
            \/ (slot' = slot /\ swapped' = swapped /\ pc' = "idle")
    <3> DEFINE s == sd_mmc_select_slot
    <3>1. s \in SlotType /\ s.state \in {"INIT", "READY"} /\ (s.state = "READY" => s = slot)
      BY <2>1, Selecting
    <3>2. CASE s.state = "INIT"
      BY <1>1, <3>1, <3>2 DEF Call, sd_mmc_check, TrySd, SlotType
    <3>3. CASE s.state = "READY"
      BY <1>1, <2>1, <3>1, <3>3 DEF Call, sd_mmc_check
    <3> QED  BY <3>1, <3>2, <3>3
  <2>4. job.op # "none" /\ total' \in {0, 1} /\ remaining' <= total'
    BY <2>1, <2>2 DEF JobInv
  <2>5. CASE slot' = slot /\ swapped' = swapped /\ pc' = "idle"
    BY <2>1, <2>2, <2>4, <2>5, JobMoves
  <2>6. CASE slot'.state = "INIT" /\ pc' = "cmd52"
    <3>1. slot.state # "READY"
      BY <1>1, <2>6 DEF Call, sd_mmc_check, sd_mmc_select_slot
    <3>2. job.last = -1
      BY <3>1 DEF CapacityInv
    <3>3. /\ job' \in JobType /\ job'.at = "checked" /\ job'.op = job.op /\ job'.first = job.first
          /\ job'.count = job.count /\ job'.i = job.i /\ job'.last = job.last
      BY <2>1 DEF JobInv, JobType
    <3>4. JobInv'
      <4>1. ejected' \in {TRUE, FALSE} /\ pc' \in Early
        BY <2>1, <2>6 DEF JobInv, Early
      <4> QED  BY <2>1, <2>4, <3>3, <4>1 DEF JobInv
    <3>5. CapacityInv'
      BY <2>6, <3>2, <3>3 DEF CapacityInv, AfterCsd, Late, LateSd, LateMmc
    <3>6. MediumInv'
      BY <2>1, <2>2 DEF MediumInv
    <3> QED  BY <2>1, <3>4, <3>5, <3>6
  <2> QED  BY <2>3, <2>5, <2>6
<1>2. CASE ret = "OK" /\ job.op # "wait" /\ Call("checked", sd_mmc_get, "typed")
  <2>1. /\ SdInv' /\ UNCHANGED <<card, swapped, total, remaining>> /\ pc = "idle" /\ pc' = "idle"
        /\ slot' = slot \/ slot'.state = "INIT"
    BY <1>2, GetMoves DEF Call
  <2>2. job' = [job EXCEPT !.at = "typed"] /\ UNCHANGED <<medium, capacity, ejected>>
        /\ job.at = "checked"
    BY <1>2 DEF Call
  <2>3. slot' = slot
    <3>1. slot.state = "READY"
      BY <1>2, <2>1 DEF SdInv, SlotInv
    <3> QED  BY <1>2, <3>1 DEF Call, sd_mmc_get, sd_mmc_select_slot
  <2>4. job.op # "none" /\ total' \in {0, 1} /\ remaining' <= total'
    BY <2>1, <2>2 DEF JobInv
  <2> QED  BY <2>1, <2>2, <2>3, <2>4, JobMoves
<1> QED  BY <1>1, <1>2 DEF TestReady

\* The request is over.
LEMMA FinishKeeps ==
  ASSUME DiskInv, job' = NoJob, pc = "idle", UNCHANGED <<sdVars, medium, capacity, ejected>>
  PROVE  DiskInv'
<1> USE DEF DiskInv
<1>1. SdInv' /\ UNCHANGED <<card, swapped, slot, pc, total, remaining>>
  BY SdStutter DEF sdVars, env, host
<1>2. job' \in JobType
  BY DEF NoJob, JobType
<1>7. job'.lost = FALSE
  BY DEF NoJob
<1>6. job'.op = "none" /\ job'.at = "free" /\ job'.count = 0 /\ job'.i = 0 /\ job'.last = -1
  BY DEF NoJob
<1>3. JobInv'
  <2>1. ejected' \in {TRUE, FALSE}
    BY DEF JobInv
  <2>2. capacity' \in Nat /\ total' \in {0, 1} /\ remaining' <= total' /\ pc' = "idle"
    BY <1>1 DEF JobInv
  <2>3. job'.op \notin Transfers /\ job'.i <= job'.count
        /\ job'.at \notin {"capacity", "init", "inited", "started", "failed", "checked", "check"}
    BY <1>6 DEF Transfers
  <2> QED  BY <1>2, <1>6, <2>1, <2>2, <2>3 DEF JobInv
<1>4. CapacityInv'
  <2>1. Present' <=> Present
    BY <1>1 DEF Present
  <2> QED  BY <1>1, <1>6, <1>7, <2>1 DEF CapacityInv
<1>5. MediumInv'
  BY <1>1 DEF MediumInv
<1> QED  BY <1>1, <1>3, <1>4, <1>5

\* A request begins.
LEMMA BeginKeeps ==
  ASSUME DiskInv, job.at = "free", pc = "idle", UNCHANGED <<sdVars, medium, capacity, ejected>>,
         job' \in JobType, job'.op # "none", job'.last = -1, job'.lost = FALSE, job'.i = 0,
         job'.at = (IF job'.op \in Transfers THEN "capacity" ELSE "check"),
         job'.op \in Transfers => job'.count >= 1
  PROVE  DiskInv'
<1> USE DEF DiskInv
<1>1. SdInv' /\ UNCHANGED <<card, swapped, slot, pc, total, remaining>>
  BY SdStutter DEF sdVars, env, host
<1>2. JobInv'
  <2>1. ejected' \in {TRUE, FALSE}
    BY DEF JobInv
  <2>2. job'.i \in Nat /\ job'.count \in Nat /\ job'.i <= job'.count
    BY DEF JobType
  <2> QED  BY <1>1, <2>1, <2>2 DEF JobInv
<1>3. CapacityInv'
  <2>1. Present' <=> Present
    BY <1>1 DEF Present
  <2> QED  BY <1>1, <2>1 DEF CapacityInv
<1>4. MediumInv'
  BY <1>1 DEF MediumInv
<1> QED  BY <1>1, <1>2, <1>3, <1>4

LEMMA AskType ==
  ASSUME NEW op \in {"initialize", "status", "sync", "wait", "read", "write"}, faults \in Nat
  PROVE  /\ Ask(op) \in JobType /\ Ask(op).op = op /\ Ask(op).at = "check" /\ Ask(op).last = -1
         /\ Ask(op).lost = FALSE /\ Ask(op).i = 0
<1>1. Ask(op) = [NoJob EXCEPT !.op = op, !.at = "check", !.tries = 2, !.faults = faults]
  BY DEF Ask
<1>2. NoJob \in JobType
  BY DEF NoJob, JobType
<1>3. [NoJob EXCEPT !.op = op] \in JobType
  BY <1>2 DEF JobType
<1>4. [NoJob EXCEPT !.op = op, !.at = "check"] \in JobType
  BY <1>3, JobWith, Zenon
<1>5. [NoJob EXCEPT !.op = op, !.at = "check", !.tries = 2] \in JobType
  <2> 2 \in 0..2
    OBVIOUS
  <2> QED  BY <1>4, JobWith, Zenon
<1>6. Ask(op) \in JobType
  BY <1>1, <1>5 DEF JobType
<1>7. Ask(op).op = op /\ Ask(op).at = "check" /\ Ask(op).last = -1 /\ Ask(op).i = 0
  BY <1>1 DEF NoJob
<1>8. Ask(op).lost = FALSE
  BY <1>1 DEF NoJob
<1> QED  BY <1>6, <1>7, <1>8

LEMMA BeginsKeep == ASSUME DiskInv, Begin \/ BeginTransfer \/ sd_mmc_unload PROVE DiskInv'
<1> faults \in Nat
  BY SdAssumption DEF DiskInv, SdInv, SdTyped, SdAssumption
<1>1. CASE Begin
  <2>1. PICK op \in {"initialize", "status", "sync", "wait"} : job' = Ask(op)
    BY <1>1 DEF Begin
  <2>2. /\ job' \in JobType /\ job'.op = op /\ job'.at = "check" /\ job'.last = -1
        /\ job'.lost = FALSE /\ job'.i = 0
    BY <2>1, AskType
  <2> QED  BY <1>1, <2>2, BeginKeeps DEF Begin, Transfers
<1>2. CASE BeginTransfer
  <2>1. PICK r \in Reqs : job' = [Ask(r.op) EXCEPT !.at = "capacity", !.first = r.first,
            !.count = r.count]
    BY <1>2 DEF BeginTransfer
  <2>2. r.op \in {"read", "write"} /\ r.first \in Nat /\ r.count \in Nat \ {0}
    BY DiskAssumption DEF DiskAssumption
  <2>3. job' = [op |-> r.op, first |-> r.first, count |-> r.count, at |-> "capacity", i |-> 0,
                tries |-> 2, last |-> -1, lost |-> FALSE, faults |-> faults]
    BY <2>1 DEF Ask, NoJob
  <2>4. job' \in JobType
    BY <2>2, <2>3 DEF JobType
  <2>5. job'.op \in Transfers /\ job'.at = "capacity" /\ job'.last = -1 /\ job'.lost = FALSE
        /\ job'.i = 0 /\ job'.count >= 1
    BY <2>2, <2>3 DEF Transfers
  <2>6. job'.op # "none"
    BY <2>5 DEF Transfers
  <2> QED  BY <1>2, <2>4, <2>5, <2>6, BeginKeeps DEF BeginTransfer
<1>3. CASE sd_mmc_unload
  <2>1. SdInv' /\ UNCHANGED <<card, swapped, slot, pc, total, remaining, job, medium, capacity>>
    BY <1>3, SdStutter DEF sd_mmc_unload, DiskInv, sdVars, env, host
  <2>2. ejected' \in {TRUE, FALSE}
    BY <1>3 DEF sd_mmc_unload
  <2>3. JobInv'
    BY <2>1, <2>2 DEF DiskInv, JobInv
  <2>4. (Present' <=> Present) /\ MediumInv'
    BY <2>1 DEF DiskInv, Present, MediumInv
  <2>5. CapacityInv'
    BY <2>1, <2>4 DEF DiskInv, CapacityInv
  <2> QED  BY <2>1, <2>3, <2>4, <2>5 DEF DiskInv
<1> QED  BY <1>1, <1>2, <1>3

LEMMA ProceedKeeps == ASSUME DiskInv, Proceed PROVE DiskInv'
<1>1. pc = "idle" /\ UNCHANGED <<sdVars, medium, capacity, ejected>>
          /\ job.at \in {"typed", "checked"}
  BY DEF Proceed, Tested
<1>2. /\ SdInv' /\ UNCHANGED <<card, swapped, slot, pc, total, remaining>>
      /\ total \in {0, 1} /\ remaining <= total
  BY <1>1, SdStutter DEF DiskInv, JobInv, sdVars, env, host
<1>3. job \in JobType /\ job.op # "none"
  BY <1>1 DEF DiskInv, JobInv
<1>4. ASSUME job' = NoJob  PROVE DiskInv'
  BY <1>1, <1>4, FinishKeeps
<1>5. ASSUME job' = [job EXCEPT !.at = "check"]  PROVE DiskInv'
  BY <1>1, <1>2, <1>3, <1>5, JobMoves
<1>6. ASSUME job' = [job EXCEPT !.at = "check", !.tries = @ - 1], job.tries > 1  PROVE DiskInv'
  <2>1. job' = [job EXCEPT !.at = "check", !.tries = job.tries - 1] /\ job.tries - 1 \in 0..2
    BY <1>3, <1>6 DEF JobType
  <2>2. [job EXCEPT !.at = "check"] \in JobType
    BY <1>3 DEF JobType
  <2>3. job' \in JobType
    BY <2>1, <2>2, JobWith, Zenon
  <2>4. /\ job'.at = "check" /\ job'.op = job.op /\ job'.first = job.first /\ job'.count = job.count
        /\ job'.i = job.i /\ job'.last = job.last /\ job'.lost = job.lost
    BY <1>3, <2>1 DEF JobType
  <2> QED  BY <1>1, <1>2, <1>3, <2>3, <2>4, JobGoes
<1>7. ASSUME ~TooFar, job' = [job EXCEPT !.at = "init"], job.op \in Transfers  PROVE DiskInv'
  <2>1. job.first + job.count <= job.last + 1
    BY <1>3, <1>7 DEF TooFar, JobType
  <2> QED  BY <1>1, <1>2, <1>3, <1>7, <2>1, JobMoves
<1>8. CASE job.op = "initialize"
  BY <1>4, <1>6, <1>8 DEF Proceed, Finish
<1>9. CASE job.op \in {"status", "sync"}
  BY <1>4, <1>9 DEF Proceed, Finish
<1>10. CASE job.op = "wait"
  BY <1>4, <1>5, <1>10 DEF Proceed, Waited, Finish, Goto
<1>11. CASE job.op \in Transfers
  BY <1>4, <1>7, <1>11 DEF Proceed, Finish, Goto, Transfers
<1> QED  BY <1>3, <1>8, <1>9, <1>10, <1>11 DEF JobType, Transfers

\* A request that has come past the check of its address holds an installed card.
LEMMA PastTheCheck ==
  ASSUME DiskInv, job.at \in {"init", "inited", "started", "failed"}
  PROVE  /\ job \in JobType /\ job.op \in Transfers /\ slot.state = "READY"
         /\ job.last >= 0 /\ job.last = capacity - 1 /\ job.first + job.count <= capacity
<1>1. job \in JobType /\ job.op \in Transfers /\ job.count >= 1 /\ capacity \in Nat
      /\ job.first + job.count <= job.last + 1
  BY DEF DiskInv, JobInv
<1>2. job.first \in Nat /\ job.count \in Nat /\ job.last \in Int
  BY <1>1 DEF JobType
<1>3. job.last >= 0
  BY <1>1, <1>2
<1>4. slot.state = "READY" /\ job.last = capacity - 1
  BY <1>3 DEF DiskInv, CapacityInv
<1> QED  BY <1>1, <1>2, <1>3, <1>4

LEMMA InitKeeps == ASSUME DiskInv, InitTransfer PROVE DiskInv'
<1>1. /\ job.at = "init" /\ job.i < job.count /\ job' = [job EXCEPT !.at = "inited"]
      /\ UNCHANGED <<medium, capacity, ejected>>
      /\ CallOn("cmd13", 1, "read") \/ CallOn("write", 1, "write")
  BY DEF InitTransfer, Call, sd_mmc_init_read_blocks, sd_mmc_init_write_blocks
<1>2. slot.state = "READY" /\ job.op \in Transfers /\ job.op # "none"
      /\ job.first + job.count <= job.last + 1
  BY <1>1, PastTheCheck DEF DiskInv, JobInv, Transfers
<1>3. SdInv'
  BY <1>1, CallOnKeeps DEF DiskInv, Calls
<1>4. /\ pc = "idle" /\ slot' = slot /\ UNCHANGED <<card, swapped, remaining>>
      /\ pc' \in {"cmd13", "write"} /\ total' = 1
  BY <1>1, <1>2 DEF CallOn, Free, sd_mmc_select_slot, env
<1>5. total' \in {0, 1} /\ remaining' <= total'
  BY <1>4 DEF DiskInv, JobInv, SdInv, SdTyped
<1> QED  BY <1>1, <1>2, <1>3, <1>4, <1>5, JobMoves

LEMMA StartsKeep == ASSUME DiskInv, StartTransfer PROVE DiskInv'
<1>1. /\ job.at = "inited" /\ job' = [job EXCEPT !.at = "started"] /\ sd_mmc_start_blocks(1)
      /\ UNCHANGED <<medium, capacity, ejected>>
  BY DEF StartTransfer, Call
<1>2. job.op \in Transfers /\ job.op # "none" /\ job.i < job.count
      /\ job.first + job.count <= job.last + 1
  BY <1>1 DEF DiskInv, JobInv, Transfers
<1>3. SdInv'
  BY <1>1, StartKeeps DEF DiskInv
<1>4. /\ pc = "idle" /\ slot' = slot /\ UNCHANGED <<card, swapped, total>> /\ pc' = "started"
      /\ remaining' = remaining - 1
  BY <1>1 DEF sd_mmc_start_blocks, env
<1>5. total' \in {0, 1} /\ remaining' <= total'
  BY <1>4 DEF DiskInv, JobInv, SdInv, SdTyped
<1> QED  BY <1>1, <1>2, <1>3, <1>4, <1>5, JobMoves

\* What the wait for a block does to the stack.
LEMMA WaitDoes ==
  ASSUME DiskInv, WaitTransfer
  PROVE  /\ SdInv' /\ CardStays /\ pc = "started" /\ pc' = "idle" /\ slot' = slot
         /\ UNCHANGED <<total, remaining>> /\ ret' \in {"OK", "COMM"}
         /\ ret' = "OK" => Answers("DATA") /\ faults' = faults
         /\ ret' # "OK" /\ faults' # faults => Answers("DATA")
<1>1. sd_mmc_wait_end_of_blocks(FALSE)
  BY DEF WaitTransfer
<1>2. SdInv'
  BY <1>1, CallsKeep DEF DiskInv
<1>3. pc = "started" /\ (Missed("DATA") \/ Executed("DATA"))
  BY <1>1 DEF sd_mmc_wait_end_of_blocks, Exchange, Missed, Executed
<1>4. CardStays
  BY <1>3, ExchangeStays DEF DiskInv, Commands, LateCommands
<1>5. total \in {0, 1}
  BY DEF DiskInv, JobInv
<1>6. slot' = slot /\ pc' = "idle" /\ UNCHANGED <<total, remaining>> /\ ret' \in {"OK", "COMM"}
  BY <1>1, <1>5 DEF sd_mmc_wait_end_of_blocks, Exchange, Return, counts
<1>7. ret' = "OK" => Answers("DATA") /\ faults' = faults
  BY <1>1 DEF sd_mmc_wait_end_of_blocks, Exchange, Return
<1>8. faults' # faults => Answers("DATA")
  BY <1>1 DEF sd_mmc_wait_end_of_blocks, Exchange
<1> QED  BY <1>2, <1>3, <1>4, <1>6, <1>7, <1>8

LEMMA WaitKeeps == ASSUME DiskInv, WaitTransfer PROVE DiskInv'
<1>1. /\ SdInv' /\ CardStays /\ pc = "started" /\ pc' = "idle" /\ slot' = slot
      /\ UNCHANGED <<total, remaining>>
  BY WaitDoes
<1>2. job.at = "started" /\ UNCHANGED <<capacity, ejected>>
  BY DEF WaitTransfer
<1>3. /\ job \in JobType /\ job.op \in Transfers /\ slot.state = "READY"
      /\ job.last >= 0 /\ job.last = capacity - 1 /\ job.first + job.count <= capacity
  BY <1>2, PastTheCheck
<1>4. job.i < job.count /\ job.count >= 1 /\ capacity \in Nat /\ job.op # "none"
  BY <1>2, <1>3 DEF DiskInv, JobInv, Transfers
<1>5. /\ job' \in JobType /\ job'.at \in {"init", "failed"} /\ job'.op = job.op
      /\ job'.first = job.first /\ job'.count = job.count /\ job'.last = job.last
      /\ job'.lost = job.lost
      /\ job'.i <= job.count /\ (job'.at = "failed" => job'.i < job.count)
  <2>1. CASE ret' = "OK"
    <3>1. job' = [job EXCEPT !.at = "init", !.i = job.i + 1] /\ job.i + 1 \in Nat
      BY <1>3, <2>1 DEF WaitTransfer, JobType
    <3>2. [job EXCEPT !.at = "init"] \in JobType
      BY <1>3 DEF JobType
    <3>3. job' \in JobType
      BY <3>1, <3>2, JobWith, Zenon
    <3>4. /\ job'.at = "init" /\ job'.op = job.op /\ job'.first = job.first
             /\ job'.count = job.count
          /\ job'.last = job.last /\ job'.lost = job.lost /\ job'.i = job.i + 1
      BY <1>3, <3>1 DEF JobType
    <3>5. job'.i <= job.count
      BY <1>3, <1>4, <3>4 DEF JobType
    <3> QED  BY <3>3, <3>4, <3>5
  <2>2. CASE ret' # "OK"
    <3>1. job' = [job EXCEPT !.at = "failed"]
      BY <2>2 DEF WaitTransfer
    <3>2. /\ job' \in JobType /\ job'.at = "failed" /\ job'.op = job.op /\ job'.first = job.first
          /\ job'.count = job.count /\ job'.last = job.last /\ job'.lost = job.lost
             /\ job'.i = job.i
      BY <1>3, <3>1 DEF JobType
    <3>3. job.i <= job.count
      BY DEF DiskInv, JobInv
    <3> QED  BY <1>4, <3>2, <3>3
  <2> QED  BY <2>1, <2>2
<1>6. JobInv'
  <2>1. ejected' \in {TRUE, FALSE}
    BY <1>2 DEF DiskInv, JobInv
  <2>2. total' \in {0, 1} /\ remaining' <= total' /\ capacity' \in Nat
    BY <1>1, <1>2 DEF DiskInv, JobInv
  <2>3. job'.first + job'.count <= job'.last + 1
    <3>1. job.first + job.count <= capacity /\ job.last = capacity - 1 /\ capacity \in Nat
      BY <1>3, <1>4
    <3>2. job.first + job.count <= job.last + 1
      BY <3>1
    <3> QED  BY <1>5, <3>2
  <2> QED  BY <1>1, <1>3, <1>4, <1>5, <2>1, <2>2, <2>3 DEF JobInv
<1>7. CapacityInv'
  <2>1. Present' => Present
    BY <1>1 DEF CardStays, Present, Calls
  <2>2. pc' \notin AfterCsd
    BY <1>1 DEF AfterCsd, Late, LateSd, LateMmc
  <2>3. card'.kind = card.kind
    BY <1>1 DEF CardStays
  <2>4. Present /\ card.kind \in Memory => capacity = Sectors[card.kind]
    BY <1>3 DEF DiskInv, CapacityInv
  <2>5. job.lost = TRUE => ~Present
    BY <1>3 DEF DiskInv, CapacityInv
  <2> QED  BY <1>1, <1>2, <1>3, <1>5, <2>1, <2>2, <2>3, <2>4, <2>5 DEF CapacityInv
<1>8. MediumInv'
  <2> DEFINE new == [medium EXCEPT ![Block] = Written(job.first + job.i)]
  <2>1. card'.kind = card.kind
    BY <1>1 DEF CardStays
  <2>2. medium' = medium \/ (medium' = new /\ Answers("DATA"))
    BY WaitDoes DEF WaitTransfer
  <2>3. Answers("DATA") => card.kind # "none"
    BY DEF Answers, Executes, DiskInv, SdInv, CardInv, Sound
  <2>4. DOMAIN new = DOMAIN medium
    OBVIOUS
  <2> QED  BY <2>1, <2>2, <2>3, <2>4 DEF DiskInv, MediumInv
<1> QED  BY <1>1, <1>6, <1>7, <1>8 DEF DiskInv

LEMMA EndKeeps == ASSUME DiskInv, EndTransfer PROVE DiskInv'
<1> QED  BY FinishKeeps DEF EndTransfer, Finish

LEMMA DiskStart == DiskInit => DiskInv
<1> SUFFICES ASSUME DiskInit PROVE DiskInv
  OBVIOUS
<1>1. SdInv /\ card.kind = "none" /\ pc = "idle" /\ slot.state = "NO_CARD" /\ total = 0
          /\ remaining = 0
  BY SdStart DEF DiskInit, SdInit, NoCard, PowerUp, Card
<1>2. job = NoJob /\ medium = <<>> /\ capacity = 0 /\ ejected \in {TRUE, FALSE}
  BY DEF DiskInit
<1>3. job \in JobType
  BY <1>2 DEF NoJob, JobType
<1>4. job.op = "none" /\ job.at = "free" /\ job.count = 0 /\ job.i = 0 /\ job.last = -1
  BY <1>2 DEF NoJob
<1>5. JobInv
  <2>1. job.op \notin Transfers /\ job.i <= job.count
        /\ job.at \notin {"capacity", "init", "inited", "started", "failed", "checked", "check"}
    BY <1>4 DEF Transfers
  <2>2. total \in {0, 1} /\ remaining <= total /\ capacity \in Nat
    BY <1>1, <1>2
  <2> QED  BY <1>1, <1>2, <1>3, <1>4, <2>1, <2>2 DEF JobInv
<1>6. CapacityInv
  BY <1>1, <1>4 DEF CapacityInv, AfterCsd, Late, LateSd, LateMmc
<1>7. MediumInv
  BY <1>1, <1>2 DEF MediumInv
<1> QED  BY <1>1, <1>5, <1>6, <1>7 DEF DiskInv

LEMMA DiskStutter == ASSUME DiskInv, UNCHANGED allVars PROVE DiskInv'
<1>1. UNCHANGED <<medium, capacity, ejected, job, sdVars>>
  BY DEF allVars, diskVars
<1>2. SdInv' /\ UNCHANGED <<card, swapped, slot, pc, total, remaining>>
  BY <1>1, SdStutter DEF DiskInv, sdVars, env, host
<1>3. ejected' \in {TRUE, FALSE}
  BY <1>1 DEF DiskInv, JobInv
<1>4. JobInv'
  BY <1>1, <1>2, <1>3 DEF DiskInv, JobInv
<1>5. (Present' <=> Present) /\ MediumInv'
  BY <1>1, <1>2 DEF DiskInv, Present, MediumInv
<1>6. CapacityInv'
  BY <1>1, <1>2, <1>5 DEF DiskInv, CapacityInv
<1> QED  BY <1>2, <1>4, <1>5, <1>6 DEF DiskInv

LEMMA DiskSteps == ASSUME DiskInv, [DiskNext]_allVars PROVE DiskInv'
<1> QED
  BY ChangeKeeps, ContinueKeeps, CapacityKeeps, ReadyKeeps, BeginsKeep, ProceedKeeps, InitKeeps,
     StartsKeep, WaitKeeps, EndKeeps, DiskStutter DEF DiskNext, Host

\* And that of the disk running on it, with cards that are pulled or changed at any time.
THEOREM DiskAlways == DiskSpec => []DiskInv
<1> QED  BY DiskStart, DiskSteps, PTL DEF DiskSpec

-----------------------------------------------------------------------------
(* What the disk promises.                                                 *)

\* The types, and the ranges of the counters and of the last sector.
THEOREM DiskAlwaysTyped == DiskSpec => []DiskTypeOK
<1>1. DiskInv => DiskTypeOK
  <2> SUFFICES ASSUME DiskInv PROVE DiskTypeOK
    OBVIOUS
  <2>1. TypeOK
    <3>1. card \in Cards
      BY DEF DiskInv, SdInv, CardInv, Sound
    <3>2. {swapped, v2} \subseteq BOOLEAN
      BY DEF DiskInv, SdInv, SdTyped
    <3>3. remaining \in 0..total
      BY DEF DiskInv, SdInv, SdTyped, JobInv
    <3> QED  BY <3>1, <3>2, <3>3 DEF DiskInv, SdInv, SdTyped, TypeOK
  <2>2. job \in JobType /\ capacity \in Nat /\ ejected \in BOOLEAN /\ job.i <= job.count
    BY DEF DiskInv, JobInv
  <2>3. job.last \in -1..(capacity - 1)
    BY <2>2 DEF DiskInv, CapacityInv
  <2>4. job.i \in 0..job.count /\ job.at \in {"free", "capacity", "check", "checked", "typed",
                                              "init", "inited", "started", "failed"}
    BY <2>2 DEF JobType
  <2> QED  BY <2>1, <2>2, <2>3, <2>4 DEF DiskTypeOK
<1> QED  BY DiskAlways, <1>1, PTL

\* An argument in bytes comes back to its block.
LEMMA BytesToBlocks == \A x \in Nat : (x * 512) \div 512 = x
OBVIOUS
LEMMA BlocksToBlocks == \A x \in Nat : (x * 1) \div 1 = x
OBVIOUS

\* A memory card that is not idle at a block command, or at a block, is the installed
\* one, in the same unit, and the block is one of its own and that of the request.
LEMMA BlockIsRight ==
  ASSUME DiskInv, pc \in {"read", "write", "started"}, card.st # "idle", card.kind \in Memory
  PROVE  /\ Block = job.first + job.i /\ Block \in DOMAIN medium
         /\ job.lost # TRUE /\ job.i < job.count /\ job.op \in Transfers /\ job \in JobType
<1>1. job.at \in {"inited", "started"}
  <2>1. job.at \notin {"free", "capacity", "check", "typed", "init", "failed"}
    BY DEF DiskInv, JobInv
  <2>2. job.at # "checked"
    BY DEF DiskInv, JobInv, Early, Late, LateSd, LateMmc
  <2> QED  BY <2>1, <2>2 DEF DiskInv, JobInv, JobType
<1>2. /\ job \in JobType /\ job.op \in Transfers /\ slot.state = "READY"
      /\ job.last >= 0 /\ job.last = capacity - 1 /\ job.first + job.count <= capacity
  BY <1>1, PastTheCheck
<1>3. Present
  BY DEF Present
<1>4. capacity = Sectors[card.kind] /\ job.lost # TRUE
  BY <1>2, <1>3 DEF DiskInv, CapacityInv
<1>5. "HC" \in slot.type <=> card.kind \in HighCap
  BY <1>2, <1>3 DEF DiskInv, SdInv, ReadyInv, Agree
<1>6. job.i < job.count /\ job.first + job.i \in Nat /\ job.first + job.i < capacity
  <2>1. job.i < job.count
    BY <1>1 DEF DiskInv, JobInv
  <2>2. job.i \in Nat /\ job.count \in Nat /\ job.first \in Nat
    BY <1>2 DEF JobType
  <2>3. capacity \in Nat
    BY DEF DiskInv, JobInv
  <2> QED  BY <1>2, <2>1, <2>2, <2>3
<1>7. Block = job.first + job.i
  BY <1>5, <1>6, BytesToBlocks, BlocksToBlocks DEF Block, Argument
<1>8. DOMAIN medium = 0..(Sectors[card.kind] - 1)
  BY DEF DiskInv, MediumInv, Memory, SdMem, Mmc, Mmc4
<1>9. Block \in DOMAIN medium
  <2>1. capacity \in Nat
    BY DEF DiskInv, JobInv
  <2>2. Block \in 0..(capacity - 1)
    BY <1>6, <1>7, <2>1
  <2>3. capacity = Sectors[card.kind]
    BY <1>4
  <2> QED  BY <1>8, <2>2, <2>3
<1> QED  BY <1>2, <1>4, <1>6, <1>7, <1>9

LEMMA AnswersAtBlock ==
  ASSUME DiskInv, pc \in {"read", "write", "started"}, Answers(DataStep[pc])
  PROVE  card.st # "idle" /\ card.kind \in Memory
<1>1. Sound(card)
  BY DEF DiskInv, SdInv, CardInv
<1>2. CASE pc = "read"
  BY <1>2 DEF Answers, Executes, DataStep
<1>3. CASE pc = "write"
  BY <1>3 DEF Answers, Executes, DataStep
<1>4. CASE pc = "started"
  <2>1. card.st \in {"one", "many"}
    BY <1>4 DEF Answers, Executes, DataStep
  <2> QED  BY <1>1, <2>1 DEF Sound, Cards, Memory, SdMem, Mmc, Mmc4, Kinds
<1> QED  BY <1>2, <1>3, <1>4

\* Every block that is clocked is the one the request is at, and one the card has.
THEOREM BlocksWithinCard == DiskSpec => []WithinCard
<1>1. DiskInv => WithinCard
  BY BlockIsRight, AnswersAtBlock DEF WithinCard
<1> QED  BY DiskAlways, <1>1, PTL

-----------------------------------------------------------------------------
(* The disk implements BlockDevice.                                        *)

\* The request FatFs sees.
Request ==
  IF job.op \in {"read", "write"}
  THEN [op |-> job.op, first |-> job.first, count |-> job.count, done |-> job.i, lost |-> job.lost]
  ELSE [op |-> "none", first |-> 0, count |-> 0, done |-> 0, lost |-> FALSE]

\* A step that changes nothing FatFs sees.
LEMMA Unseen ==
  ASSUME UNCHANGED <<medium, buff, res>>, Request' = Request
  PROVE  UNCHANGED Storage!bdVars
<1> QED  BY DEF Storage!bdVars, Request

LEMMA SameRequest ==
  ASSUME job'.op = job.op, job'.first = job.first, job'.count = job.count, job'.i = job.i,
         job'.lost = job.lost
  PROVE  Request' = Request
<1> QED  BY DEF Request

LEMMA MovesUnseen ==
  ASSUME DiskInv, NEW next, job' = [job EXCEPT !.at = next], UNCHANGED <<medium, buff, res>>
  PROVE  UNCHANGED Storage!bdVars
<1>1. job'.op = job.op /\ job'.first = job.first /\ job'.count = job.count /\ job'.i = job.i
      /\ job'.lost = job.lost
  BY DEF DiskInv, JobInv, JobType
<1> QED  BY <1>1, SameRequest, Unseen

Seen == [Storage!BdNext]_(Storage!bdVars)

LEMMA RequestIs ==
  ASSUME job \in JobType
  PROVE  /\ job.op \in Transfers =>
              Request = [op |-> job.op, first |-> job.first, count |-> job.count,
                         done |-> job.i, lost |-> job.lost]
         /\ job.op \notin Transfers =>
              Request = [op |-> "none", first |-> 0, count |-> 0, done |-> 0, lost |-> FALSE]
<1> QED  BY DEF Request, Transfers

LEMMA LostIs ==
  ASSUME NEW r, NEW o, NEW f, NEW c, NEW d, NEW x, NEW y,
         r = [op |-> o, first |-> f, count |-> c, done |-> d, lost |-> x]
  PROVE  [r EXCEPT !.lost = y] = [op |-> o, first |-> f, count |-> c, done |-> d, lost |-> y]
OBVIOUS

LEMMA NowLost ==
  ASSUME NEW r, NEW o, NEW f, NEW c, NEW d, NEW x,
         r = [op |-> o, first |-> f, count |-> c, done |-> d, lost |-> x]
  PROVE  [r EXCEPT !.lost = TRUE] = [op |-> o, first |-> f, count |-> c, done |-> d, lost |-> TRUE]
<1>1. PICK y : y = TRUE
  OBVIOUS
<1>2. [r EXCEPT !.lost = y] = [op |-> o, first |-> f, count |-> c, done |-> d, lost |-> y]
  BY LostIs
<1> QED  BY <1>1, <1>2, Zenon

LEMMA NotLost ==
  ASSUME NEW r, r = [op |-> "none", first |-> 0, count |-> 0, done |-> 0, lost |-> FALSE]
  PROVE  [r EXCEPT !.lost = FALSE] = r
<1>1. PICK y : y = FALSE
  OBVIOUS
<1>2. r = [op |-> "none", first |-> 0, count |-> 0, done |-> 0, lost |-> y]
  BY <1>1, Zenon
<1>3. [r EXCEPT !.lost = y] = [op |-> "none", first |-> 0, count |-> 0, done |-> 0, lost |-> y]
  BY <1>2, LostIs
<1> QED  BY <1>1, <1>2, <1>3, Zenon

LEMMA ChangeSeen == ASSUME DiskInv, ChangeCard PROVE Storage!Change
<1> DEFINE b == job.op # "none"
<1>1. job \in JobType /\ job' = [job EXCEPT !.lost = b] /\ UNCHANGED <<buff, res>>
  BY DEF ChangeCard, DiskInv, JobInv
<1>2. medium' \in {Fresh(k, n) : k \in Kinds, n \in 1..MaxSwaps} \cup {<<>>}
  <2>1. CASE Remove
    BY <2>1 DEF ChangeCard, Remove, NoCard, PowerUp, Card
  <2>2. CASE \E k \in Inserted : Insert(k)
    <3>1. PICK k \in Inserted : Insert(k)
      BY <2>2
    <3>2. card'.kind = k /\ k \in Kinds /\ k # "none" /\ swaps' \in 1..MaxSwaps
      BY <3>1, SdAssumption
      DEF Insert, PowerUp, Card, Kinds, SdAssumption, DiskInv, SdInv, SdTyped
    <3> QED  BY <3>2 DEF ChangeCard
  <2> QED  BY <2>1, <2>2 DEF ChangeCard, World
<1>3. Request' = [Request EXCEPT !.lost = (Request.op # "none")]
  <2>1. CASE job.op \in Transfers
    <3>1. Request = [op |-> job.op, first |-> job.first, count |-> job.count,
                     done |-> job.i, lost |-> job.lost]
      BY <1>1, <2>1, RequestIs
    <3>2. b = TRUE
      BY <2>1 DEF Transfers
    <3>3. job' = [job EXCEPT !.lost = TRUE]
      BY <1>1, <3>2, Zenon
    <3>4. Request' = [op |-> job.op, first |-> job.first, count |-> job.count,
                      done |-> job.i, lost |-> TRUE]
      BY <1>1, <2>1, <3>3 DEF Request, JobType, Transfers
    <3>5. (Request.op # "none") = TRUE
      BY <2>1, <3>1 DEF Transfers
    <3>6. [Request EXCEPT !.lost = TRUE] = [op |-> job.op, first |-> job.first,
             count |-> job.count, done |-> job.i, lost |-> TRUE]
      BY <3>1, NowLost
    <3> QED  BY <3>4, <3>5, <3>6, Zenon
  <2>2. CASE job.op \notin Transfers
    <3>1. Request = [op |-> "none", first |-> 0, count |-> 0, done |-> 0, lost |-> FALSE]
      BY <1>1, <2>2, RequestIs
    <3>2. job'.op = job.op
      BY <1>1 DEF JobType
    <3>3. Request' = Request
      BY <2>2, <3>1, <3>2 DEF Request, Transfers
    <3>4. (Request.op # "none") = FALSE
      BY <3>1
    <3>5. [Request EXCEPT !.lost = FALSE] = Request
      BY <3>1, NotLost
    <3> QED  BY <3>3, <3>4, <3>5, Zenon
  <2> QED  BY <2>1, <2>2
<1> QED  BY <1>1, <1>2, <1>3 DEF Storage!Change, Request

LEMMA BeginSeen == ASSUME DiskInv, BeginTransfer PROVE Storage!Begin
<1>1. job \in JobType /\ job.op = "none"
  BY DEF BeginTransfer, DiskInv, JobInv
<1>2. Request.op = "none"
  BY <1>1, RequestIs DEF Transfers
<1>3. PICK r \in Reqs : job' = [Ask(r.op) EXCEPT !.at = "capacity", !.first = r.first,
          !.count = r.count]
  BY DEF BeginTransfer
<1>4. r.op \in {"read", "write"} /\ r.first \in Nat /\ r.count \in Nat \ {0}
  BY DiskAssumption DEF DiskAssumption
<1>5. job' = [op |-> r.op, first |-> r.first, count |-> r.count, at |-> "capacity", i |-> 0,
              tries |-> 2, last |-> -1, lost |-> FALSE, faults |-> faults]
  BY <1>3 DEF Ask, NoJob
<1>6. Request' = [op |-> r.op, first |-> r.first, count |-> r.count, done |-> 0, lost |-> FALSE]
  BY <1>4, <1>5 DEF Request
<1>7. Request' \in [op: {"read", "write"}, first: Nat, count: Nat \ {0}, done: {0}, lost: {FALSE}]
  BY <1>4, <1>6
<1>8. buff' = <<>> /\ UNCHANGED <<medium, res>>
  BY DEF BeginTransfer
<1> QED  BY <1>2, <1>7, <1>8 DEF Storage!Begin, Request

\* The end of a transfer is the end of the request.
LEMMA FinishSeen ==
  ASSUME DiskInv, job.op \in Transfers, job' = NoJob, UNCHANGED <<medium, buff>>,
         (res' = "OK" /\ job.i = job.count) \/ res' \in {"ERROR", "PARERR"}
  PROVE  Storage!Finish
<1>1. Request = [op |-> job.op, first |-> job.first, count |-> job.count,
                 done |-> job.i, lost |-> job.lost]
  BY RequestIs DEF DiskInv, JobInv
<1>2. Request.op # "none" /\ Request.done = job.i /\ Request.count = job.count
  BY <1>1 DEF Transfers
<1>3. Request' = [op |-> "none", first |-> 0, count |-> 0, done |-> 0, lost |-> FALSE]
  BY DEF Request, NoJob
<1> QED  BY <1>2, <1>3 DEF Storage!Finish, Storage!Nothing, Request

\* A block that is waited for is a sector of the request, moved, or lost.
LEMMA WaitSeen == ASSUME DiskInv /\ "data" \notin Shared, WaitTransfer PROVE Seen
<1> DEFINE n == job.first + job.i
           new == [medium EXCEPT ![Block] = Written(n)]
<1>1. job.at = "started" /\ pc = "started" /\ res' = res /\ job \in JobType
      /\ job.op \in Transfers
  BY PastTheCheck, WaitDoes DEF WaitTransfer
<1>2. Request = [op |-> job.op, first |-> job.first, count |-> job.count,
                 done |-> job.i, lost |-> job.lost]
  BY <1>1, RequestIs
<1>3. ASSUME Answers("DATA")
      PROVE  /\ Block = n /\ n \in DOMAIN medium /\ Storage!Movable /\ Storage!Next1 = n
             /\ job.i \in Nat
  <2>1. Answers(DataStep[pc])
    BY <1>1, <1>3 DEF DataStep
  <2>2. card.st # "idle" /\ card.kind \in Memory
    BY <1>1, <2>1, AnswersAtBlock
  <2>3. Block = n /\ n \in DOMAIN medium /\ job.lost # TRUE /\ job.i < job.count
    BY <1>1, <2>2, BlockIsRight
  <2>4. medium # <<>>
    BY <1>1, <2>3 DEF JobType
  <2>5. ~job.lost
    BY <1>1, <2>3 DEF JobType
  <2>6. Request.done = job.i /\ Request.count = job.count /\ Request.first = job.first
    BY <1>2
  <2>7. Request.lost = job.lost
    BY <1>2
  <2>8. ~Request.lost
    BY <2>5, <2>7
  <2> QED
    BY <1>1, <2>3, <2>4, <2>6, <2>8 DEF Storage!Movable, Storage!Next1, Request, JobType
<1>4. /\ job' = [job EXCEPT !.at = "init", !.i = job.i + 1] =>
           Request' = [Request EXCEPT !.done = @ + 1]
      /\ job' = [job EXCEPT !.at = "failed", !.i = job.i + 0] =>
           Request' = [Request EXCEPT !.done = @ + 0]
  <2>1. ASSUME job' = [job EXCEPT !.at = "init", !.i = job.i + 1]
       PROVE  Request' = [Request EXCEPT !.done = @ + 1]
    <3>1. /\ job'.op = job.op /\ job'.first = job.first /\ job'.count = job.count
          /\ job'.i = job.i + 1 /\ job'.lost = job.lost
      BY <1>1, <2>1 DEF JobType
    <3>2. Request' = [op |-> job.op, first |-> job.first, count |-> job.count,
                      done |-> job.i + 1, lost |-> job.lost]
      BY <1>1, <3>1 DEF Request, Transfers
    <3> QED  BY <1>2, <3>2
  <2>2. ASSUME job' = [job EXCEPT !.at = "failed", !.i = job.i + 0]
       PROVE  Request' = [Request EXCEPT !.done = @ + 0]
    <3>1. /\ job'.op = job.op /\ job'.first = job.first /\ job'.count = job.count
          /\ job'.i = job.i + 0 /\ job'.lost = job.lost
      BY <1>1, <2>2 DEF JobType
    <3>2. Request' = [op |-> job.op, first |-> job.first, count |-> job.count,
                      done |-> job.i + 0, lost |-> job.lost]
      BY <1>1, <3>1 DEF Request, Transfers
    <3> QED  BY <1>2, <3>2
  <2> QED  BY <2>1, <2>2
<1>5. CASE ret' = "OK" /\ job.op = "read"
  <2>1. Answers("DATA") /\ medium' = medium /\ job' = [job EXCEPT !.at = "init", !.i = job.i + 1]
    BY <1>5, WaitDoes DEF WaitTransfer
  <2>2. buff' = Append(buff, medium[n])
    BY <1>3, <1>5, <2>1 DEF WaitTransfer, ReadBack
  <2>3. Request' = [Request EXCEPT !.done = @ + 1] /\ Request.op = "read"
    BY <1>2, <1>4, <1>5, <2>1
  <2>4. Storage!ReadSector
    BY <1>1, <1>3, <2>1, <2>2, <2>3 DEF Storage!ReadSector, Request
  <2> QED  BY <2>4 DEF Seen, Storage!BdNext
<1>6. CASE ret' = "OK" /\ job.op = "write"
  <2>1. Answers("DATA") /\ medium' = new /\ job' = [job EXCEPT !.at = "init", !.i = job.i + 1]
        /\ buff' = buff
    BY <1>6, WaitDoes DEF WaitTransfer
  <2>2. Request' = [Request EXCEPT !.done = @ + 1] /\ Request.op = "write"
    BY <1>2, <1>4, <1>6, <2>1
  <2>3. Storage!WriteSector
    BY <1>1, <1>3, <2>1, <2>2 DEF Storage!WriteSector, Request
  <2> QED  BY <2>3 DEF Seen, Storage!BdNext
<1>7. CASE ret' # "OK"
  <2>1. job' = [job EXCEPT !.at = "failed"] /\ buff' = buff
    BY <1>7 DEF WaitTransfer
  <2>2. CASE medium' = medium
    BY <1>1, <2>1, <2>2, MovesUnseen DEF Seen
  <2>3. CASE medium' = new /\ job.op = "write" /\ Answers("DATA")
    <3>1. job' = [job EXCEPT !.at = "failed", !.i = job.i + 0]
      <4>1. job.i + 0 = job.i
        BY <1>1 DEF JobType
      <4> QED  BY <1>1, <2>1, <4>1 DEF JobType
    <3>2. Request' = [Request EXCEPT !.done = @ + 0] /\ Request.op = "write"
      BY <1>2, <1>4, <2>3, <3>1
    <3>3. Storage!WriteSector
      BY <1>1, <1>3, <2>1, <2>3, <3>2 DEF Storage!WriteSector, Request
    <3> QED  BY <3>3 DEF Seen, Storage!BdNext
  <2> QED
    <3>1. medium' = medium \/ (medium' = new /\ job.op = "write" /\ faults' # faults)
      BY <1>1, <1>7 DEF WaitTransfer, Transfers
    <3> QED  BY <1>7, <2>2, <2>3, <3>1, WaitDoes
<1> QED  BY <1>1, <1>5, <1>6, <1>7 DEF Transfers

LEMMA ProceedSeen == ASSUME DiskInv, Proceed PROVE Seen
<1>1. UNCHANGED <<medium, buff>> /\ job.at \in {"typed", "checked"}
  BY DEF Proceed, Tested
<1>2. job \in JobType /\ job.op # "none"
  BY <1>1 DEF DiskInv, JobInv
<1>3. ASSUME NEW next, job' = [job EXCEPT !.at = next], res' = res  PROVE Seen
  BY <1>1, <1>3, MovesUnseen DEF Seen
<1>4. ASSUME job' = NoJob, job.op \notin Transfers, res' = res  PROVE Seen
  <2>1. Request' = Request
    BY <1>2, <1>4, RequestIs DEF Request, NoJob
  <2> QED  BY <1>1, <1>4, <2>1, Unseen DEF Seen
<1>5. ASSUME job' = [job EXCEPT !.at = "check", !.tries = @ - 1], res' = res  PROVE Seen
  <2>1. job'.op = job.op /\ job'.first = job.first /\ job'.count = job.count /\ job'.i = job.i
        /\ job'.lost = job.lost
    BY <1>2, <1>5 DEF JobType
  <2> QED  BY <1>1, <1>5, <2>1, SameRequest, Unseen DEF Seen
<1>6. CASE job.op = "initialize"
  BY <1>4, <1>5, <1>6 DEF Proceed, Finish, Transfers
<1>7. CASE job.op \in {"status", "sync"}
  BY <1>4, <1>7 DEF Proceed, Finish, Transfers
<1>8. CASE job.op = "wait"
  BY <1>3, <1>4, <1>8 DEF Proceed, Waited, Finish, Goto, Transfers
<1>9. CASE job.op \in Transfers
  <2>1. CASE job' = NoJob /\ res' = "PARERR"
    BY <1>1, <1>9, <2>1, FinishSeen DEF Seen, Storage!BdNext
  <2>2. CASE job' = [job EXCEPT !.at = "init"] /\ res' = res
    BY <1>3, <2>2
  <2> QED  BY <1>9, <2>1, <2>2 DEF Proceed, Finish, Goto, Transfers
<1> QED  BY <1>2, <1>6, <1>7, <1>8, <1>9 DEF JobType, Transfers

LEMMA EndSeen == ASSUME DiskInv, EndTransfer PROVE Storage!Finish
<1>1. job.op \in Transfers
  BY DEF EndTransfer, DiskInv, JobInv
<1> QED  BY <1>1, FinishSeen DEF EndTransfer, Finish

LEMMA OthersUnseen ==
  ASSUME DiskInv, Begin \/ Continue \/ sd_mmc_read_capacity \/ TestReady \/ sd_mmc_unload
                  \/ InitTransfer \/ StartTransfer \/ UNCHANGED allVars
  PROVE  UNCHANGED Storage!bdVars
<1> job \in JobType
  BY DEF DiskInv, JobInv
<1>1. CASE Begin
  <2>1. PICK op \in {"initialize", "status", "sync", "wait"} : job' = Ask(op)
    BY <1>1 DEF Begin
  <2>2. job'.op = op
    BY <2>1 DEF Ask, NoJob
  <2>3. job.op = "none"
    BY <1>1 DEF Begin, DiskInv, JobInv
  <2>4. Request' = Request
    BY <2>2, <2>3 DEF Request
  <2> QED  BY <1>1, <2>4, Unseen DEF Begin
<1>2. CASE Continue \/ sd_mmc_unload
  <2>1. UNCHANGED <<job, medium, buff, res>>
    BY <1>2 DEF Continue, sd_mmc_unload
  <2> QED  BY <2>1, SameRequest, Unseen
<1>3. CASE sd_mmc_read_capacity
  <2>1. job'.op = job.op /\ job'.first = job.first /\ job'.count = job.count /\ job'.i = job.i
        /\ job'.lost = job.lost
    BY <1>3 DEF sd_mmc_read_capacity, JobType
  <2> QED  BY <1>3, <2>1, SameRequest, Unseen DEF sd_mmc_read_capacity
<1>4. CASE TestReady
  <2>1. \E next \in {"checked", "typed"} : job' = [job EXCEPT !.at = next]
    BY <1>4 DEF TestReady, Call
  <2>2. UNCHANGED <<medium, buff, res>>
    BY <1>4 DEF TestReady, Call
  <2> QED  BY <2>1, <2>2, MovesUnseen
<1>5. CASE InitTransfer \/ StartTransfer
  <2>1. \E next \in {"inited", "started"} : job' = [job EXCEPT !.at = next]
    BY <1>5 DEF InitTransfer, StartTransfer, Call
  <2>2. UNCHANGED <<medium, buff, res>>
    BY <1>5 DEF InitTransfer, StartTransfer, Call
  <2> QED  BY <2>1, <2>2, MovesUnseen
<1>6. CASE UNCHANGED allVars
  <2>1. UNCHANGED <<job, medium, buff, res>>
    BY <1>6 DEF allVars, diskVars
  <2> QED  BY <2>1, SameRequest, Unseen
<1> QED  BY <1>1, <1>2, <1>3, <1>4, <1>5, <1>6

\* The disk moves every sector of a request, in order and on one medium, or says that it
\* has not, whatever becomes of the card and of the exchanges; provided that the buffers
\* for the blocks share no line of the data cache with anything else.
THEOREM DiskIsStorage == ASSUME "data" \notin Shared PROVE DiskSpec => ImplementsStorage
<1>1. DiskInit => Storage!BdInit
  <2> SUFFICES ASSUME DiskInit PROVE Storage!BdInit
    OBVIOUS
  <2>1. Request = [op |-> "none", first |-> 0, count |-> 0, done |-> 0, lost |-> FALSE]
    BY DEF DiskInit, NoJob, Request
  <2> QED  BY <2>1 DEF DiskInit, Storage!BdInit, Storage!Nothing, Request
<1>2. ASSUME DiskInv, [DiskNext]_allVars  PROVE Seen
  BY <1>2, ChangeSeen, BeginSeen, WaitSeen, ProceedSeen, EndSeen, OthersUnseen
  DEF DiskNext, Host, Seen, Storage!BdNext
<1> QED  BY DiskAlways, <1>1, <1>2, PTL DEF DiskSpec, ImplementsStorage, Storage!BdSpec, Seen

-----------------------------------------------------------------------------
(* One call of disk_initialize is enough.                                  *)

\* The slot is for memory cards: then a card that is being installed or is ready is taken
\* for one.  (An SDIO card that was ready before leaves its flags behind when it is pulled.)
OnlyMemory == Inserted \subseteq Memory

\* The version of an SD card of version 1, which knows no CMD6, is read as it is.
NoStaleVersion == "SD1" \in Inserted => "scr" \notin Shared
VersionTold == card.kind = "SD1" => "scr" \notin Shared

FlagsInv ==
  /\ card.kind \in Memory \cup {"none"} /\ VersionTold
  /\ slot.type \cap {"SD", "MMC"} = {} => slot.state # "READY" /\ pc \notin Early \cup Late

\* What an installation has made of the card, as long as nothing has gone wrong: with it,
\* the card executes the next command.  The later states of the card are in StageInv.
Foreseen ==
  /\ pc \in Early \cup Late /\ ~swapped
  /\ pc \in {"cmd8", "cmd5", "acmd41", "m_cmd1"} => card.st = "idle"
  /\ pc \in {"cmd0", "cmd8", "cmd5"} /\ card.kind = "COMBO" => ~card.io
  /\ pc \in {"cmd5", "acmd41"} /\ card.kind \in SdMem \cap HighCap => v2
  /\ pc \in {"acmd41"} \cup LateSd /\ isSdio => card.io
  /\ pc \in {"m_cmd0", "m_cmd1"} => card.kind \in Mmc
  /\ pc = "cmd6" => slot.version > 1

\* A disk_initialize that nothing has disturbed since it was called, with a card to find.
Calm == job.op = "initialize" /\ ~job.lost /\ job.faults = faults /\ card.kind \in Memory
FirstTryInv ==
  /\ job.op = "initialize" => job.faults <= faults /\ job.tries \in {1, 2}
  /\ Calm /\ job.tries = 1 => slot.state = "READY" /\ (job.at = "checked" => ret = "OK")
  /\ Calm /\ job.at = "checked" =>
       IF pc = "idle" THEN slot.state = "READY" /\ ret \in {"OK", "INIT_ONGOING"} ELSE Foreseen
  /\ Calm /\ job.at = "typed" => slot.state = "READY" /\ ret = "OK"

\* The card executes the next command.
LEMMA LateAnswers ==
  ASSUME SdInv, Foreseen, card.kind \in Memory, VersionTold, pc \in Late
  PROVE  /\ pc = "cmd2" => Answers("CMD2")
         /\ pc = "cmd3" => Answers("CMD3")
         /\ pc = "m_cmd3" => Answers("CMD3_MMC")
         /\ pc \in {"cmd9", "m_cmd9"} => Answers("CMD9")
         /\ pc \in {"cmd7", "m_cmd7"} => Answers("CMD7")
         /\ pc = "acmd51" => Answers("ACMD51")
         /\ pc = "cis" => Answers("CIS")
         /\ pc = "io_width" => Answers("IO_WIDTH")
         /\ pc = "acmd6" => Answers("ACMD6")
         /\ pc = "io_hs" => Answers("IO_HS")
         /\ pc = "cmd6" => Answers("CMD6")
         /\ pc \in {"cmd16", "m_cmd16"} => Answers("CMD16")
         /\ pc = "m_cmd2" => Answers("CMD2")
         /\ pc = "m_ext_csd" => Answers("EXT_CSD")
         /\ pc \in {"m_width", "m_last_width"} => Answers("CMD6_WIDTH")
         /\ pc = "m_hs" => Answers("CMD6_HS")
<1>1. Present /\ card.kind \in Memory /\ ~swapped
  BY DEF Foreseen, Present
<1>2. /\ pc \in LateSd => card.kind \in SdMem
      /\ pc \in LateMmc => card.kind \in Mmc
  BY <1>1 DEF SdInv, StageInv, Memory, SdMem, Mmc, Mmc4
<1>3. /\ pc \in {"cmd2", "m_cmd2"} => card.st = "ready"
      /\ pc = "m_cmd3" => card.st = "ident"
      /\ pc = "cmd3" => card.st = "ident"
      /\ pc \in {"cmd9", "cmd7", "m_cmd9", "m_cmd7"} => card.st = "stby" /\ card.rca = slot.rca
      /\ pc \in {"acmd51", "cis", "io_width", "acmd6", "io_hs", "cmd6", "cmd16", "m_ext_csd",
                 "m_width", "m_last_width", "m_hs", "m_cmd16"} => card.st = "tran"
  BY <1>1 DEF SdInv, StageInv, Memory, SdMem, Mmc, Mmc4
<1>4. pc \in {"cis", "io_width", "io_hs"} => card.kind \in Io /\ card.io
  <2>1. pc \in {"cis", "io_width", "io_hs"} => isSdio /\ pc \in LateSd
    BY DEF SdInv, TypeInv, LateSd
  <2> QED  BY <1>1, <2>1 DEF SdInv, CardInv, Foreseen
<1>5. pc \in {"m_ext_csd", "m_width", "m_last_width", "m_hs"} => card.kind \in Mmc4
  BY <1>1 DEF SdInv, VersionInv, Mmc4
<1>6. SdMem \subseteq Memory /\ Mmc \subseteq Memory /\ SdMem \cap Mmc = {}
  BY DEF SdMem, Mmc, Mmc4, Memory
<1>12. pc = "cmd6" => card.kind # "SD1"
  <2>1. pc = "cmd6" => isSd /\ slot.version > 1
    BY DEF SdInv, TypeInv, Foreseen
  <2> QED  BY <1>1, <2>1 DEF SdInv, VersionInv, VersionTold
<1> USE DEF LateSd, LateMmc, Answers
<1>7. /\ pc = "cmd2" => Answers("CMD2")
      /\ pc = "m_cmd2" => Answers("CMD2")
      /\ pc = "cmd3" => Answers("CMD3")
      /\ pc = "m_cmd3" => Answers("CMD3_MMC")
  BY <1>2, <1>3, <1>6 DEF Executes
<1>8. /\ pc \in {"cmd9", "m_cmd9"} => Answers("CMD9")
      /\ pc \in {"cmd7", "m_cmd7"} => Answers("CMD7")
  BY <1>3 DEF Executes
<1>9. /\ pc = "acmd51" => Answers("ACMD51")
      /\ pc = "acmd6" => Answers("ACMD6")
      /\ pc = "cmd6" => Answers("CMD6")
      /\ pc \in {"cmd16", "m_cmd16"} => Answers("CMD16")
  BY <1>1, <1>2, <1>3, <1>12 DEF Executes
<1>10. /\ pc = "cis" => Answers("CIS")
       /\ pc = "io_width" => Answers("IO_WIDTH")
       /\ pc = "io_hs" => Answers("IO_HS")
  BY <1>3, <1>4 DEF Executes
<1>11. /\ pc = "m_ext_csd" => Answers("EXT_CSD")
       /\ pc \in {"m_width", "m_last_width"} => Answers("CMD6_WIDTH")
       /\ pc = "m_hs" => Answers("CMD6_HS")
  BY <1>3, <1>5 DEF Executes
<1> QED  BY <1>7, <1>8, <1>9, <1>10, <1>11

\* Only the reset and CMD5 switch the I/O part of a card.
LEMMA SameIo ==
  ASSUME NEW c, Sound(c), NEW cmd \in LateCommands
  PROVE  After(c, cmd).io = c.io
<1> USE DEF Sound, Cards, Bus, Card
<1>1. CASE cmd \in {"CMD2", "CMD3", "CMD3_MMC", "CMD9", "CMD7"}
  <2>1. CASE cmd = "CMD2"  BY <2>1 DEF After
  <2>2. CASE cmd = "CMD3"  BY <2>2 DEF After
  <2>3. CASE cmd = "CMD3_MMC"  BY <2>3 DEF After
  <2>4. CASE cmd = "CMD9"  BY <2>4 DEF After
  <2>5. CASE cmd = "CMD7"  BY <2>5 DEF After
  <2> QED  BY <1>1, <2>1, <2>2, <2>3, <2>4, <2>5
<1>2. CASE cmd \in {"ACMD6", "CMD6_WIDTH"}
  BY <1>2 DEF After
<1>3. CASE cmd \in {"CMD6", "CMD6_HS"}
  BY <1>3 DEF After
<1>4. CASE cmd \in {"IO_WIDTH", "IO_HS"}
  <2>1. CASE cmd = "IO_WIDTH"  BY <2>1 DEF After
  <2>2. CASE cmd = "IO_HS"  BY <2>2 DEF After
  <2> QED  BY <1>4, <2>1, <2>2
<1>5. CASE cmd \in {"READ1", "WRITE1", "MULTI"}
  BY <1>5 DEF After
<1>6. CASE cmd \in {"DATA", "CMD12"}
  BY <1>6 DEF After
<1>7. CASE cmd \in {"ACMD51", "CIS", "IO_DIRECT", "IO_EXTENDED", "EXT_CSD", "CMD16", "CMD13"}
  BY <1>7 DEF After
<1> QED  BY <1>1, <1>2, <1>3, <1>4, <1>5, <1>6, <1>7 DEF LateCommands, Commands

\* From one of the later exchanges to the next.
LEMMA LateForeseen ==
  ASSUME Foreseen, pc \in Late, pc' \in Late, swapped' = swapped, slot'.type = slot.type,
         card'.io = card.io, pc \in LateMmc => pc' \in LateMmc,
         pc' = "cmd6" => slot'.version > 1
  PROVE  Foreseen'
<1>1. pc' \notin Early \cup {"cmd0", "cmd8", "cmd5", "acmd41", "m_cmd1", "m_cmd0"}
  BY DEF Early, Late, LateSd, LateMmc
<1>2. pc' \in LateSd => pc \in LateSd
  BY DEF Late, LateSd, LateMmc
<1> QED  BY <1>1, <1>2 DEF Foreseen, isSdio

\* A step that is answered and not disturbed.
LEMMA StepAnswered ==
  ASSUME NEW at, NEW cmd, NEW s, NEW next, Step(at, cmd, s, next), Answers(cmd), faults' = faults,
         faults \in Nat
  PROVE  pc = at /\ card' = After(card, cmd) /\ Go(s, next) /\ swapped' = swapped
BY DEF Step, Exchange

LEMMA StepForeseen ==
  ASSUME SdInv, Foreseen, NEW at \in Late, NEW cmd \in LateCommands, NEW s, NEW next \in Late,
         Step(at, cmd, s, next), Answers(cmd), faults' = faults, s.type = slot.type,
         at \in LateMmc => next \in LateMmc, next = "cmd6" => s.version > 1
  PROVE  pc' # "idle" /\ Foreseen'
<1>1. pc = at /\ card' = After(card, cmd) /\ Go(s, next) /\ swapped' = swapped
  BY StepAnswered, SdAssumption DEF SdInv, SdTyped, SdAssumption
<1>2. card'.io = card.io
  BY <1>1, SameIo DEF SdInv, CardInv
<1>3. slot' = s /\ pc' = next
  BY <1>1 DEF Go
<1>4. pc' # "idle"
  BY <1>3 DEF Late, LateSd, LateMmc
<1> QED  BY <1>1, <1>2, <1>3, <1>4, LateForeseen

\* The outcome of an exchange of the installation that goes as it should.
GoesWell ==
  IF pc' = "idle" THEN slot'.state = "READY" /\ ret' = "INIT_ONGOING" ELSE Foreseen'

LEMMA LaterForeseen ==
  ASSUME SdInv, Foreseen, card.kind \in Memory, VersionTold, faults' = faults,
         Identify \/ sdio_cmd52_set_bus_width \/ sd_acmd6 \/ sdio_cmd52_set_high_speed
         \/ sd_cm6_set_high_speed
  PROVE  GoesWell
<1> USE LateAnswers, StepForeseen DEF GoesWell, LateCommands, Commands, Late, LateSd, LateMmc
<1> slot \in SlotType
  BY DEF SdInv, SdTyped, SlotType
<1>1. CASE Step("cmd2", "CMD2", slot, "cmd3")
  <2>1. pc = "cmd2"  BY <1>1 DEF Step
  <2> QED  BY <1>1, <2>1
<1>2. CASE Step("cmd3", "CMD3", [slot EXCEPT !.rca = card'.rca], IF isSd THEN "cmd9" ELSE "cmd7")
  <2>1. pc = "cmd3"  BY <1>2 DEF Step
  <2>2. PICK next \in {"cmd9", "cmd7"} : next = (IF isSd THEN "cmd9" ELSE "cmd7")
    OBVIOUS
  <2>3. Answers("CMD3") /\ next \in Late
    BY <2>1, <2>2
  <2>4. PICK s : s = [slot EXCEPT !.rca = card'.rca]
    OBVIOUS
  <2>5. s.type = slot.type /\ Step("cmd3", "CMD3", s, next)
    BY <1>2, <2>2, <2>4 DEF SlotType
  <2> QED  BY <2>1, <2>3, <2>5
<1>3. CASE sd_decode_csd
  <2>1. pc = "cmd9"  BY <1>3 DEF sd_decode_csd, Step
  <2> QED  BY <1>3, <2>1 DEF sd_decode_csd, SlotType
<1>4. CASE Step("cmd7", "CMD7", slot, IF isSd THEN "acmd51" ELSE "cis")
  <2>1. pc = "cmd7"  BY <1>4 DEF Step
  <2>2. PICK next \in {"acmd51", "cis"} : next = (IF isSd THEN "acmd51" ELSE "cis")
    OBVIOUS
  <2> QED  BY <1>4, <2>1, <2>2
<1>5. CASE sd_acmd51
  <2>1. pc = "acmd51"  BY <1>5 DEF sd_acmd51, Step
  <2>2. PICK next \in {"cis", "acmd6"} : next = (IF isSdio THEN "cis" ELSE "acmd6")
    OBVIOUS
  <2>3. PICK v : Step("acmd51", "ACMD51", [slot EXCEPT !.version = v], next)
    BY <1>5, <2>2 DEF sd_acmd51
  <2>4. PICK s : s = [slot EXCEPT !.version = v]
    OBVIOUS
  <2> QED  BY <2>1, <2>2, <2>3, <2>4 DEF SlotType
<1>6. /\ Width4.type = slot.type
      /\ SetHs(slot).type = slot.type /\ SetHs(slot).version = slot.version
      /\ AssumeHs(slot).type = slot.type
  BY DEF Width4, SetHs, AssumeHs, SlotType
<1>7. CASE sdio_cmd52_set_bus_width
  <2>1. pc = "io_width"  BY <1>7 DEF sdio_cmd52_set_bus_width, Step
  <2>2. PICK next \in {"acmd6", "conf_width"} : next = (IF isSd THEN "acmd6" ELSE "conf_width")
    OBVIOUS
  <2>3. PICK s : s = (IF card.kind = "COMBO" THEN Width4 ELSE slot)
    OBVIOUS
  <2> QED  BY <1>6, <1>7, <2>1, <2>2, <2>3 DEF sdio_cmd52_set_bus_width
<1>8. CASE sd_acmd6
  <2>1. pc = "acmd6"  BY <1>8 DEF sd_acmd6, Step
  <2> QED  BY <1>6, <1>8, <2>1 DEF sd_acmd6
<1>9. CASE sdio_cmd52_set_high_speed
  <2>1. pc = "io_hs"  BY <1>9 DEF sdio_cmd52_set_high_speed, Step
  <2>2. PICK next \in {"cmd6", "conf_hs"} : next = (IF isSd /\ slot.version > 1 THEN "cmd6"
            ELSE "conf_hs")
    OBVIOUS
  <2> QED  BY <1>6, <1>9, <2>1, <2>2 DEF sdio_cmd52_set_high_speed
<1>10. CASE sd_cm6_set_high_speed
  <2>1. PICK s \in {SetHs(slot), AssumeHs(slot)} : Step("cmd6", "CMD6", s, "conf_hs")
    BY <1>10 DEF sd_cm6_set_high_speed, ReadBack
  <2>2. pc = "cmd6"  BY <2>1 DEF Step
  <2> QED  BY <1>6, <2>1, <2>2
<1> QED
  BY <1>1, <1>2, <1>3, <1>4, <1>5, <1>7, <1>8, <1>9, <1>10 DEF Identify

LEMMA MmcForeseen ==
  ASSUME SdInv, Foreseen, card.kind \in Memory, VersionTold, faults' = faults,
         \/ mmc_decode_csd \/ mmc_cmd8 \/ mmc_cmd6_set_bus_width
         \/ mmc_cmd6_set_high_speed \/ Step("m_cmd2", "CMD2", [slot EXCEPT !.rca = 1], "m_cmd3")
         \/ Step("m_cmd3", "CMD3_MMC", slot, "m_cmd9")
         \/ Step("m_cmd7", "CMD7", slot, IF slot.version >= 4 THEN "m_ext_csd" ELSE "conf_mmc")
  PROVE  GoesWell
<1> USE LateAnswers, StepForeseen DEF GoesWell, LateCommands, Commands, Late, LateSd, LateMmc
<1> slot \in SlotType
  BY DEF SdInv, SdTyped, SlotType
<1>1. CASE mmc_decode_csd
  <2>1. pc = "m_cmd9"  BY <1>1 DEF mmc_decode_csd, Step
  <2>2. PICK s : s = [slot EXCEPT !.clock = 1, !.version = IF card.kind \in Mmc4 THEN 4 ELSE 3]
    OBVIOUS
  <2> QED  BY <1>1, <2>1, <2>2 DEF mmc_decode_csd, SlotType
<1>2. CASE mmc_cmd8
  <2>1. pc = "m_ext_csd"  BY <1>2 DEF mmc_cmd8, Step
  <2>2. PICK next \in {"m_width", "m_last_width"} : Step("m_ext_csd", "EXT_CSD", slot, next)
    BY <1>2 DEF mmc_cmd8
  <2> QED  BY <2>1, <2>2
<1>3. CASE mmc_cmd6_set_bus_width
  <2>1. PICK at \in {"m_width", "m_last_width"}, next \in {"conf_m_width", "conf_mmc"} :
          Step(at, "CMD6_WIDTH", Width4, next)
    BY <1>3 DEF mmc_cmd6_set_bus_width
  <2>2. pc = at /\ Width4.type = slot.type  BY <2>1 DEF Step, Width4, SlotType
  <2> QED  BY <2>1, <2>2
<1>4. CASE mmc_cmd6_set_high_speed
  <2>1. pc = "m_hs"  BY <1>4 DEF mmc_cmd6_set_high_speed, Step
  <2> QED  BY <1>4, <2>1 DEF mmc_cmd6_set_high_speed, SlotType
<1>5. CASE Step("m_cmd2", "CMD2", [slot EXCEPT !.rca = 1], "m_cmd3")
  <2>1. pc = "m_cmd2"  BY <1>5 DEF Step
  <2> QED  BY <1>5, <2>1 DEF SlotType
<1>6. CASE Step("m_cmd3", "CMD3_MMC", slot, "m_cmd9")
  <2>1. pc = "m_cmd3"  BY <1>6 DEF Step
  <2> QED  BY <1>6, <2>1
<1>7. CASE Step("m_cmd7", "CMD7", slot, IF slot.version >= 4 THEN "m_ext_csd" ELSE "conf_mmc")
  <2>1. pc = "m_cmd7"  BY <1>7 DEF Step
  <2>2. PICK next \in {"m_ext_csd", "conf_mmc"} : next = (IF slot.version >= 4
            THEN "m_ext_csd" ELSE "conf_mmc")
    OBVIOUS
  <2> QED  BY <1>7, <2>1, <2>2
<1> QED  BY <1>1, <1>2, <1>3, <1>4, <1>5, <1>6, <1>7

\* The driver is set, or the installation ends.
LEMMA LastForeseen ==
  ASSUME SdInv, Foreseen, card.kind \in Memory, VersionTold, faults' = faults,
                \/ sdio_get_max_speed
                \/ sd_mmc_configure_slot("conf_width",
                     IF isSdio THEN "io_hs" ELSE IF slot.version > 1 THEN "cmd6" ELSE "conf_hs")
                \/ sd_mmc_configure_slot("conf_hs", IF isSd THEN "cmd16" ELSE "done")
                \/ sd_mmc_configure_slot("conf_m_width", "m_hs")
                \/ pc = "done" /\ Installed /\ UNCHANGED env
                \/ pc = "cmd16" /\ Exchange("CMD16", Installed, InitFails)
                \/ pc = "conf_mmc" /\ drv' = BusOf(slot) /\ pc' = "m_cmd16" /\ retry' = 10
                   /\ UNCHANGED <<env, slot, ret, v2, counts>>
                \/ Cmd16Again
  PROVE  GoesWell
<1> slot \in SlotType
  BY DEF SdInv, SdTyped, SlotType
<1> faults \in Nat
  BY SdAssumption DEF SdInv, SdTyped, SdAssumption
<1> USE DEF GoesWell, Late, LateSd, LateMmc
<1>1. CASE sdio_get_max_speed
  <2>1. pc = "cis" /\ Answers("CIS")
    BY <1>1, LateAnswers DEF sdio_get_max_speed
  <2>2. card' = After(card, "CIS") /\ Go([slot EXCEPT !.clock = 1], "io_width")
            /\ swapped' = swapped
    BY <1>1, <2>1 DEF sdio_get_max_speed, Exchange
  <2>3. card'.io = card.io
    BY <2>2, SameIo DEF SdInv, CardInv, LateCommands, Commands
  <2>4. slot'.type = slot.type /\ pc' = "io_width"
    BY <2>2 DEF Go, SlotType
  <2> QED  BY <2>1, <2>2, <2>3, <2>4, LateForeseen
<1>2. CASE \/ sd_mmc_configure_slot("conf_width",
                IF isSdio THEN "io_hs" ELSE IF slot.version > 1 THEN "cmd6" ELSE "conf_hs")
           \/ sd_mmc_configure_slot("conf_hs", IF isSd THEN "cmd16" ELSE "done")
           \/ sd_mmc_configure_slot("conf_m_width", "m_hs")
           \/ pc = "conf_mmc" /\ drv' = BusOf(slot) /\ pc' = "m_cmd16" /\ retry' = 10
              /\ UNCHANGED <<env, slot, ret, v2, counts>>
  <2>1. UNCHANGED <<card, swapped, slot>>
            /\ pc \in {"conf_width", "conf_hs", "conf_m_width", "conf_mmc"}
        /\ pc' \in {"io_hs", "cmd6", "conf_hs", "cmd16", "done", "m_hs", "m_cmd16"}
        /\ (pc \in {"conf_m_width", "conf_mmc"} => pc' \in {"m_hs", "m_cmd16"})
        /\ (pc' = "cmd6" => slot.version > 1)
    BY <1>2 DEF sd_mmc_configure_slot, env
  <2> QED  BY <2>1, LateForeseen
<1>3. CASE (pc = "done" /\ Installed /\ UNCHANGED env)
          \/ (pc = "cmd16" /\ Exchange("CMD16", Installed, InitFails)) \/ Cmd16Again
  <2>1. pc = "done" \/ (pc \in {"cmd16", "m_cmd16"} /\ Answers("CMD16"))
    BY <1>3, LateAnswers DEF Cmd16Again
  <2>2. Installed
    BY <1>3, <2>1 DEF Exchange, Cmd16Again
  <2> QED  BY <2>2 DEF Installed, Return, SlotType
<1> QED  BY <1>1, <1>2, <1>3

\* The reset, and the questions which kind of card it is.
LEMMA EarlyForeseen ==
  ASSUME SdInv, Foreseen, card.kind \in Memory, faults' = faults,
         \/ ResetCards \/ sd_cmd8 \/ sdio_op_cond \/ sd_mci_op_cond \/ mmc_mci_op_cond
         \/ pc = "m_cmd0" /\ Exchange("CMD0", Go(slot, "m_cmd1"), Go(slot, "m_cmd1"))
  PROVE  GoesWell
<1> slot \in SlotType /\ faults \in Nat /\ Sound(card)
  BY SdAssumption DEF SdInv, SdTyped, SdAssumption, SlotType, CardInv
<1>0. ~swapped /\ (pc \in {"cmd52", "cmd0", "cmd8", "cmd5"} => ~isSdio)
  BY DEF Foreseen, SdInv, TypeInv, isSdio
<1> USE DEF GoesWell, Early
<1>1. CASE pc = "cmd52" /\ ResetCards
  <2>1. Go(slot, "cmd0") /\ swapped' = swapped
        /\ card' = (IF Answers("IO_RESET") THEN After(card, "IO_RESET") ELSE card)
    BY <1>1 DEF ResetCards, Exchange
  <2>2. card.kind = "COMBO" => Answers("IO_RESET")
    BY DEF Answers, Executes, Io
  <2>3. card'.kind = "COMBO" => ~card'.io
    BY <2>1, <2>2 DEF After, Card, Sound, Cards
  <2> QED  BY <1>0, <1>1, <2>1, <2>3 DEF Go, Foreseen, LateSd
<1>2. CASE \/ pc = "cmd0" /\ ResetCards
           \/ pc = "m_cmd0" /\ Exchange("CMD0", Go(slot, "m_cmd1"), Go(slot, "m_cmd1"))
  <2>1. Answers("CMD0")
    BY DEF Answers, Executes
  <2>2. Go(slot, "cmd8") \/ Go(slot, "m_cmd1")
    BY <1>2 DEF ResetCards, Exchange
  <2>3. card' = After(card, "CMD0") /\ swapped' = swapped
    BY <1>2, <2>1 DEF ResetCards, Exchange
  <2>4. card'.st = "idle" /\ card'.io = card.io /\ card'.kind = card.kind
    BY <2>3 DEF After, Card
  <2>5. \/ pc = "cmd0" /\ pc' = "cmd8"
        \/ pc = "m_cmd0" /\ pc' = "m_cmd1" /\ card.kind \in Mmc
    BY <1>2 DEF ResetCards, Exchange, Go, Foreseen
  <2>6. slot' = slot
    BY <2>2 DEF Go
  <2> QED
    BY <1>0, <2>3, <2>4, <2>5, <2>6 DEF Foreseen, LateSd, isSdio
<1>3. CASE sd_cmd8
  <2>1. pc = "cmd8" /\ card.st = "idle"
    BY <1>3 DEF sd_cmd8, Foreseen
  <2>2. card.kind \in SdMem \cap HighCap => Answers("CMD8")
    BY <2>1 DEF Answers, Executes, HighCap
  <2>3. card' = card /\ swapped' = swapped /\ pc' = "cmd5" /\ slot' = slot
        /\ (Answers("CMD8") => v2')
    <3>1. After(card, "CMD8") = card
      BY DEF After
    <3> QED  BY <1>3, <3>1 DEF sd_cmd8, Exchange
  <2> QED  BY <1>0, <2>1, <2>2, <2>3 DEF Foreseen, LateSd
<1>4. CASE sdio_op_cond
  <2>1. pc = "cmd5" /\ card.st = "idle" /\ ~isSdio
    BY <1>0, <1>4 DEF sdio_op_cond, Foreseen
  <2>2. CASE Answers("CMD5")
    <3>1. card.kind = "COMBO"
      BY <2>2 DEF Answers, Executes, Io, Memory, SdMem, Mmc, Mmc4
    <3>2. card' = After(card, "CMD5") /\ swapped' = swapped
          /\ Go([slot EXCEPT !.type = {"SD", "SDIO"}], "acmd41")
      BY <1>4, <2>2, <3>1 DEF sdio_op_cond, Exchange
    <3>3. card'.io = TRUE /\ card'.st = card.st /\ card'.kind = card.kind
      BY <3>1, <3>2 DEF After, Card
    <3> QED  BY <1>0, <2>1, <3>1, <3>2, <3>3 DEF Go, counts, Foreseen, LateSd
  <2>3. CASE ~Answers("CMD5")
    <3>1. UNCHANGED <<card, swapped>> /\ Go(slot, "acmd41")
      BY <1>4, <2>3 DEF sdio_op_cond, Exchange
    <3> QED  BY <1>0, <2>1, <3>1 DEF Go, counts, Foreseen, LateSd, isSdio
  <2> QED  BY <2>2, <2>3
<1>5. CASE sd_mci_op_cond
  <2>1. pc = "acmd41" /\ card.st = "idle"
    BY <1>5 DEF sd_mci_op_cond, Foreseen
  <2>2. card.kind \in SdMem => Answers("ACMD41")
    BY <2>1 DEF Answers, Executes, Foreseen
  <2>3. CASE Answers("ACMD41")
    <3>1. card' = After(card, "ACMD41") /\ swapped' = swapped /\ Go(WithHc, "cmd2")
      BY <1>5, <2>3 DEF sd_mci_op_cond, Exchange
    <3>2. card'.io = card.io
      BY <3>1 DEF After, Sound, Cards
    <3>3. "SDIO" \in slot'.type => isSdio
      BY <3>1 DEF Go, WithHc, SlotType, isSdio
    <3>4. isSdio => card.io
      BY <2>1 DEF Foreseen
    <3> QED  BY <1>0, <3>1, <3>2, <3>3, <3>4 DEF Go, Foreseen, isSdio, Late, LateSd
  <2>4. CASE ~Answers("ACMD41")
    <3>1. UNCHANGED <<card, swapped>> /\ Go(NowMmc, "m_cmd0")
      BY <1>5, <2>4 DEF sd_mci_op_cond, Exchange
    <3>2. card.kind \in Mmc
      BY <2>2, <2>4 DEF Memory
    <3> QED  BY <1>0, <3>1, <3>2 DEF Go, Foreseen, LateSd
  <2> QED  BY <2>3, <2>4
<1>6. CASE mmc_mci_op_cond
  <2>1. pc = "m_cmd1" /\ card.st = "idle" /\ card.kind \in Mmc
    BY <1>6 DEF mmc_mci_op_cond, Step, Foreseen
  <2>2. Answers("CMD1")
    BY <2>1 DEF Answers, Executes
  <2>3. swapped' = swapped /\ Go(WithHc, "m_cmd2")
    BY <1>6, <2>2, StepAnswered DEF mmc_mci_op_cond
  <2> QED  BY <1>0, <2>3 DEF Go, Foreseen, Late, LateMmc, LateSd
<1> QED  BY <1>1, <1>2, <1>3, <1>4, <1>5, <1>6 DEF ResetCards

LEMMA RunningForeseen ==
  ASSUME SdInv, Foreseen, card.kind \in Memory, VersionTold, faults' = faults, Running
  PROVE  GoesWell
<1>1. ~(InitBlocks \/ SdioAccess \/ StopTransmission)
  <2>1. pc \notin Calls
    BY DEF Foreseen, Early, Late, LateSd, LateMmc, Calls
  <2> QED  BY <2>1 DEF InitBlocks, sd_mmc_cmd13, SdioAccess, sdio_cmd52, sdio_cmd53,
          StopTransmission, Calls
<1> QED
  BY <1>1, EarlyForeseen, LaterForeseen, MmcForeseen, LastForeseen
  DEF Running, SetWidth, SetSpeed, InstallMmc

-----------------------------------------------------------------------------
\* What a step of a running call does to the flags, and to the count of the faults.
Types == slot'.type = slot.type \/ slot'.type \cap {"SD", "MMC"} # {}
Faults == faults' \in {faults, faults + 1}

LEMMA StepTypes ==
  ASSUME slot \in SlotType, NEW at, NEW cmd, NEW s, NEW next, Step(at, cmd, s, next),
         s.type = slot.type \/ s.type \cap {"SD", "MMC"} # {}
  PROVE  Types /\ Faults
BY DEF Step, Exchange, InitFails, Return, Go, SlotType, Types, Faults

LEMMA RunningTypes ==
  ASSUME SdInv, FlagsInv, Running
  PROVE  Types /\ Faults
<1> slot \in SlotType
  BY DEF SdInv, SdTyped, SlotType
<1>1. CASE ResetCards \/ (pc = "m_cmd0" /\ Exchange("CMD0", Go(slot, "m_cmd1"), Go(slot, "m_cmd1")))
  BY <1>1 DEF ResetCards, Exchange, Go, Types, Faults
<1>2. CASE sd_cmd8
  BY <1>2 DEF sd_cmd8, Exchange, InitFails, Return, SlotType, Types, Faults
<1>3. CASE sdio_op_cond
  <2>1. Answers("CMD5") => card.kind = "COMBO"
    BY DEF Answers, Executes, FlagsInv, Memory, SdMem, Mmc, Mmc4, Io
  <2> QED
    BY <1>3, <2>1 DEF sdio_op_cond, Exchange, InitFails, Return, Go, SlotType, Types, Faults
<1>4. CASE sd_mci_op_cond
  <2>1. WithHc.type \cap {"SD", "MMC"} = slot.type \cap {"SD", "MMC"}
    BY DEF WithHc, SlotType
  <2>2. slot.type \cap {"SD", "MMC"} # {}
    BY <1>4 DEF sd_mci_op_cond, FlagsInv, Early
  <2> QED
    BY <1>4, <2>1, <2>2 DEF sd_mci_op_cond, Exchange, Go, NowMmc, SlotType, Types, Faults
<1>5. CASE Identify
  <2>1. CASE sd_decode_csd
    BY <2>1, StepTypes DEF sd_decode_csd, SlotType
  <2>3. CASE sd_acmd51
    <3>1. PICK v, next : Step("acmd51", "ACMD51", [slot EXCEPT !.version = v], next)
      BY <2>3 DEF sd_acmd51
    <3> QED  BY <3>1, StepTypes DEF SlotType
  <2>2. CASE Step("cmd3", "CMD3", [slot EXCEPT !.rca = card'.rca], IF isSd THEN "cmd9" ELSE "cmd7")
    <3>1. PICK s : s = [slot EXCEPT !.rca = card'.rca]
      OBVIOUS
    <3>2. s.type = slot.type
      BY <3>1 DEF SlotType
    <3> QED  BY <2>2, <3>1, <3>2, StepTypes
  <2> QED  BY <1>5, <2>1, <2>2, <2>3, StepTypes DEF Identify
<1>6. CASE sdio_get_max_speed
  BY <1>6 DEF sdio_get_max_speed, Exchange, InitFails, Return, Go, SlotType, Types, Faults
<1>7. CASE sdio_cmd52_set_bus_width \/ sd_acmd6 \/ sdio_cmd52_set_high_speed
          \/ sd_cm6_set_high_speed
  <2>1. Width4.type = slot.type /\ SetHs(slot).type = slot.type
        /\ AssumeHs(slot).type = slot.type
    BY DEF Width4, SetHs, AssumeHs, SlotType
  <2>2. (IF card.kind = "COMBO" THEN Width4 ELSE slot).type = slot.type
    BY <2>1
  <2>3. CASE sd_cm6_set_high_speed
    <3>1. PICK s \in {SetHs(slot), AssumeHs(slot)} : Step("cmd6", "CMD6", s, "conf_hs")
      BY <2>3 DEF sd_cm6_set_high_speed, ReadBack
    <3> QED  BY <2>1, <3>1, StepTypes
  <2> QED
    BY <1>7, <2>1, <2>2, <2>3, StepTypes
    DEF sdio_cmd52_set_bus_width, sd_acmd6, sdio_cmd52_set_high_speed
<1>8. CASE mmc_mci_op_cond
  <2>1. WithHc.type = slot.type \/ WithHc.type \cap {"SD", "MMC"} = slot.type \cap {"SD", "MMC"}
    BY DEF WithHc, SlotType
  <2>2. slot.type \cap {"SD", "MMC"} # {}
    BY <1>8 DEF mmc_mci_op_cond, Step, FlagsInv, Early
  <2> QED  BY <1>8, <2>1, <2>2, StepTypes DEF mmc_mci_op_cond
<1>9. CASE \/ mmc_decode_csd \/ mmc_cmd8 \/ mmc_cmd6_set_bus_width \/ mmc_cmd6_set_high_speed
           \/ Step("m_cmd2", "CMD2", [slot EXCEPT !.rca = 1], "m_cmd3")
           \/ Step("m_cmd3", "CMD3_MMC", slot, "m_cmd9")
           \/ Step("m_cmd7", "CMD7", slot, IF slot.version >= 4 THEN "m_ext_csd" ELSE "conf_mmc")
  <2>1. /\ Width4.type = slot.type
        /\ [slot EXCEPT !.rca = 1].type = slot.type
        /\ [slot EXCEPT !.hs = 1, !.clock = 2].type = slot.type
        /\ [slot EXCEPT !.clock = 1, !.version = IF card.kind \in Mmc4 THEN 4
           ELSE 3].type = slot.type
    BY DEF Width4, SlotType
  <2>2. CASE mmc_cmd8
    <3>1. PICK next : Step("m_ext_csd", "EXT_CSD", slot, next)
      BY <2>2 DEF mmc_cmd8
    <3> QED  BY <3>1, StepTypes
  <2>3. CASE mmc_cmd6_set_bus_width
    <3>1. PICK at, next : Step(at, "CMD6_WIDTH", Width4, next)
      BY <2>3 DEF mmc_cmd6_set_bus_width
    <3> QED  BY <2>1, <3>1, StepTypes
  <2> QED
    BY <1>9, <2>1, <2>2, <2>3, StepTypes DEF mmc_decode_csd, mmc_cmd6_set_high_speed
<1>10. CASE \/ sd_mmc_configure_slot("conf_width",
                 IF isSdio THEN "io_hs" ELSE IF slot.version > 1 THEN "cmd6" ELSE "conf_hs")
            \/ sd_mmc_configure_slot("conf_hs", IF isSd THEN "cmd16" ELSE "done")
            \/ sd_mmc_configure_slot("conf_m_width", "m_hs")
            \/ pc = "conf_mmc" /\ drv' = BusOf(slot) /\ pc' = "m_cmd16" /\ retry' = 10
               /\ UNCHANGED <<env, slot, ret, v2, counts>>
  BY <1>10 DEF sd_mmc_configure_slot, env, Types, Faults
<1>11. CASE (pc = "done" /\ Installed /\ UNCHANGED env)
           \/ (pc = "cmd16" /\ Exchange("CMD16", Installed, InitFails)) \/ Cmd16Again
  BY <1>11 DEF Cmd16Again, Exchange, Installed, InitFails, Return, env, SlotType, Types, Faults
<1>12. CASE InitBlocks \/ SdioAccess \/ StopTransmission
  BY <1>12
  DEF InitBlocks, sd_mmc_cmd13, SdioAccess, sdio_cmd52, sdio_cmd53, StopTransmission, Exchange,
      refused, Return, Go, Types, Faults
<1> QED
  BY <1>1, <1>2, <1>3, <1>4, <1>5, <1>6, <1>7, <1>8, <1>9, <1>10, <1>11, <1>12
  DEF Running, SetWidth, SetSpeed, InstallMmc

\* The calls that only select the slot keep its flags, and leave a ready one as it is.
LEMMA SelectFlags ==
  ASSUME SdInv, FlagsInv, pc = "idle", slot' = sd_mmc_select_slot, card'.kind = card.kind,
         pc' \in {"idle"} \cup Calls \/ slot'.state = "READY"
  PROVE  FlagsInv'
<1>1. slot'.state \in {"INIT", "READY"} /\ (slot'.state = "READY" => slot' = slot)
  BY Selecting
<1>2. pc' \in {"idle"} \cup Calls => pc' \notin Early \cup Late
  BY DEF Early, Late, LateSd, LateMmc, Calls
<1> QED  BY <1>1, <1>2 DEF FlagsInv, VersionTold

LEMMA FlagsStep ==
  ASSUME OnlyMemory /\ NoStaleVersion, DiskInv, FlagsInv, [DiskNext]_allVars
  PROVE  FlagsInv'
<1> SdInv
  BY DEF DiskInv
<1>0. ASSUME UNCHANGED <<card, slot, pc>>  PROVE FlagsInv'
  BY <1>0 DEF FlagsInv, VersionTold
<1>1. CASE ChangeCard
  <2>1. UNCHANGED <<slot, pc>>
    BY <1>1 DEF ChangeCard, World, Remove, Insert, host
  <2>2. card'.kind \in Inserted \cup {"none"}
    BY <1>1 DEF ChangeCard, World, Remove, Insert, NoCard, PowerUp, Card
  <2> QED  BY <2>1, <2>2 DEF FlagsInv, VersionTold, OnlyMemory, NoStaleVersion
<1>2. CASE Continue
  <2>1. GoesOn /\ Types
    BY <1>2, RunningGoesOn, RunningTypes DEF Continue
  <2>2. card'.kind = card.kind /\ Path /\ pc # "idle"
    BY <2>1 DEF GoesOn, CardStays
  <2>3. ASSUME slot'.type \cap {"SD", "MMC"} = {}, slot'.state = "READY" \/ pc' \in Early \cup Late
        PROVE  FALSE
    <3>1. slot.type \cap {"SD", "MMC"} = {}
      BY <2>1, <2>3 DEF Types
    <3>2. slot.state # "READY" /\ pc \notin Early \cup Late
      BY <3>1 DEF FlagsInv, VersionTold
    <3>3. pc \in Calls
      BY <2>2, <3>2 DEF SdInv, SdTyped
    <3> QED  BY <3>2, <3>3 DEF SdInv, SlotInv
  <2> QED  BY <2>2, <2>3 DEF FlagsInv, VersionTold
<1>3. CASE Begin \/ BeginTransfer \/ sd_mmc_unload \/ Proceed \/ EndTransfer
  <2>1. UNCHANGED sdVars
    <3>1. BeginTransfer => UNCHANGED sdVars
      BY DEF BeginTransfer
    <3> QED  BY <1>3, <3>1 DEF Begin, sd_mmc_unload, Proceed, EndTransfer
  <2>2. UNCHANGED <<card, slot, pc>>
    BY <2>1 DEF sdVars, env, host
  <2> QED  BY <1>0, <2>2
<1>4. ASSUME sd_mmc_get  PROVE FlagsInv'
  <2>1. pc = "idle" /\ slot' = sd_mmc_select_slot /\ card' = card /\ pc' = pc
    BY <1>4 DEF sd_mmc_get, Free, env
  <2> QED  BY <2>1, SelectFlags
<1>5. CASE sd_mmc_read_capacity
  BY <1>4, <1>5 DEF sd_mmc_read_capacity
<1>6. CASE TestReady
  <2>1. CASE sd_mmc_check
    <3>1. pc = "idle" /\ card' = card
      BY <2>1 DEF sd_mmc_check, Free
    <3>2. CASE sd_mmc_select_slot.state = "INIT"
      <4>1. slot' = TrySd(sd_mmc_select_slot) /\ sd_mmc_select_slot \in SlotType
        BY <2>1, <3>1, <3>2, Selecting DEF sd_mmc_check
      <4>2. slot'.type = {"SD"}
        BY <4>1 DEF TrySd, SlotType
      <4> QED  BY <3>1, <4>2 DEF FlagsInv, VersionTold
    <3>3. CASE sd_mmc_select_slot.state # "INIT"
      <4>1. slot' = sd_mmc_select_slot /\ pc' = pc
        BY <2>1, <3>3 DEF sd_mmc_check
      <4> QED  BY <3>1, <4>1, SelectFlags
    <3> QED  BY <3>2, <3>3
  <2> QED  BY <1>4, <1>6, <2>1 DEF TestReady, Call
<1>7. CASE InitTransfer
  <2>1. CallOn("cmd13", 1, "read") \/ CallOn("write", 1, "write")
    BY <1>7 DEF InitTransfer, Call, sd_mmc_init_read_blocks, sd_mmc_init_write_blocks
  <2>2. pc = "idle" /\ slot' = sd_mmc_select_slot /\ card' = card /\ pc' \in {"idle"} \cup Calls
    BY <2>1 DEF CallOn, Free, env, Calls
  <2> QED  BY <2>2, SelectFlags
<1>8. CASE StartTransfer
  <2>1. UNCHANGED <<card, slot>> /\ pc' = "started"
    BY <1>8 DEF StartTransfer, Call, sd_mmc_start_blocks, env
  <2> QED  BY <2>1 DEF FlagsInv, VersionTold, Early, Late, LateSd, LateMmc
<1>9. CASE WaitTransfer
  <2>1. pc = "started" /\ slot' = slot /\ pc' \in {"idle", "cmd12"}
            /\ (Missed("DATA") \/ Executed("DATA"))
    BY <1>9 DEF WaitTransfer, sd_mmc_wait_end_of_blocks, Exchange, Return, Missed, Executed
  <2>2. card'.kind = card.kind
    BY <2>1, MissedCard, ExecutedCard DEF SdInv, CardInv, Commands
  <2> QED  BY <2>1, <2>2 DEF FlagsInv, VersionTold, Early, Late, LateSd, LateMmc
<1>10. CASE UNCHANGED allVars
  BY <1>0, <1>10 DEF allVars, sdVars, env, host
<1> QED
  BY <1>1, <1>2, <1>3, <1>5, <1>6, <1>7, <1>8, <1>9, <1>10 DEF DiskNext, Host

\* A step that is no part of a disk_initialize.
LEMMA OtherJob ==
  ASSUME job'.op # "initialize"
  PROVE  FirstTryInv'
BY DEF FirstTryInv, Calm

LEMMA FirstTryStep ==
  ASSUME DiskInv, FlagsInv, FirstTryInv, [DiskNext]_allVars
  PROVE  FirstTryInv'
<1> SdInv /\ job \in JobType
  BY DEF DiskInv, JobInv
<1> faults \in Nat
  BY SdAssumption DEF SdInv, SdTyped, SdAssumption
<1>0. ASSUME UNCHANGED <<card, slot, pc, ret, swapped, v2, faults, job>>  PROVE FirstTryInv'
  BY <1>0 DEF FirstTryInv, Calm, Foreseen, isSdio
<1>1. CASE ChangeCard
  <2>1. CASE job.op = "none"
    <3>1. job'.op = "none"
      BY <1>1, <2>1 DEF ChangeCard, JobType
    <3> QED  BY <3>1, OtherJob
  <2>2. CASE job.op # "none"
    <3> DEFINE b == job.op # "none"
    <3>1. job' = [job EXCEPT !.lost = b] /\ b = TRUE /\ UNCHANGED <<faults>>
      BY <1>1, <2>2 DEF ChangeCard, World, Remove, Insert
    <3>2. job'.lost = TRUE /\ job'.op = job.op /\ job'.faults = job.faults /\ job'.tries = job.tries
      BY <3>1 DEF JobType
    <3>3. ~Calm'
      BY <3>2 DEF Calm
    <3> QED  BY <3>1, <3>2, <3>3 DEF FirstTryInv
  <2> QED  BY <2>1, <2>2
<1>2. CASE Continue
  <2>1. GoesOn /\ Types /\ Faults /\ Running /\ job' = job
    BY <1>2, RunningGoesOn, RunningTypes DEF Continue
  <2>2. card'.kind = card.kind /\ pc # "idle" /\ pc # "started"
    BY <2>1 DEF GoesOn, CardStays
  <2>3. job.op = "initialize" => job.faults <= faults' /\ job.tries \in {1, 2} /\ job.faults \in Nat
    BY <2>1 DEF FirstTryInv, Faults, JobType
  <2>4. ASSUME Calm'
        PROVE  job.at = "checked" /\ job.tries = 2 /\ GoesWell
    <3>1. faults' = faults /\ Calm
      BY <2>1, <2>2, <2>3, <2>4 DEF Calm, Faults, FirstTryInv
    <3>2. job.at = "checked"
      BY <2>2, <3>1 DEF Calm, DiskInv, JobInv, JobType, Transfers
    <3>3. Foreseen
      BY <2>2, <3>1, <3>2 DEF FirstTryInv
    <3>4. slot.state # "READY"
      BY <3>3 DEF Foreseen, SdInv, SlotInv
    <3>5. job.tries # 1
      BY <3>1, <3>4 DEF FirstTryInv
    <3>6. GoesWell
      BY <2>1, <3>1, <3>3, RunningForeseen DEF Calm, FlagsInv
    <3> QED  BY <2>3, <2>4, <3>1, <3>2, <3>5, <3>6 DEF Calm
  <2> QED  BY <2>1, <2>3, <2>4 DEF FirstTryInv, GoesWell
<1>3. CASE Begin
  <2>1. PICK op \in {"initialize", "status", "sync", "wait"} : job' = Ask(op)
    BY <1>3 DEF Begin
  <2>2. job'.faults = faults /\ job'.tries = 2 /\ job'.at = "check"
    BY <2>1 DEF Ask, NoJob
  <2>3. faults' = faults
    BY <1>3 DEF Begin, sdVars, env
  <2> QED  BY <2>2, <2>3 DEF FirstTryInv
<1>4. CASE BeginTransfer
  <2>1. PICK r \in Reqs : job' = [Ask(r.op) EXCEPT !.at = "capacity", !.first = r.first,
            !.count = r.count]
    BY <1>4 DEF BeginTransfer
  <2>2. job'.op = r.op /\ r.op \in {"read", "write"}
    BY <2>1, DiskAssumption DEF Ask, NoJob, DiskAssumption
  <2> QED  BY <2>2, OtherJob
<1>5. CASE sd_mmc_unload \/ UNCHANGED allVars
  BY <1>0, <1>5 DEF sd_mmc_unload, allVars, diskVars, sdVars, env, host
<1>6. ASSUME job.op # "initialize", job'.op \in {job.op, "none"}  PROVE FirstTryInv'
  BY <1>6, OtherJob
<1>7. CASE sd_mmc_read_capacity \/ InitTransfer \/ StartTransfer \/ WaitTransfer \/ EndTransfer
  <2>1. job.at \in {"capacity", "init", "inited", "started", "failed"}
    BY <1>7 DEF sd_mmc_read_capacity, InitTransfer, StartTransfer, WaitTransfer, EndTransfer, Call
  <2>2. job.op # "initialize"
    BY <2>1 DEF DiskInv, JobInv, Transfers
  <2>3. job'.op \in {job.op, "none"}
    <3>1. CASE sd_mmc_read_capacity
      <4>1. PICK n : job' = [job EXCEPT !.at = "check", !.last = n]
        BY <3>1 DEF sd_mmc_read_capacity
      <4> QED  BY <4>1 DEF JobType
    <3>2. CASE InitTransfer \/ StartTransfer
      BY <3>2 DEF InitTransfer, StartTransfer, Call, JobType
    <3>3. CASE WaitTransfer
      BY <3>3 DEF WaitTransfer, JobType
    <3>4. CASE EndTransfer
      BY <3>4 DEF EndTransfer, Finish, NoJob
    <3> QED  BY <1>7, <3>1, <3>2, <3>3, <3>4
  <2> QED  BY <1>6, <2>2, <2>3
<1>8. CASE Call("check", sd_mmc_check, "checked")
  <2>1. /\ job.at = "check" /\ pc = "idle" /\ job' = [job EXCEPT !.at = "checked"]
        /\ UNCHANGED <<card, faults>>
    BY <1>8 DEF Call, sd_mmc_check
  <2>2. /\ job'.at = "checked" /\ job'.op = job.op /\ job'.tries = job.tries
        /\ job'.faults = job.faults /\ job'.lost = job.lost
    BY <2>1 DEF JobType
  <2>3. Calm' => Calm
    BY <2>1, <2>2 DEF Calm
  <2> DEFINE s == sd_mmc_select_slot
  <2>4. s \in SlotType /\ s.state \in {"INIT", "READY"} /\ (s.state = "READY" => s = slot)
    BY <2>1, Selecting
  <2>5. CASE s.state = "INIT"
    <3>1. slot.state # "READY"
      BY <2>5 DEF sd_mmc_select_slot
    <3>2. slot' = TrySd(s) /\ pc' = "cmd52" /\ swapped' = FALSE
      BY <1>8, <2>5 DEF Call, sd_mmc_check
    <3>3. Foreseen'
      BY <3>2 DEF Foreseen, Early, LateSd
    <3>4. Calm => job.tries # 1
      BY <3>1 DEF FirstTryInv
    <3> QED  BY <2>1, <2>2, <2>3, <3>2, <3>3, <3>4 DEF FirstTryInv
  <2>6. CASE s.state = "READY"
    <3>1. slot' = slot /\ slot.state = "READY" /\ ret' = "OK" /\ pc' = "idle"
      BY <1>8, <2>1, <2>4, <2>6 DEF Call, sd_mmc_check
    <3> QED  BY <2>1, <2>2, <3>1 DEF FirstTryInv
  <2> QED  BY <2>4, <2>5, <2>6
<1>9. CASE ret = "OK" /\ job.op # "wait" /\ Call("checked", sd_mmc_get, "typed")
  <2>1. /\ job.at = "checked" /\ pc = "idle" /\ job' = [job EXCEPT !.at = "typed"]
        /\ UNCHANGED <<card, faults>> /\ slot' = sd_mmc_select_slot
        /\ ret' = (IF slot'.state = "INIT" THEN "UNKNOWN" ELSE "OK")
    BY <1>9 DEF Call, sd_mmc_get, env
  <2>2. /\ job'.at = "typed" /\ job'.op = job.op /\ job'.tries = job.tries
        /\ job'.faults = job.faults
    BY <2>1 DEF JobType
  <2>3. slot.state = "READY"
    BY <1>9, <2>1 DEF SdInv, SlotInv
  <2>4. slot' = slot /\ ret' = "OK"
    BY <2>1, <2>3 DEF sd_mmc_select_slot
  <2> QED  BY <2>1, <2>2, <2>3, <2>4 DEF FirstTryInv
<1>10. CASE Proceed
  <2>1. UNCHANGED <<card, slot, pc, ret, swapped, v2, faults>> /\ pc = "idle" /\ Tested
    BY <1>10 DEF Proceed, sdVars, env, host
  <2>2. CASE job.op # "initialize"
    <3>1. job'.op \in {job.op, "none"}
      BY <1>10, <2>2 DEF Proceed, Waited, Finish, Goto, NoJob, JobType
    <3> QED  BY <1>6, <2>2, <3>1
  <2>3. CASE job.op = "initialize" /\ job' = NoJob
    BY <2>3, OtherJob DEF NoJob
  <2>4. CASE job.op = "initialize" /\ job' # NoJob
    <3>1. Ctrl_status = "BUSY" /\ job' = [job EXCEPT !.at = "check", !.tries = @ - 1]
          /\ job.tries > 1
      BY <1>10, <2>4 DEF Proceed, Finish
    <3>2. job.tries = 2
      BY <2>4, <3>1 DEF FirstTryInv
    <3>3. /\ job'.at = "check" /\ job'.op = job.op /\ job'.tries = 1
          /\ job'.faults = job.faults /\ job'.lost = job.lost
      BY <3>1, <3>2 DEF JobType
    <3>4. Calm' => Calm
      BY <2>1, <3>3 DEF Calm
    <3>5. ret = "INIT_ONGOING"
      BY <3>1 DEF Ctrl_status
    <3>6. Calm => slot.state = "READY"
      BY <2>1, <3>5 DEF Tested, FirstTryInv
    <3> QED  BY <2>1, <3>3, <3>4, <3>6 DEF FirstTryInv
  <2> QED  BY <2>2, <2>3, <2>4
<1> QED
  BY <1>1, <1>2, <1>3, <1>4, <1>5, <1>7, <1>8, <1>9, <1>10 DEF DiskNext, Host, TestReady

\* A disk_initialize that nothing disturbs answers OK at its first call, although the stack
\* first says that the initialization is going on, and has then installed the card, unless
\* that has taken the place of an installed one; for any memory cards, and whatever went
\* wrong before.  (The version of an SD card of version 1 must not be read from a stale
\* line: CMD6 would be sent to it.)
THEOREM FirstCallSuffices ==
  ASSUME OnlyMemory /\ NoStaleVersion PROVE DiskSpec => InitializeSuffices
<1> DEFINE I == DiskInv /\ FlagsInv /\ FirstTryInv
<1> DEFINE A == job.op = "initialize" /\ job'.op = "none" =>
                  \/ card.kind \notin Memory \/ ejected \/ job.lost \/ faults # job.faults
                  \/ status' = "OK" /\ (swapped \/ card.st \in {"tran", "one", "many"})
<1>1. DiskInit => I
  <2> SUFFICES ASSUME DiskInit PROVE I
    OBVIOUS
  <2>1. card.kind = "none" /\ slot.state = "NO_CARD" /\ pc = "idle" /\ job.op = "none"
    BY DEF DiskInit, SdInit, NoCard, PowerUp, Card, NoJob
  <2> QED  BY <2>1, DiskStart DEF FlagsInv, VersionTold, FirstTryInv, Calm, Early, Late,
     LateSd, LateMmc
<1>2. I /\ [DiskNext]_allVars => I'
  BY DiskSteps, FlagsStep, FirstTryStep
<1>3. I /\ [DiskNext]_allVars => [A]_allVars
  <2> SUFFICES ASSUME I, DiskNext, job.op = "initialize", job'.op = "none", Calm, ~ejected
               PROVE  status' = "OK" /\ (swapped \/ card.st \in {"tran", "one", "many"})
    BY DEF Calm, DiskInv, JobInv, JobType
  <2>1. job \in JobType /\ SdInv
    BY DEF DiskInv, JobInv
  <2>2. Proceed
    <3>1. ~(sd_mmc_read_capacity \/ InitTransfer \/ StartTransfer \/ WaitTransfer \/ EndTransfer)
      <4>1. job.at \notin {"capacity", "init", "inited", "started", "failed"}
        BY DEF DiskInv, JobInv, Transfers
      <4> QED
        BY <4>1 DEF sd_mmc_read_capacity, InitTransfer, StartTransfer, WaitTransfer, EndTransfer,
           Call
    <3>2. ~(Begin \/ BeginTransfer)
      <4>1. job.at # "free"
        BY DEF DiskInv, JobInv
      <4>2. ~Begin
        BY <4>1 DEF Begin
      <4>3. ~BeginTransfer
        BY <4>1, Zenon DEF BeginTransfer
      <4> QED  BY <4>2, <4>3
    <3>3. ~(ChangeCard \/ Continue \/ sd_mmc_unload)
      BY <2>1 DEF ChangeCard, Continue, sd_mmc_unload, JobType
    <3>4. ~TestReady
      BY <2>1 DEF TestReady, Call, JobType
    <3> QED  BY <3>1, <3>2, <3>3, <3>4 DEF DiskNext, Host
  <2>3. pc = "idle" /\ Tested
    BY <2>2 DEF Proceed
  <2>4. slot.state = "READY" /\ (job.at = "typed" => ret = "OK")
        /\ (job.at = "checked" => ret \in {"OK", "INIT_ONGOING"} /\ (job.tries = 1 => ret = "OK"))
    BY <2>3 DEF Tested, FirstTryInv
  <2>5. CASE ret = "OK"
    <3>1. slot.type \cap {"SD", "MMC"} # {}
      BY <2>4 DEF FlagsInv
    <3>2. Ctrl_status = "GOOD"
      BY <2>5, <3>1 DEF Ctrl_status
    <3>3. status' = "OK"
      BY <2>2, <3>2 DEF Proceed, Finish, Transfers
    <3>4. ~swapped => card.st \in {"tran", "one", "many"}
      BY <2>1, <2>4 DEF SdInv, ReadyInv, Present
    <3> QED  BY <3>3, <3>4
  <2>6. CASE ret # "OK"
    <3>1. ret = "INIT_ONGOING" /\ job.tries = 2
      BY <2>3, <2>4, <2>6 DEF Tested, FirstTryInv
    <3>2. Ctrl_status = "BUSY"
      BY <3>1 DEF Ctrl_status
    <3>3. job' = [job EXCEPT !.at = "check", !.tries = @ - 1]
      BY <2>2, <3>1, <3>2 DEF Proceed
    <3> QED  BY <2>1, <3>3 DEF JobType
  <2> QED  BY <2>5, <2>6
<1> QED  BY <1>1, <1>2, <1>3, PTL DEF DiskSpec, InitializeSuffices
=============================================================================
