------------------------------- MODULE SdMmc -------------------------------
(***************************************************************************)
(* The SD/MMC stack, sd_mmc.c, over the HSMCI driver: how a card is found  *)
(* out and installed (sd_mmc_check), and how blocks are transferred.       *)
(*                                                                         *)
(* One step is one exchange with the card, because between any two of them *)
(* the card may be taken out or changed, and any command or answer may be  *)
(* lost.  The stack is single-threaded: a call runs from pc = "idle" back  *)
(* to pc = "idle", where ret holds what it returned.  The build has no     *)
(* card-detect pin (SD_MMC_0_CD_GPIO is not defined), one slot of 4 lines  *)
(* and a driver capable of high speed.                                     *)
(*                                                                         *)
(* A busy card answers CMD1, ACMD41, CMD5 and CMD13 again and again; the   *)
(* loops around them are one exchange here, and one that runs into its     *)
(* retry limit is a lost one.                                              *)
(*                                                                         *)
(* Blocks are read by DMA, behind the data cache.  xdmac_channel_enable    *)
(* (xdmac.h:365) cleans and invalidates the whole of it as each transfer   *)
(* begins, but a line the buffer shares with other data may be fetched     *)
(* again before the block arrives, and the code then reads what was there. *)
(* Which buffers share lines is the linker's and the stack's doing: Shared.*)
(* The EXT_CSD of an MMC is read word by word, not by DMA.                 *)
(***************************************************************************)
EXTENDS Integers, SdCard

CONSTANTS
  Inserted,   \* the kinds of card that may be put into the slot
  Blocks,     \* the numbers of blocks a transfer may be asked for
  Shared,     \* the buffers that share a line of the data cache with other data
  MaxSwaps,   \* bound: how often a card is put in or taken out
  MaxFaults   \* bound: how many exchanges go wrong although the card is there

ASSUME SdAssumption ==
  /\ Inserted \subseteq Kinds /\ Blocks \subseteq Nat \ {0}
  /\ Shared \subseteq {"scr", "switch_status", "data"}
  /\ MaxSwaps \in Nat /\ MaxFaults \in Nat

VARIABLES
  card, swaps, faults, \* the card, and the bounded mischief so far
  swapped,    \* history: has it been changed since the last install began?
  slot,       \* sd_mmc_cards[0]: state, type, version, rca, clock, width, hs
  drv,        \* what hsmci_select_device last wrote: clock, width, hs
  pc, ret,    \* the next exchange of the running call; the last return value
  v2,         \* local of sd_mmc_mci_card_init
  retry,      \* local of sd_mmc_mci_install_mmc
  remaining, total, \* sd_mmc_nb_block_remaining, sd_mmc_nb_block_to_tranfer
  dir         \* is it the read or the write functions that are called?

env  == <<card, swaps, faults, swapped>>
host == <<slot, drv, pc, ret, v2, retry, remaining, total, dir>>
sdVars == <<env, host>>

\* Clocks in units of 25 MHz: 0 is the 400 kHz of the identification, 1 what a
\* CSD or CIS allows, 2 high speed (50 MHz, 52 for an MMC).
Flags == {"SD", "MMC", "SDIO", "HC"}
BusOf(s) == [clock |-> s.clock, width |-> s.width, hs |-> s.hs]

SdInit ==
  /\ card = NoCard /\ swaps = 0 /\ faults = 0 /\ swapped = FALSE
  /\ slot = [state |-> "NO_CARD", type |-> {}, version |-> 0, rca |-> 0,
             clock |-> 0, width |-> 0, hs |-> 0]
  /\ drv = [clock |-> 0, width |-> 1, hs |-> 0]
  /\ pc = "idle" /\ ret = "none" /\ v2 = FALSE /\ retry = 10
  /\ remaining = 0 /\ total = 0 /\ dir = "read"

-----------------------------------------------------------------------------
(* The outside world.                                                      *)

Insert(k) ==
  /\ card = NoCard /\ swaps < MaxSwaps
  /\ card' = PowerUp(k) /\ swaps' = swaps + 1 /\ swapped' = TRUE
  /\ UNCHANGED <<faults, host>>

Remove ==
  /\ card # NoCard
  /\ card' = NoCard /\ swapped' = TRUE
  /\ UNCHANGED <<swaps, faults, host>>

Answers(cmd) == Executes(card, cmd, slot.rca, v2)

\* The command cmd is sent: Done if the card executes it and its answer comes
\* back, Fails if not.
Exchange(cmd, Done, Fails) ==
  LET reached == Answers(cmd)
  IN  /\ \/ reached /\ card' = After(card, cmd) /\ Done /\ UNCHANGED faults
         \/ ~reached /\ Fails /\ UNCHANGED <<card, faults>>
         \/ /\ reached /\ faults < MaxFaults /\ faults' = faults + 1
            /\ card' \in Disturbed(card, cmd)
            /\ Fails
      /\ UNCHANGED <<swaps, swapped>>

-----------------------------------------------------------------------------
(* The code between two exchanges.                                         *)

counts == <<remaining, total, dir>>

Go(s, next) ==
  slot' = s /\ pc' = next /\ UNCHANGED <<drv, ret, v2, retry, counts>>
Return(s, r) ==
  slot' = s /\ pc' = "idle" /\ ret' = r /\ UNCHANGED <<drv, v2, retry, counts>>

\* sd_mmc_mci_card_init has returned true or false to sd_mmc_check.
Installed  == Return([slot EXCEPT !.state = "READY"], "INIT_ONGOING")
InitFails  == Return([slot EXCEPT !.state = "UNUSABLE"], "UNUSABLE")

\* One exchange of the installation, and sd_mmc_configure_slot.
Step(at, cmd, s, next) == pc = at /\ Exchange(cmd, Go(s, next), InitFails)

sd_mmc_configure_slot(at, next) ==
  /\ pc = at
  /\ drv' = BusOf(slot) /\ pc' = next
  /\ UNCHANGED <<env, slot, ret, v2, retry, counts>>

-----------------------------------------------------------------------------
(* sd_mmc_mci_card_init: an SD or SDIO card.                               *)

isSd   == "SD" \in slot.type
isSdio == "SDIO" \in slot.type

\* The results of the reset commands are not looked at, or do not exist.
ResetCards ==
  \/ pc = "cmd52" /\ LET then == Go(slot, "cmd0") IN Exchange("IO_RESET", then, then)
  \/ pc = "cmd0"  /\ LET then == Go(slot, "cmd8") IN Exchange("CMD0", then, then)

\* No answer to CMD8 means "not version 2"; a wrong pattern, an unusable card.
sd_cmd8 ==
  LET then(b) == /\ v2' = b /\ pc' = "cmd5"
                 /\ UNCHANGED <<slot, drv, ret, retry, counts>>
  IN  /\ pc = "cmd8"
      /\ Exchange("CMD8", then(TRUE), then(FALSE) \/ (Answers("CMD8") /\ InitFails))

sdio_op_cond ==
  LET io == IF card.kind = "COMBO" THEN {"SD", "SDIO"} ELSE {"SDIO"}
  IN  /\ pc = "cmd5"
      /\ Exchange("CMD5",
           Go([slot EXCEPT !.type = io], IF "SD" \in io THEN "acmd41" ELSE "cmd3"),
           Go(slot, "acmd41") \/ (Answers("CMD5") /\ InitFails))

NowMmc == [slot EXCEPT !.type = {"MMC"}]

WithHc == IF card.kind \in HighCap
          THEN [slot EXCEPT !.type = @ \cup {"HC"}] ELSE slot

sd_mci_op_cond ==
  pc = "acmd41" /\ Exchange("ACMD41", Go(WithHc, "cmd2"), Go(NowMmc, "m_cmd0"))

\* What is read in a buffer the DMA has filled with what the card sent; left is
\* what may have been left in a line that was fetched too early.
ReadBack(buffer, sent, left) == {sent} \cup IF buffer \in Shared THEN left ELSE {}

\* The host counts on high speed.  (As a mutant: without asking the card.)
AssumeHs(s) == [s EXCEPT !.hs = 1, !.clock = 2 * @]

\* The card has said whether it has a high-speed function.
SetHs(s) == IF card.kind \in HighSpeed THEN AssumeHs(s) ELSE s

\* Of the CSD and of the SCR only the clock and the version matter here.
sd_decode_csd == Step("cmd9", "CMD9", [slot EXCEPT !.clock = 1], "cmd7")
\* scr is not initialized before it is read into.
sd_acmd51 ==
  \E v \in ReadBack("scr", IF card.kind = "SD1" THEN 1 ELSE 2, {1, 2}) :
    Step("acmd51", "ACMD51", [slot EXCEPT !.version = v], IF isSdio THEN "cis" ELSE "acmd6")

Identify ==
  \/ Step("cmd2", "CMD2", slot, "cmd3")
  \/ Step("cmd3", "CMD3", [slot EXCEPT !.rca = card'.rca], IF isSd THEN "cmd9" ELSE "cmd7")
  \/ sd_decode_csd
  \/ Step("cmd7", "CMD7", slot, IF isSd THEN "acmd51" ELSE "cis")
  \/ sd_acmd51

\* The results of its CMD52s are not looked at: if one is lost the bytes that
\* give the speed are whatever the stack held, a wrong clock or a failure.
sdio_get_max_speed ==
  /\ pc = "cis"
  /\ Exchange("CIS", Go([slot EXCEPT !.clock = 1], "io_width"),
              InitFails \/ \E any \in {0, 1, 8} : Go([slot EXCEPT !.clock = any], "io_width"))

\* Mutant: the card is switched to 4 lines and the host is not.
WidthForgotten == slot

Width4 == [slot EXCEPT !.width = 4]

sdio_cmd52_set_bus_width ==
  Step("io_width", "IO_WIDTH", IF card.kind = "COMBO" THEN Width4 ELSE slot,
       IF isSd THEN "acmd6" ELSE "conf_width")
sd_acmd6 == Step("acmd6", "ACMD6", Width4, "conf_width")
sdio_cmd52_set_high_speed ==
  Step("io_hs", "IO_HS", SetHs(slot), IF isSd /\ slot.version > 1 THEN "cmd6" ELSE "conf_hs")
\* switch_status is all zeros before, which say that the card has switched.
sd_cm6_set_high_speed ==
  \E s \in ReadBack("switch_status", SetHs(slot), {AssumeHs(slot)}) :
    Step("cmd6", "CMD6", s, "conf_hs")

SetWidth ==
  \/ sdio_cmd52_set_bus_width
  \/ sd_acmd6
  \/ sd_mmc_configure_slot("conf_width",
       IF isSdio THEN "io_hs" ELSE IF slot.version > 1 THEN "cmd6" ELSE "conf_hs")

SetSpeed ==
  \/ sdio_cmd52_set_high_speed
  \/ sd_cm6_set_high_speed
  \/ sd_mmc_configure_slot("conf_hs", IF isSd THEN "cmd16" ELSE "done")
  \/ pc = "done" /\ Installed /\ UNCHANGED env
  \/ pc = "cmd16" /\ Exchange("CMD16", Installed, InitFails)

-----------------------------------------------------------------------------
(* sd_mmc_mci_install_mmc: it was not an SD card.                          *)

Cmd16Again ==
  /\ pc = "m_cmd16"
  /\ Exchange("CMD16", Installed,
       IF retry = 1 THEN InitFails
       ELSE /\ retry' = retry - 1
            /\ UNCHANGED <<slot, drv, pc, ret, v2, counts>>)

mmc_mci_op_cond == Step("m_cmd1", "CMD1", WithHc, "m_cmd2")
mmc_decode_csd ==
  Step("m_cmd9", "CMD9", [slot EXCEPT !.clock = 1, !.version = IF card.kind \in Mmc4 THEN 4 ELSE 3],
       "m_cmd7")
\* The CARD_TYPE byte says whether the high speed is tried after the width.
mmc_cmd8 ==
  Step("m_ext_csd", "EXT_CSD", slot,
       IF card.kind \in HighSpeed THEN "m_width" ELSE "m_last_width")
mmc_cmd6_set_bus_width ==
  \/ Step("m_width", "CMD6_WIDTH", Width4, "conf_m_width")
  \/ Step("m_last_width", "CMD6_WIDTH", Width4, "conf_mmc")
mmc_cmd6_set_high_speed ==
  Step("m_hs", "CMD6_HS", [slot EXCEPT !.hs = 1, !.clock = 2], "conf_mmc")

InstallMmc ==
  \/ pc = "m_cmd0" /\ LET then == Go(slot, "m_cmd1") IN Exchange("CMD0", then, then)
  \/ mmc_mci_op_cond
  \/ Step("m_cmd2", "CMD2", [slot EXCEPT !.rca = 1], "m_cmd3")
  \/ Step("m_cmd3", "CMD3_MMC", slot, "m_cmd9")
  \/ mmc_decode_csd
  \/ Step("m_cmd7", "CMD7", slot, IF slot.version >= 4 THEN "m_ext_csd" ELSE "conf_mmc")
  \/ mmc_cmd8
  \/ mmc_cmd6_set_bus_width
  \/ sd_mmc_configure_slot("conf_m_width", "m_hs")
  \/ mmc_cmd6_set_high_speed
  \/ /\ pc = "conf_mmc"
     /\ drv' = BusOf(slot) /\ pc' = "m_cmd16" /\ retry' = 10
     /\ UNCHANGED <<env, slot, ret, v2, counts>>
  \/ Cmd16Again

-----------------------------------------------------------------------------
(* The calls.  Each begins with sd_mmc_select_slot.                        *)

sd_mmc_select_slot ==
  IF slot.state \in {"NO_CARD", "UNUSABLE"}
  THEN [slot EXCEPT !.state = "INIT", !.clock = 0, !.width = 1, !.hs = 0]
  ELSE slot

\* The caller is between two calls, and not amid the blocks of a transfer.
Free == pc = "idle" /\ ~(ret = "OK" /\ remaining > 0)

\* Mutant: the type of the last card is kept.
KeepType(s) == [s EXCEPT !.type = @ \cup {"SD"}, !.version = 0, !.rca = 0]

\* The first lines of sd_mmc_mci_card_init.
TrySd(s) == [s EXCEPT !.type = {"SD"}, !.version = 0, !.rca = 0]

sd_mmc_check ==
  LET s == sd_mmc_select_slot
  IN  /\ Free
      /\ drv' = BusOf(s)
      /\ IF s.state = "INIT"
         THEN slot' = TrySd(s) /\ pc' = "cmd52" /\ v2' = FALSE /\ swapped' = FALSE /\ ret' = "none"
         ELSE slot' = s /\ ret' = "OK" /\ UNCHANGED <<pc, v2, swapped>>
      /\ UNCHANGED <<card, swaps, faults, retry, counts>>

\* sd_mmc_get_type, _version and _capacity: "unknown" unless the card is ready.
sd_mmc_get ==
  LET s == sd_mmc_select_slot
  IN  /\ Free
      /\ drv' = BusOf(s) /\ slot' = s
      /\ ret' = IF s.state = "INIT" THEN "UNKNOWN" ELSE "OK"
      /\ UNCHANGED <<env, pc, v2, retry, counts>>

\* sd_mmc_init_read_blocks and sd_mmc_init_write_blocks, up to the first command;
\* sdio_read_direct and its three relatives.  total is set here already: nothing
\* looks at it before the command is accepted, where the code sets it.
CallOn(next, n, d) ==
  LET s == sd_mmc_select_slot
  IN  /\ Free
      /\ drv' = BusOf(s) /\ slot' = s
      /\ IF s.state = "INIT"
         THEN ret' = "INIT_ONGOING" /\ UNCHANGED <<pc, total, dir>>
         ELSE ret' = "none" /\ pc' = next /\ total' = n /\ dir' = d
      /\ UNCHANGED <<env, v2, retry, remaining>>

sd_mmc_init_read_blocks(n)  == CallOn("cmd13", n, "read")
sd_mmc_init_write_blocks(n) == CallOn("write", n, "write")
sdio_access(cmd) == CallOn(cmd, total, dir)

\* The calls' exchanges: CMD13 before a read, then the block command.
refused == Return(slot, "COMM")
sd_mmc_cmd13 == pc = "cmd13" /\ Exchange("CMD13", Go(slot, "read"), refused)

InitBlocks ==
  LET accepted == /\ pc' = "idle" /\ ret' = "OK" /\ remaining' = total
                  /\ UNCHANGED <<slot, drv, v2, retry, total, dir>>
  IN  \/ sd_mmc_cmd13
      \/ pc = "read"  /\ Exchange(IF total > 1 THEN "MULTI" ELSE "READ1", accepted, refused)
      \/ pc = "write" /\ Exchange(IF total > 1 THEN "MULTI" ELSE "WRITE1", accepted, refused)

sdio_cmd52 == pc = "IO_DIRECT" /\ Exchange(pc, Return(slot, "OK"), refused)
sdio_cmd53 == pc = "IO_EXTENDED" /\ Exchange(pc, Return(slot, "OK"), refused)
SdioAccess == sdio_cmd52 \/ sdio_cmd53

\* sd_mmc_start_read_blocks, sd_mmc_start_write_blocks: the driver never fails here.
sd_mmc_start_blocks(n) ==
  /\ pc = "idle" /\ ret = "OK" /\ n \in 1..remaining
  /\ remaining' = remaining - n /\ pc' = "started"
  /\ UNCHANGED <<env, slot, drv, ret, v2, retry, total, dir>>

\* Mutant: the driver's error is not passed on.
WaitIgnoresError(abort) ==
  LET left == IF abort THEN 0 ELSE remaining
      done == /\ remaining' = left
              /\ pc' = IF left = 0 /\ total > 1 THEN "cmd12" ELSE "idle"
              /\ ret' = "OK" /\ UNCHANGED <<slot, drv, v2, retry, total, dir>>
  IN  pc = "started" /\ Exchange("DATA", done, done)

\* sd_mmc_wait_end_of_read_blocks, sd_mmc_wait_end_of_write_blocks.
sd_mmc_wait_end_of_blocks(abort) ==
  LET left == IF abort THEN 0 ELSE remaining
      done == /\ remaining' = left
              /\ pc' = IF left = 0 /\ total > 1 THEN "cmd12" ELSE "idle"
              /\ ret' = "OK" /\ UNCHANGED <<slot, drv, v2, retry, total, dir>>
  IN  pc = "started" /\ Exchange("DATA", done, Return(slot, "COMM"))

\* After a read its errors are ignored, but for one retry; after a write they count.
StopTransmission ==
  \/ pc = "cmd12" /\ Exchange("CMD12", Return(slot, "OK"),
       IF dir = "read" THEN Go(slot, "cmd12_again") ELSE Return(slot, "COMM"))
  \/ /\ pc = "cmd12_again"
     /\ LET then == Return(slot, "OK") IN Exchange("CMD12", then, then)

Running ==
  \/ ResetCards \/ sd_cmd8 \/ sdio_op_cond \/ sd_mci_op_cond \/ Identify
  \/ sdio_get_max_speed \/ SetWidth \/ SetSpeed \/ InstallMmc
  \/ InitBlocks \/ SdioAccess \/ StopTransmission

\* A caller that keeps to the order of sd_mmc.h.
Caller ==
  \/ sd_mmc_check \/ sd_mmc_get
  \/ \E n \in Blocks : sd_mmc_init_read_blocks(n) \/ sd_mmc_init_write_blocks(n)
  \/ \E cmd \in {"IO_DIRECT", "IO_EXTENDED"} : sdio_access(cmd)
  \/ \E n \in 1..remaining : sd_mmc_start_blocks(n)
  \/ \E abort \in BOOLEAN : (abort => total > 1) /\ sd_mmc_wait_end_of_blocks(abort)

World == Remove \/ \E k \in Inserted : Insert(k)

SdNext == World \/ Caller \/ Running
SdSpec == SdInit /\ [][SdNext]_sdVars

-----------------------------------------------------------------------------
TypeOK ==
  /\ card \in Cards /\ swaps \in 0..MaxSwaps /\ faults \in 0..MaxFaults
  /\ slot \in [state: {"READY", "INIT", "UNUSABLE", "NO_CARD"}, type: SUBSET Flags,
               version: 0..4, rca: 0..2, clock: Nat, width: {0, 1, 4}, hs: {0, 1}]
  /\ drv \in [clock: Nat, width: {1, 4}, hs: {0, 1}]
  /\ {swapped, v2} \subseteq BOOLEAN /\ retry \in 1..10
  /\ remaining \in 0..total /\ dir \in {"read", "write"}
  /\ ret \in {"none", "OK", "UNKNOWN", "INIT_ONGOING", "UNUSABLE", "COMM"}

\* What the flags of sd_mmc_get_type say of the memory of a card of kind k.
MemFlags(k) == (IF k \in SdMem THEN {"SD"} ELSE {}) \cup (IF k \in Mmc THEN {"MMC"} ELSE {})
               \cup (IF k \in HighCap THEN {"HC"} ELSE {})

\* Has the host been told the card's speed as it is?  Not if the answer of CMD6 was read
\* from a stale line; nor by a combo card whose SCR was, and whose I/O part alone is then
\* switched to high speed.
SpeedTold == "switch_status" \notin Shared /\ ("scr" \notin Shared \/ card.kind # "COMBO")

\* The host clocks the bus of this part of the card as that has been set.
OnBus(part) == drv.width = part.width /\ (SpeedTold => drv.hs = part.hs)

\* A card that is READY, and has stayed in the slot since its installation began,
\* has been selected, is known by its address, its memory is taken for what it is
\* (so that blocks are addressed in its unit), and the host's bus is the card's: always
\* its width, and its speed if that was told.  It is what sd_mmc_check promises, whatever
\* commands or answers were lost, whatever was read for the SCR, and whatever cards were
\* there before.
ReadyMeansInstalled ==
  slot.state = "READY" /\ ~swapped =>
    /\ card.st \in {"tran", "one", "many"} /\ card.rca = slot.rca
    /\ slot.type \ {"SDIO"} = MemFlags(card.kind)
    /\ OnBus(IF isSd \/ ~isSdio THEN card.mem ELSE card.fn)

\* A memory card that takes part in a data transfer, of the installation or of the
\* caller, has its bus set as the host has: no block is ever clocked over a different
\* number of lines, or with a different timing, if that was told, than the card uses.
DataStep == [acmd51 |-> "ACMD51", m_ext_csd |-> "EXT_CSD", cmd6 |-> "CMD6",
             read |-> "READ1", write |-> "WRITE1", started |-> "DATA"]
DataOnAgreedBus == pc \in DOMAIN DataStep /\ Answers(DataStep[pc]) => OnBus(card.mem)

\* The clock never exceeds what the card stands: 400 kHz while it is being identified,
\* 25 MHz, and twice that once it has been switched to high speed.  (Only for cards that
\* are nothing but memory: the clock of an SDIO card may come from a lost CMD52, and
\* for a combo card the switches of both its parts double the same clock.  And only if
\* the answer of CMD6 is not read from a stale line: its zeros double the clock of a card
\* that has no high speed.)
ClockInLimits ==
  card.kind \in Memory \ Io /\ ~swapped =>
    CASE card.st \in {"idle", "ready", "ident"} -> pc # "idle" => drv.clock = 0
      [] OTHER -> "switch_status" \notin Shared => drv.clock <= 1 + card.mem.hs
=============================================================================
