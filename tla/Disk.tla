-------------------------------- MODULE Disk --------------------------------
(***************************************************************************)
(* The disk under FatFs: the functions of diskio.c, by way of ctrl_access  *)
(* and sd_mmc_mem.c (whose calls only pass their arguments on), running on *)
(* the card stack of SdMmc, and memory_copy waiting for a card.            *)
(*                                                                         *)
(* job is the one request under way; job.at says which call of the stack   *)
(* it makes next.  Only that call is made, so this module drives the       *)
(* actions of SdMmc instead of its Caller.                                 *)
(***************************************************************************)
EXTENDS SdMmc, Sequences

CONSTANTS
  Sectors,    \* [kind -> the number of sectors of a card of that kind]
  Reqs        \* the transfers asked for: [op, first, count]

ASSUME DiskAssumption ==
  /\ Sectors \in [Kinds -> Nat]
  /\ Reqs \subseteq [op: {"read", "write"}, first: Nat, count: Nat \ {0}]

VARIABLES
  medium,     \* the contents of the card, by sectors; <<>> without a card
  capacity,   \* sd_mmc_cards[0].capacity, in sectors
  ejected,    \* sd_mmc_ejected[0]
  job,        \* the request under way
  buff,       \* what it has read
  res,        \* the result of the last transfer
  status      \* the last result of the other functions

diskVars == <<medium, capacity, ejected, job, buff, res, status>>
allVars == <<sdVars, diskVars>>

NoJob == [op |-> "none", first |-> 0, count |-> 0, at |-> "free", i |-> 0,
          tries |-> 0, last |-> -1, lost |-> FALSE, faults |-> 0]

DiskInit ==
  /\ SdInit
  /\ medium = <<>> /\ capacity = 0 /\ ejected = FALSE
  /\ job = NoJob /\ buff = <<>> /\ res = "OK" /\ status = "OK"

-----------------------------------------------------------------------------
\* A block of a medium says which medium and which sector it is of, or which sector it
\* was written for; Other is whatever a buffer held before.
Other == <<-1, -1>>
Fresh(k, n) == [s \in 0..(Sectors[k] - 1) |-> <<n, s>>]
Written(s)  == <<0, s>>

ChangeCard ==
  /\ World
  /\ medium' = IF card'.kind = "none" THEN <<>> ELSE Fresh(card'.kind, swaps')
  /\ job' = [job EXCEPT !.lost = (job.op # "none")]
  /\ UNCHANGED <<capacity, ejected, buff, res, status>>

\* The stack goes on with the call it is in; CMD9 brings the capacity.
Continue ==
  /\ Running
  /\ capacity' = IF pc \in {"cmd9", "m_cmd9"} /\ pc' # "idle" THEN Sectors[card.kind]
                 ELSE capacity
  /\ UNCHANGED <<medium, ejected, job, buff, res, status>>

\* The job, when the stack is idle, makes the call A and goes on at next.
Call(at, A, next) ==
  /\ job.at = at /\ pc = "idle" /\ A
  /\ job' = [job EXCEPT !.at = next]
  /\ UNCHANGED <<medium, capacity, ejected, buff, res, status>>

Transfers == {"read", "write"}
Finish(r) ==
  /\ job' = NoJob
  /\ IF job.op \in Transfers THEN res' = r /\ UNCHANGED status
     ELSE status' = r /\ UNCHANGED res
Goto(next) == job' = [job EXCEPT !.at = next] /\ UNCHANGED <<res, status>>

-----------------------------------------------------------------------------
(* The requests.                                                           *)

\* Mutant: only one try.
AskOnce(op) == [NoJob EXCEPT !.op = op, !.at = "check", !.tries = 1, !.faults = faults]

Ask(op) == [NoJob EXCEPT !.op = op, !.at = "check", !.tries = 2, !.faults = faults]

\* disk_initialize, disk_status, disk_ioctl(CTRL_SYNC), memory_copy's loop.
Begin ==
  /\ job.at = "free" /\ pc = "idle"
  /\ \E op \in {"initialize", "status", "sync", "wait"} : job' = Ask(op)
  /\ UNCHANGED <<sdVars, medium, capacity, ejected, buff, res, status>>

\* disk_read and disk_write; the sector size of the LUN is 1.
BeginTransfer ==
  /\ job.at = "free" /\ pc = "idle"
  /\ \E r \in Reqs : job' = [Ask(r.op) EXCEPT !.at = "capacity", !.first = r.first,
                                              !.count = r.count]
  /\ buff' = <<>>
  /\ UNCHANGED <<sdVars, medium, capacity, ejected, res, status>>

sd_mmc_unload ==
  /\ job.at = "free" /\ ejected' = ~ejected
  /\ UNCHANGED <<sdVars, medium, capacity, job, buff, res, status>>

\* Mutant: the number of sectors is given for the last one.
CapacityForLast ==
  /\ job.at = "capacity" /\ pc = "idle" /\ sd_mmc_get
  /\ job' = [job EXCEPT !.at = "check", !.last = IF ret' = "OK" THEN capacity ELSE 0]
  /\ UNCHANGED <<medium, capacity, ejected, buff, res, status>>

\* sd_mmc_read_capacity: the last sector is -1 when the card is not ready, and
\* the status that test_unit_ready then returns is not looked at.
sd_mmc_read_capacity ==
  /\ job.at = "capacity" /\ pc = "idle" /\ sd_mmc_get
  /\ job' = [job EXCEPT !.at = "check", !.last = (IF ret' = "OK" THEN capacity ELSE 0) - 1]
  /\ UNCHANGED <<medium, capacity, ejected, buff, res, status>>

\* sd_mmc_test_unit_ready.
TestReady ==
  \/ Call("check", sd_mmc_check, "checked")
  \/ ret = "OK" /\ job.op # "wait" /\ Call("checked", sd_mmc_get, "typed")

Tested == job.at = "typed" \/ (job.at = "checked" /\ (ret # "OK" \/ job.op = "wait"))
Ctrl_status ==
  CASE ret = "OK" -> IF ejected \/ slot.type \cap {"SD", "MMC"} = {}
                     THEN "NO_PRESENT" ELSE "GOOD"
    [] ret = "INIT_ONGOING" -> "BUSY"
    [] OTHER -> "FAIL"

\* Mutant: the address check forgets that the count is added to the sector.
TooFarOffByOne == job.first > job.last

\* The check of the address in disk_read and disk_write.
TooFar == job.first + job.count > job.last + 1

\* Mutant: the copy waits for the disk status, not for the stack's.
WaitsForDisk == IF ret = "OK" /\ Ctrl_status = "GOOD" THEN Finish("OK") ELSE Goto("check")

\* do {} while (sd_mmc_check(0));
Waited == IF ret = "OK" THEN Finish("OK") ELSE Goto("check")

\* Each caller on return from test_unit_ready.
Proceed ==
  /\ Tested /\ pc = "idle"
  /\ CASE job.op = "initialize" ->
            IF Ctrl_status = "BUSY" /\ job.tries > 1
            THEN /\ job' = [job EXCEPT !.at = "check", !.tries = @ - 1]
                 /\ UNCHANGED <<res, status>>
            ELSE Finish(IF Ctrl_status = "GOOD" THEN "OK" ELSE "NOINIT")
       [] job.op \in {"status", "sync"} ->
            Finish(IF Ctrl_status = "GOOD" THEN "OK" ELSE "NOTRDY")
       [] job.op = "wait" -> Waited
       [] OTHER -> IF TooFar THEN Finish("PARERR") ELSE Goto("init")
  /\ UNCHANGED <<sdVars, medium, capacity, ejected, buff>>

-----------------------------------------------------------------------------
(* sd_mmc_mem_2_ram and sd_mmc_ram_2_mem, for each sector.                 *)

InitTransfer ==
  /\ job.i < job.count
  /\ Call("init", IF job.op = "read" THEN sd_mmc_init_read_blocks(1)
                  ELSE sd_mmc_init_write_blocks(1), "inited")

StartTransfer == ret = "OK" /\ Call("inited", sd_mmc_start_blocks(1), "started")

\* The block the card transfers: the argument is in bytes or in blocks.
Argument == (job.first + job.i) * IF "HC" \in slot.type THEN 1 ELSE 512
Block    == Argument \div (IF card.kind \in HighCap THEN 1 ELSE 512)

\* The data: moved if the card answered; after a fault a block to write may or may
\* not have been written.  A block to write is in the memory when the DMA fetches it:
\* the cache has been cleaned.
WaitTransfer ==
  /\ job.at = "started" /\ sd_mmc_wait_end_of_blocks(FALSE)
  /\ LET new == [medium EXCEPT ![Block] = Written(job.first + job.i)]
     IN  medium' \in IF job.op = "read" THEN {medium}
                     ELSE IF ret' = "OK" THEN {new}
                     ELSE IF faults' # faults THEN {medium, new} ELSE {medium}
  /\ IF ret' = "OK"
     THEN /\ job' = [job EXCEPT !.at = "init", !.i = @ + 1]
          /\ IF job.op = "read" /\ Block \in DOMAIN medium
             THEN \E b \in ReadBack("data", medium[Block], {Other}) : buff' = Append(buff, b)
             ELSE UNCHANGED buff
     ELSE job' = [job EXCEPT !.at = "failed"] /\ UNCHANGED buff
  /\ UNCHANGED <<capacity, ejected, res, status>>

EndTransfer ==
  /\ pc = "idle"
  /\ \/ job.at = "init" /\ job.i = job.count /\ Finish("OK")
     \/ job.at = "failed" /\ Finish("ERROR")
     \/ job.at = "inited" /\ ret # "OK" /\ Finish("ERROR")
  /\ UNCHANGED <<sdVars, medium, capacity, ejected, buff>>

Host ==
  \/ Continue \/ sd_mmc_read_capacity \/ TestReady \/ Proceed
  \/ InitTransfer \/ StartTransfer \/ WaitTransfer \/ EndTransfer
DiskNext == ChangeCard \/ Begin \/ BeginTransfer \/ sd_mmc_unload \/ Host

\* The code runs on: there is nothing it waits for but its own exchanges.
DiskSpec == DiskInit /\ [][DiskNext]_allVars /\ WF_allVars(Host)

-----------------------------------------------------------------------------
DiskTypeOK ==
  /\ TypeOK /\ capacity \in Nat /\ ejected \in BOOLEAN
  /\ job.i \in 0..job.count /\ job.last \in -1..(capacity - 1)
  /\ job.at \in {"free", "capacity", "check", "checked", "typed", "init", "inited",
                 "started", "failed"}

\* A card that takes a block command, or is at a block, is at the block the request
\* is at, and that is within the card: whatever unit the card counts in, whatever
\* card was there when the stack last read a capacity.
WithinCard ==
  pc \in {"read", "write", "started"} /\ Answers(DataStep[pc]) =>
    Block = job.first + job.i /\ Block \in DOMAIN medium

\* What disk_read and disk_write promise.
Storage == INSTANCE BlockDevice WITH
  Media <- {Fresh(k, n) : k \in Kinds, n \in 1..MaxSwaps},
  NoMedium <- <<>>, New <- Written,
  req <- IF job.op \in {"read", "write"}
         THEN [op |-> job.op, first |-> job.first, count |-> job.count,
               done |-> job.i, lost |-> job.lost]
         ELSE [op |-> "none", first |-> 0, count |-> 0, done |-> 0, lost |-> FALSE]
ImplementsStorage == Storage!BdSpec

\* One call of disk_initialize is enough, although the stack reports "initialization on
\* going" when it has just installed the card: FatFs calls it once, when the volume is
\* mounted.  It answers OK for any memory card in the slot, if nothing is lost or changed
\* meanwhile; and the card is then selected for transfers, unless it has taken the place
\* of one that was installed before: the slot stays READY and the OK says nothing of it.
InitializeSuffices ==
  [][ job.op = "initialize" /\ job'.op = "none" =>
        \/ card.kind \notin Memory \/ ejected \/ job.lost \/ faults # job.faults
        \/ status' = "OK" /\ (swapped \/ card.st \in {"tran", "one", "many"}) ]_allVars

\* Every request comes back to FatFs, with or without a card; and memory_copy does not
\* wait for ever for a card that has been put in and stays.
RequestsEnd ==
  /\ job.op \in {"initialize", "status", "sync", "read", "write"} ~> job.at = "free"
  /\ job.op = "wait" /\ card # NoCard ~> job.op # "wait" \/ card = NoCard
=============================================================================
