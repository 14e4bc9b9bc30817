# DashboardDisplay in TLA+

DashboardDisplay is the firmware of the display in the steering wheel of a
Formula Student car: one Atmel SAMV71, no operating system. It receives engine
data over CAN and generates the picture of a 480x272 LCD in software: an
interrupt handler paints each row pixel by pixel on the pins of a port. This
directory holds TLA+ models of that firmware, the TLC configurations that check
them, and TLAPS proofs about them. Paths below are relative to the repository.

## 1. The system

### Parts, their state and their operations

| Part | Code | State | Operations |
|---|---|---|---|
| Start-up | `src/main.c` | none of its own | clocks, board, `can_init`, two assignments to the shared data, `controller_init`, then an empty loop |
| Picture generator | `src/Controller.c` | `line`, `offtime`, the NVIC enable of TC7, three timer channels | `TC7_Handler` (one row), `TC8_Handler` (start of an image), `configure_*` |
| Drawing | `src/Controller.c` (`draw_*`), `src/Memory.c` (`set_GAR`, `convert_color`) | pins of PIOD, the palette `GAR`, `B` | two port writes per pixel |
| CAN receive path | `src/Can.c` (`can_receive`), MCAN driver in `src/ASF/sam/drivers/mcan` | message RAM (cached), IR.RF0N, RXF0S, `standard_receive_index`, `rx_element_fifo_0` | `can_receive`, filter set-up; MCAN0 itself stores frames at any time |
| Shared data | `src/Memory.h:12-16` | `CAN_data[8]`, `color_temp`, `color_gear`, `GAR`, `B`, `offtime` | written by `can_receive`, read by `draw_*` |
| `MCAN0_Handler` | `src/Can.c:192-289` | `standard_receive_index`, `extended_receive_index`, the two FIFOs and the buffers of the message RAM | one branch for each flag of IR; re-initialisation after bus-off. Not enabled in the NVIC |
| CAN send | `src/Can.c` | none | called by nothing but `can_test`, which is never called |
| SD card copy | `src/Memory.c` (`memory_copy`) | `ramptr`, `objptr[16]`, a buffer | one object for each bitmap of the card; not called (`src/main.c:83-84` is commented out) |
| Card stack and HSMCI | `src/ASF/common/components/memory/sd_mmc`, `src/ASF/sam/drivers/hsmci` | the slot's state, type, version, address, clock, width, speed; blocks remaining | installation, block transfers, getters; reached from `memory_copy` only |
| Control access and FatFs port | `.../storage/ctrl_access`, `sd_mmc_mem.c`, `thirdparty/fatfs/fatfs-port-r0.09/diskio.c` | capacity, ejected | `disk_initialize`, `disk_status`, `disk_read`, `disk_write`, `disk_ioctl` |
| Critical sections | `.../common/utils/interrupt` | `cpu_irq_critical_section_counter`, `cpu_irq_prev_interrupt_state`, `g_interrupt_enabled` | enter, leave, enable, disable |
| Sleep manager | `.../common/services/sleepmgr`, `.../drivers/pmc/sleep.c` | `sleepmgr_locks[]`, the callback and its flag | lock, unlock, enter sleep, wait for the restored clocks |
| Pin handlers | `.../drivers/pio/pio_handler.c` | table of sources, their number | define a source, set a priority, serve an interrupt |
| Clock | `.../drivers/rtc/rtc.c`, `fattime_rtc.c` | registers of the RTC | read and set time and date, `get_fattime` |
| Other drivers and services | `src/ASF` | registers | set-up, console |

### How they interact

```
 other nodes --> MCAN0 --> message RAM --(D-cache)--> can_receive --> CAN_data, colours
                 RF0N ---------------------------------^   ^               |
                                                           | last row      v
 TC channel 1 --> TC7_Handler (priority 1, one row) -------+--------> draw_*  --> PIOD
 TC channel 2 --> TC8_Handler (higher priority) -- resets line, enables TC7
```

There are three actors: the timers, MCAN0 and the processor. The processor runs
two handlers, and TC8 may preempt TC7 between any two instructions. TC7 turns
itself off after the last row, calls `can_receive` and waits for TC8 to turn it
on again. `can_receive` runs in TC7's `else` branch and nowhere else, so the
data is meant to change between images only. Nothing is locked.

```
 memory_copy --> FatFs --> diskio.c --> ctrl_access --> sd_mmc_mem.c --> sd_mmc.c --> HSMCI --> card
      |                        \--> get_fattime --> RTC                               | DMA
      +--<------------------ buffer, through the data cache ------------------------<-+
```

The card path is single-threaded code that polls; what is concurrent is the card
(put in, pulled, changed, or not heard at any exchange), the DMA behind the data
cache, and the clock that ticks while it is read. The critical sections, the
sleep manager and the table of pin handlers are shared by the main program and
by interrupt handlers that may come between any two accesses.

### What is hard

* TC8 preempting TC7 in mid-row, in `line++` (a load, an addition and a store of
  a `volatile`), between the test of `line` and `NVIC_DisableIRQ`, or inside
  `can_receive`.
* Requests that the NVIC keeps pending while TC7 is off, and compare flags that
  are lost while the status register has not been read.
* Rows or polls that take longer than their line.
* MCAN0 storing a frame over the only FIFO element while it is being copied, and
  raising RF0N between any two steps of `can_receive`.
* The data cache between MCAN0's RAM and the copy, and between HSMCI's DMA and
  `memory_copy`.
* A card that is pulled or changed, or a command or an answer that is lost,
  between any two exchanges of an installation or of a transfer.
* Interrupts between the test and the update of a counter, while a table entry is
  written field by field, or on the way to sleep.
* MCAN0 re-initialised after bus-off while the software keeps its FIFO indices;
  one branch of `MCAN0_Handler` acknowledging in the other's FIFO.
* A clock that ticks between two reads.
* The numbers: scaling, bar ends, field shifts.

PROJECT.json lists every hazard at its line with the properties aimed at it.

### What makes each part correct

* Picture generator: an image shows one version of the data; no row beyond the
  last; on time, each row in its own line and a poll per image; whatever is
  overrun or lost, the picture returns.
* Receive path: after the bus has gone silent the display shows the last frame,
  whole; no flag is left up for ever.
* Drawing: the pins are exactly the pixel's colour, bars have the length of
  their value, the pins that are not the picture's are left alone.
* `MCAN0_Handler`: nothing that is flagged stays unread, and bus-off ends.
* Card stack: a card reported ready is installed, taken for what it is, on the
  bus and within the clock it stands.
* FatFs port: a request that succeeds has moved exactly its sectors of one and the
  same card; every request comes back.
* `memory_copy`: the objects lie where their pointers say and hold the files' bytes,
  although the DMA brings them behind the cache.
* Services: sections exclude and restore; no lock or pin event is lost, and no
  callback for the restored clocks should be; a time that is read was shown by the clock.
* Together: the data changes only where the picture generator lets it, and the last
  frame comes to be painted.

## 2. The modules

| Module | Models | Theorems about it |
|---|---|---|
| `CanRx` | `can_receive`, MCAN0's FIFO 0, cache | `CanRxProofs` |
| `Image` | abstract: what an image promises | in `ControllerProofs` |
| `Controller` | both handlers, timers, NVIC | `ControllerProofs` |
| `Dashboard` | `Controller` running `CanRx` | `DashboardProofs` |
| `Pixels` | `draw_*`, `convert_color`, the port writes | `PixelsProofs` |
| `McanHandler` | `MCAN0_Handler` over two FIFOs and dedicated buffers | `McanHandlerProofs` |
| `SdCard` | external: what each kind of card executes in which state | |
| `SdMmc` | `sd_mmc.c` over HSMCI, extends `SdCard` | `DiskProofs` |
| `BlockDevice` | abstract: what `disk_read` and `disk_write` promise | |
| `Disk` | `diskio.c`, `ctrl_access`, `sd_mmc_mem.c`, extends `SdMmc`; refines `BlockDevice` | `DiskProofs` |
| `MemoryCopy` | `memory_copy`, DMA and cache | `MemoryCopyProofs` |
| `Critical` | `interrupt_sam_nvic` | `ServicesProofs` |
| `SleepMgr` | `sleepmgr.h`, `sleep.c` | `ServicesProofs` |
| `PioHandler` | `pio_handler.c` | `ServicesProofs` |
| `Rtc` | `rtc.c`, `fattime_rtc.c` | `ServicesProofs` |
| `Services` | the four of them side by side | `ServicesProofs` |

`MC*` modules give the constants for TLC. A definition whose comment begins with
"Mutant" is a plausible bug of the definition below it, used to make sure that
the properties can fail; no specification refers to it.

### CanRx

State: `ram`, `put`, `get`, `fill`, `rf0n` are MCAN0's; `incoming` and `stored`
the frame it is storing, a word at a time; `cache` and `valid` the data cache
over the message RAM; `rpc`, `nread`, `elem` the progress of `can_receive`.
`last` is a history variable. One action per step of `can_receive` that another
actor can come between: `ReadStatus`, `ClearFlag`, three `ReadWord`s (the
`memcpy`), `Acknowledge`, `Publish` (lines 331-355; nobody else touches this
data while the call runs, so it is one step) and `CleanInvalidate`. MCAN0 has
`Receive`, `StoreWord`, `Commit` and runs at any time. An element's words are the
code word and two data words; the identifier is not looked at after filtering.
Scaling is computed exactly: `*= 1.85` and `*= 4.7` truncate, and a result beyond
16 bits is cut (undefined in C; what the conversion instruction and the store of
this build do).

Assumed: DLC at most 8; no cache line of the message RAM is filled except by the
copy (no speculative fill); its lines are never dirty (SRAM is write-back without
write allocation, `init.c:178-196`, and after `can_init` the processor writes nothing
in the message RAM, though the arrays are aligned to 4 bytes only, not to lines); the receive FIFO is in overwrite
mode, which `_mcan_set_configuration` selects. MCAN0 is external and
modelled from the registers the driver uses. The Rx-buffer branch of
`can_receive` (295-317) is left out because no installed filter
routes a frame to a dedicated buffer, and storing a frame in FIFO 0 never raises
that flag.

### Controller and Image

Time is a counter of ticks since VSYNC, `H` ticks per line. TC7's compare is
raised in every line at tick `RB7`, TC8's once per image at line `PRE`. A compare
raises a request only if its flag is down; `tc_get_status` takes it down; a flag
still up at the return raises the request again. Instructions are actions that
take no time; `Tick` may come between any two, as often as the budget of the
invocation allows (`E7`, `D7`, `R7`, `D8`). So within the budgets every
placement of the steps against the timers is a behaviour. Each invocation of
TC7 is `Status7`, `TestLine`, then either `DrawPixel` (`COLS` times), `LoadLine`,
`StoreLine`, `Return7`, or `Disable7`, `SetOfftime`, `Call`, any number of
`Publish`, `Return7`. TC8 is `Status8`, `ClearOfftime`, `ResetLine`, `Enable7`
(after the delay loop). `shown` is a history variable: the versions of the data
painted since TC8's last reset of `line`.

`Image` says what this amounts to: the data changes only while no row can be
painted, or before the first row of the image. `ImplementsImage` maps `open` to
TC7's NVIC enable.

### Dashboard

Extends `CanRx` (whose `Init`, `Next` and `Spec` keep their names; those of the
whole are `DashInit`, `DashNext`, `DashSpec`) and instantiates `Controller` with
its `data` being `<<CAN_data, color_temp, color_gear>>` of `CanRx`. `CallReceive` reads the
status; the remaining steps are `can_receive` at TC7's level, so that TC8 may
preempt each of them; `EndReceive` returns. MCAN0 does not wait for anybody. Init
is what `main` leaves.

### Pixels

A word is the set of its one bits. A pixel is two actions, `SetHigh` and
`SetLow`, as `ioport_set_port_level` is called twice. `pixel` chooses the colour
as the loop of `TC7_Handler` does: pixel 0 of every row by `draw_rpm`, the others
by `line`. `Data` is the four values that matter: the two bar lengths and the two
colours. After a row `DE` is driven low; nothing raises it. The row's position does not change while it is painted (TC8 preempting
a row is in `Controller`).

### McanHandler

`ir`, `ram`, `put`, `get`, `fill`, `nd` and `buffer` are MCAN0's, `pc`, `status`, `i`,
`index` and `seen` the handler's; a frame is a number. Each branch of the handler
is two or three actions: its test, which clears its flag (`Branch`), then
`ScanBuffers`, `GetElement`, `Acknowledge`, `TestBusOff` and `configure_mcan`. A frame
of either FIFO or of a buffer, an error or bus-off comes between any two. `Acknowledge` of FIFO 1
writes FIFO 0's register, as the code does (`Can.c:258`), and `ScanBuffers` uses
its index for the bytes it prints (`Can.c:215` and `226`). The filters of
`Can.c` name buffer indices 2 and 1 although `RX_BUFFER_NUM` is 1, and enabling the
bus-off interrupt is commented out (`Can.c:75-76`); the model takes the buffers and the
enabled flags as constants.

### SdCard, SdMmc

`card` is the card (kind, state, address, bus width and speed of its memory and its
I/O part), `slot` what `sd_mmc_cards[0]` says of it, `drv` what HSMCI was last set to.
An action is one exchange: the card executes the command and answers, does not, or
is disturbed (the command or its answer is lost, `MaxFaults` times).
`Insert` and `Remove` come between any two. `pc` names the next exchange of the running call;
`sd_mmc_check`, the getters, `init`/`start`/`wait` of block transfers and
the SDIO calls begin at `idle` and return there with `ret`. Loops on a busy card
are one exchange, and running into their retry limit is a lost one. The build has no
card-detect pin. A version 4 MMC comes with high speed and without (`MMC4SLOW`): what its
EXT_CSD says decides whether the switch is tried (`sd_mmc.c:1717`).

Blocks, the SCR and the answer of CMD6 are read by HSMCI's DMA, behind the data cache.
`xdmac_channel_enable` cleans and invalidates all of it as it starts a transfer
(`xdmac.h:365`), so what the DMA brings is what the processor then reads: except in a line
the buffer shares with other data, which may be fetched again, or written and evicted,
before the data has come. Nothing aligns the buffers; what they share a line with is
the linker's and the stack's doing. The constant `Shared` says which of `scr`,
`switch_status` and the blocks' buffers (`data`) share one, and `ReadBack` what is then read:
the card's answer, or what was left. `scr` is uninitialized, so any version may be
read; `switch_status` is all zeros, which says that the card has switched
(`sd_mmc.c:803-816`): its clock is doubled whether it has high speed or not. So with
`switch_status` in `Shared` the host's speed need not be the card's, and the properties say
so (`SpeedTold`, and the last line of `ClockInLimits`); and a combo card whose SCR was read
as version 1 has only its I/O part switched. Widths, addresses, types and capacities come
from response registers, and the EXT_CSD word by word (`sd_mmc.c:939-978`): no `Shared`
touches them.

### Disk, BlockDevice

`job` is the one request under way; `job.at` says which call of the stack it makes
next. `Begin`, `BeginTransfer`, `sd_mmc_read_capacity`, `TestReady`, `Proceed`,
`InitTransfer`, `StartTransfer`, `WaitTransfer`, `EndTransfer` follow `disk_*`,
`mem_test_unit_ready`, `memory_2_ram` and `ram_2_memory`. `medium` is the contents of the
card; a changed card has other contents, so that mixing two is visible. A block is read
through `ReadBack`, too; a block that is written was cleaned to memory before its transfer.
`ImplementsStorage` maps `job` to the request of `BlockDevice`.

### MemoryCopy

The buffer and the SDRAM in cells of a cache line; a cell is a file and a place, and
the SDRAM remembers which cell was meant. `OpenNext`, `OpenFile`, `f_read`,
`CopyChunk`, `NextFile` are `memory_copy` and `memory_copy_file`; `f_read` delivers whole
sectors by DMA, the rest by the processor. A transfer begins with `CleanInvalidate`
(`xdmac_channel_enable`); a line in `Shared` may be fetched again, and written beside the
buffer's bytes, before the DMA has brought its data. `Evict` is the data cache's doing at
any time.

### Critical, SleepMgr, PioHandler, Rtc, Services

Context 0 is the main program, context c + 1 a handler that has preempted context c;
one step is one access to a shared variable or to PRIMASK. `Critical` has every step of
`cpu_irq_enter_critical` and `cpu_irq_leave_critical`; `SleepMgr` the test, the load and
the store of the lock counters, `pmc_sleep` up to and behind its
`cpu_irq_enable`, and `pmc_wait_wakeup_clocks_restore`. In `PioHandler` the main program
writes a source field by field and enables pins, a handler may disable its pins, and
`Search` is one turn of the interrupt's loop. In `Rtc`, `now` is the time the clock shows; a read is
repeated until two reads agree, a setting waits for `ACKUPD`.
The four share no state. `Services` puts them
side by side and chooses one at the start, so one run asks all their questions and one
module of proofs answers them for every value of the constants.

## 3. What the runs check

| Run | Instance | Shows |
|---|---|---|
| `can_rx` | FIFO of 1, four frames | `LatestWins`: with nothing left to do, what is displayed is the newest 8-byte frame, whole. `SettlesOnLast`: it gets there. `FlagIsServed`: no frame waits for ever |
| `can_rx_fifo2` | FIFO of 2 | `LatestWins` fails (finding below) |
| `controller_on_time` | the comments' proportions | `RowsInTheirLines`, `FrameDoneByVsync`, `KeepsPolling` |
| `controller_overrun` | rows up to 4 lines long | `TearFree`, `NoRowBeyondLast`, `ImplementsImage`, `PictureReturns` survive any overrun |
| `dashboard` | 1 row, 1 pixel, two frames | `ImplementsController`: the data is written only where `Controller` lets it. `LastFramePainted`: a silent bus ends in images of the last frame |
| `pixels` | rows around 150 and 180, data around 218, 326, 471 | `BarLength`, exact colours (`PixelExact`, `ColoursWired`), `NoFlash`, other pins left alone |
| `mcan_handler` | FIFO 0 and the buffer of 1, FIFO 1 of 2 | `FramesServed`: with nothing left to do, no frame of FIFO 0 or of the buffer is unread, whatever FIFO 1's branch and bus-off do to FIFO 0's indices. `FlagsServed`: no enabled flag stays up, bus-off ends |
| `sd_mmc` | all kinds of card, 2 insertions, 2 faults | `ReadyMeansInstalled`, `DataOnAgreedBus`, `ClockInLimits` (the last for cards without an I/O part), also with an SCR read from a stale line |
| `disk` | SDSC and SDHC, 2 insertions, 1 fault, one read and one write | `WithinCard`: the block the card is at is the one asked for. `ImplementsStorage`: a request that succeeds has moved its sectors of one card. `InitializeSuffices`: one undisturbed `disk_initialize` answers OK, and the card is then installed unless it has replaced an installed one. `RequestsEnd`: every request comes back, and `memory_copy`'s wait ends |
| `memory_copy` | up to 2 files of 4 sizes, chunks of 2 sectors | `ObjectsInOrder`: the objects begin where `objptr` says, with no gap, whichever files fail to open or to read. `FileBytesCopied`: the files' bytes arrive, although the DMA brings them behind the cache, but for the line the buffer shares |
| `services` | each of the four services | `Exclusion`, `StateRestored`, `LocksCounted`, `NoNullCall`, `EventsReachHandlers`, `ClockIsRight` |
| `services_two_levels` | two levels of handlers over the sleep manager | `CallbacksCalled` fails (finding below) |

### Bounds, and why they are enough

* Frames: two full frames that differ in both data words, so that any mixture is
  visible and so that they lie on either side of the colour thresholds; one that
  carries only the first word; one of another node. The proof covers all others.
* FIFO: 1 is what `conf_mcan.h:54` sets; 2 is the smallest other size.
* `controller_on_time`: `LINES=3 PRE=2 POST=1 H=8`. `main` multiplies the 12 MHz
  of the RC oscillator by 24 (`main.c:57-59`, whose comment says 48 MHz), so that
  the processor runs at 288 MHz and PCK6, the timers' clock, at a third of that. A
  line is 2048 counts = 6144 processor cycles, the compare comes at count 118 = cycle 354,
  and painting takes 472 pixels of about 12 cycles = 5664. With 768 cycles to a tick that is
  `RB7=1` and `D7=7`, which leaves no slack, and TC8's delay loop enables TC7
  after the compare of its line: `DELAY=1`, `D8=2`. Three rows have a first, a middle
  and a last one. `PRE` and `POST` follow the comments of `Controller.c:256-258`
  (one line after the last row). TC8's channel counts MCK / 32, which with
  the divisors `main` leaves is half the rate those comments assume: an image
  then has more lines behind the last row. One line is the tightest case.
* `controller_overrun`: `H=2` with a row of up to 8 ticks, a test of up to 3, a
  poll of up to 6. TC8 falls between the load and the store of `line`,
  into mid-row, between the test and `NVIC_DisableIRQ`, and into `can_receive`;
  all four were seen in this state space.
* `dashboard`: one row of one pixel is enough for the interaction, which is about
  where `can_receive` runs; the counts of rows are `Controller`'s question.
* `pixels`: all 472 pixels of the row, rows on both sides of each boundary, data
  on both sides of each threshold.
* `mcan_handler`: 4 frames, 3 other events, lengths 0 and 8. FIFO 1 has 2 elements
  instead of the configured 16: enough to be full while FIFO 0, whose indices it
  spoils, is not. The proof has any size.
* `sd_mmc`: 8 kinds stand for the versions, addressing and bus widths the code tells apart;
  `MaxSwaps=2` lets a card be replaced by one of another kind, `MaxFaults=2`
  lets two exchanges of one installation go wrong. A transfer has 1 or 2 blocks. `scr`
  shares a line; the proofs have any `Shared`.
* `disk`: cards of 2 (byte addressed) and 3 sectors; a read that ends beyond the
  smaller card and a write from its first sector. A request of two sectors can fail at
  either, and the card can be changed in between.
* `memory_copy`: chunks of 2 sectors of 2 cells. Files that end with a chunk, with
  a sector, within one, and with the header; `objptr` of 3 with at most 2 files; the
  buffer shares its last line. The proofs have any of these.
* `services`: critical sections with 2 levels of handlers and a depth of 2;
  one level of handlers, locks of 3 of the modes (active, sleep, wait), at most 2 held,
  for the sleep manager; a table of 2 sources (7 in the code), 2 controllers with 2
  pins, for the pin handlers (proved for any); 3 ticks, from instants before an
  hour, noon, a leap day and a year, for the clock.

### Fairness

The timers count and the processor executes, so `Tick`, the interrupt entries and
each handler are weakly fair: `main` is an empty loop, and no handler waits
except in TC8's bounded delay. MCAN0 finishes a frame it has started to store.
Other nodes owe the display nothing: `Receive` is not fair. In `CanRx` alone
`can_receive` is called again and again; `KeepsPolling` shows for
`Controller` that it is when rows are on time. `KeepsPolling` is not claimed
under overrun: there TC8 can start every image before TC7 has seen the last row
of the one before.

`Disk` assumes `WF(Host)`: the code runs on and waits for nothing but its own
exchanges, each of which ends, with an answer or a timeout; cards owe nothing, and faults are
finite because they are bounded. `McanHandler` assumes weak fairness of the handler: an
enabled interrupt is taken and the handler runs to its end; the bus owes nothing.
`mcan_handler` may stop when the bounded bus is silent, so that run does not check
deadlock. `SdMmc`, `MemoryCopy` and the services state safety only.

### Findings

* `conf_mcan.h:50-53` offers FIFO 0 any size from 1 to 64. `can_receive` takes one
  element for each RF0N and counts the index itself, so with 2 elements two
  frames between polls leave the display on the older one
  (`can_rx_fifo2`). The configured size, 1, is the only one that works.
* `sleep.h:95` says of a callback for the restored clocks that it is "called when all clocks
  are restored". `pmc_wait_wakeup_clocks_restore` tests whether they are switched before it
  disables the interrupts, and there is one place for a callback (`sleep.c:383-385`): with
  two levels of handlers, and this firmware's interrupts have two, a handler preempted
  between the two overwrites the callback of the one that preempted it
  (`services_two_levels`).

Met on the way, and kept out of the runs' properties (paths below `src/ASF` by file name):

* A combo card with high speed in both parts has its clock doubled twice
  (`sd_mmc.c:745` and `816`), to 100 MHz; `ClockInLimits` leaves out cards with an I/O part.
* After a transfer of several blocks in parts has failed in its wait,
  `sd_mmc_nb_block_remaining` is not cleared (`sd_mmc.c:1908-1910`, `1994-1996`) and
  the next call meets `Assert` at `1313`. The FatFs port asks for one block at a time.
* DMA buffers are not aligned to cache lines (`Memory.c`'s `buffer`, `scr` at `sd_mmc.c:1254`,
  `switch_status` at `779`). The cache is invalidated as a transfer starts, which is enough for
  lines of their own; a shared line can go stale. At worst a card without high speed is
  clocked at twice its speed (`sd_mmc.c:803-816`).
* Without a card-detect pin a removed card stays `READY` (`sd_mmc.c:1349`), and a card that
  has taken its place is answered OK by `disk_initialize` without being installed, though
  `diskio.c:161` says that the memory is initialised by then; the first transfer fails.
  `WithinCard` and `ImplementsStorage` show that no data suffers: a new card executes no
  block command before it is installed.
* `memory_copy_file` copies the whole last chunk, whatever `f_read` delivered
  (`Memory.c:93`), and moves `objptr[0]` for every file (`Memory.c:70`);
  `memory_copy` never tests `OBJECT_SIZE` (`Memory.c:138`).
* A handler that locks the chosen mode between `cpu_irq_enable` and `WFI`
  does not keep the device from it (`sleep.c:289`).
* FIFO 1 is acknowledged in FIFO 0's register (`Can.c:258`) and so stays full.
  With the configured sizes FIFO 0 and the buffer are served all the same.
* A full table of pin handlers refuses the redefinition of a source it holds
  (`pio_handler.c:148`).
* Two equal reads of a clock register need not be a time the clock has shown
  (`rtc.c:164-169`): a register read while it settles mixes two times, and a minute later it
  may give the same mixture again. The proof needs calls of less than a minute.
* An SDIO card leaves the slot `READY` and typed as SDIO when it is pulled; then
  `disk_initialize` fails with any memory card (`sd_mmc_mem.c`). `InitializeSuffices` is proved for
  slots that only get memory cards.
* `get_fattime` reads time and date apart: at midnight in between they are of
  different days (`fattime_rtc.c:73`). In 12-hour mode, which nothing selects, noon is
  returned as 24 (`rtc.c:174`).

## 4. What is proved

For every value of the constants that meets the named assumptions
(`FramesAssumption`, `FifoAssumption`, `TimingAssumption`, `DataAssumption`,
`HandlerAssumption`, `CopyAssumption`, `SdAssumption`, `DiskAssumption`, and
`ServicesAssumption`, which joins those of the services), and of what a theorem itself
assumes:

* `CanRxProofs!TypeCorrect`, for every FIFO size.
* `CanRxProofs!NewestFrameShown`: `LatestWins` for `FIFO_NUM = 1`. `LatestWins`
  speaks of quiet states only and is not inductive. `LatestInv` says what holds
  on the way: the words stored so far are those of the frame being stored
  (`RamInv`); no word is cached when a copy starts, and during it only
  the words copied (`CacheInv`); and as long as the flag is down with nothing
  being stored, the copy so far, and at the end the display, is the last frame's
  (`CopyInv`). A frame that arrives meanwhile raises the flag, which makes
  `CopyInv` vacuous until the next `ClearFlag`, after which the copy starts over.
* `ControllerProofs!TypeCorrect` and `RowsBounded`: `line` never exceeds `LINES`
  and no row beyond the last is painted, although TC8's reset may be lost
  (a lost reset restores a value below `LINES`, incremented).
* `ControllerProofs!ControllerImplementsImage`, by `GateInv`: TC7 is on while it
  paints; once it has turned itself off, either it is off or nothing of the new
  image has been painted, because TC7 cannot be entered while it is active.
  `ImagesAreWhole` follows with `ImageTearFree` about the abstract specification.
  No timing is used: images are whole whatever overruns.
* `ControllerProofs!FramesComplete` and `RowsOnTime`: `FrameDoneByVsync` and
  `RowsInTheirLines` for any number of lines and any times with `OnTime`: a row takes at most
  its line, a poll fits behind the last row, and TC8 is done within its line and turns TC7
  on past the compare of it. Time is a single counter modulo the period, so
  `Schedule` says where in the image (in which line since VSYNC and how far into it)
  each of five situations lies: resting (after the poll, or before the first image), TC8 at
  VSYNC, waiting for a row, painting one, and from the end of the last row through the poll. `Measured` carries the quotient and the remainder along.
  The times of `controller_on_time` meet `OnTime`, those of `controller_overrun` do not.
* `PixelsProofs!ConvertWires`: `convert_color` moves each of the 24 bits of any
  colour to its pin. From `PinsInv` (before a pixel's first write the pins are
  those of the pixel before, after it none of its own is missing) follow `ExactPins`,
  `ColoursShown`, `NoFlashing` and `OthersKept`, for any rows and any data whose
  colours are on colour pins. `BarsExact` is `BarLength`: `lit` counts the
  coloured pixels of the row so far; `LitInv` says that it is the number of pixels up to the bar's end,
  or of all so far if that is nearer, and `BarsNotBlack` that a bar's colour is never the
  background's, so that a lit pixel is one that shows.
* `DashboardProofs!DashboardImplementsController`: every step of the whole is one that
  `Controller` allows; for what `can_receive` publishes it needs the types of `CanRx`, whose
  steps the whole is made of. For the same reason `NewestFrameInImages` carries `LatestWins`
  over to the whole.
* `McanHandlerProofs!AlwaysServed`: `FramesServed` for a FIFO 0 and a
  buffer of one element (`Configured`), any FIFO 1, any numbers of frames and errors.
  `OneElement`: every index of FIFO 0 is 0, also after FIFO 1's branch has written its
  register or MCAN0 was re-initialised, and its element is the newest frame. `Announced`: a frame
  that has not been read still has its flag, or the handler is on its way to it.
  `HandlerAlwaysTyped` needs none of this: for any sizes the FIFOs' and the handler's
  indices stay in range, though FIFO 1's branch acknowledges in FIFO 0's register.
* `MemoryCopyProofs!AlwaysInOrder`: `ObjectsInOrder` for any sizes of chunk,
  sector, header and files, if `objptr` has room for the files (`Fits`; the code does not
  test it). `AtOff` says where in the file the last cell stands while the loop runs,
  `Bounded` that no finished object's pointer lies behind the end.
* `MemoryCopyProofs!BytesArrive`: `FileBytesCopied`, for any sizes and any `Shared`: between a
  transfer and the copy every cell of the chunk that is not in a shared line is seen as the
  file's, in memory and in whatever the cache still holds.
* `DiskProofs` about `SdMmc`: `ReadyIsInstalled`, `BusAgreed` and `ClockStands`, for any kinds of
  card, insertions, faults and `Shared`, with what the properties say of the speed. `SdInv` follows an installation exchange by exchange. At
  the first ones (`Early`) the card may be any card in any state, because a reset
  may have been lost; at the others (`Late`) `StageInv` and `VersionInv` say which card in
  which state it is, and `BusInv` how the card's, the slot's and the driver's view of the bus
  differ just then; at the calls (`Calls`) the card is installed (`ReadyInv`). All of it is about a
  card that is `Present`: one that was put in since the installation began is idle, and an idle
  card executes none of the later commands.
* `DiskProofs` about `Disk`: `DiskAlwaysTyped`, `BlocksWithinCard`, and `DiskIsStorage`, the refinement
  of `BlockDevice`, step by step, if the blocks' buffers share no line (`"data" \notin Shared`). `DiskInv` adds to `SdInv` where the stack can be at each
  call of a request (`JobInv`) and that the capacity is that of the installed card
  (`CapacityInv`). The crux is its last part: once a request has lost its card while the slot says
  `READY`, the card that is there now is not `Present`, so no block of it moves.
* `DiskProofs!FirstCallSuffices` is `InitializeSuffices`, if the slot is for memory cards
  (`OnlyMemory`) and no card of version 1 has its SCR read from a stale line (`NoStaleVersion`;
  such a card would be sent a CMD6 it does not know and be given up): `Foreseen` says what an undisturbed installation has made of the
  card, so that it executes the next command (`LateAnswers` and, with it, `GoesWell`).
* `ServicesProofs` about `Critical`: `AlwaysExclusive`, `AlwaysProtected`, `AlwaysRestored`,
  `AlwaysTyped`, for any number of levels and any nesting. `IInv` says, for each
  context, which step of enter or leave it may be at while another runs: only the
  steps before the masking can be preempted, and a handler that comes there leaves counter
  and PRIMASK as it found them before it returns. `FlagInHandlers` (the deprecated
  `g_interrupt_enabled` is set whenever a handler can come) is part of it.
* `ServicesProofs` about `SleepMgr`: `NoLockLost`, for any levels, modes and locks: each counter
  is the locks that are held, and a load of one that has not been stored yet is up to date, because
  the code has disabled the interrupts around it (`Alone`).
* `ServicesProofs` about `PioHandler`, for a table of any size: `OnlyWrittenCalled`,
  `NoEventLost`, and that no two sources have the same controller and mask (their masks may
  overlap). `EnabledDefined`: every pin that
  is enabled has a counted source, because users define before they enable; therefore `Ahead`:
  each pin the search still looks for has a counted source it has yet to come to, so that
  the search is over before it reaches the entry being written.
* `ServicesProofs` about `Rtc`: `ClockReadAndSet`, for any starts and settings in 24-hour mode
  (`HRMOD = 0`, which the code uses), if a call takes less than a minute (`MaxTicks < 60`). After the
  first read, the value is a time that was shown, or it does not look like a second around a
  full minute, or such a minute is over and the next one too far away (`FirstTime`; `FirstDate` says the
  like of midnight): two reads that agree are of a value that was shown.
  `ServicesAlwaysTyped` also keeps the clock within its century (`InCentury`).

Only model-checked: everything under fairness (`SettlesOnLast`, `FlagIsServed`,
`KeepsPolling`, `PictureReturns`, `LastFramePainted`, `FlagsServed`, `RequestsEnd`), which
the prover cannot do. Every other property that a passing run checks is stated by a
theorem.

## 5. What is not modelled, and why

* The skew between the timer channels (they are started one after the other in
  `controller_init`) is a fraction of a tick and is part of `RB7`.
* `main`'s order of initialisation. `color_temp = B` (`main.c:90`) runs before
  `set_GAR` has filled `B`, so that the field is black instead of blue until the first
  frame; the models start where `main` has finished, with the value it leaves.
* The send functions of `Can.c`: nothing calls them.
* The SPI variants of the card stack are not compiled, its USB transfers are
  disabled; the other `disk_ioctl`s answer constants or the capacity. CSD and CIS are
  reduced to capacity and clock.
* The RTC's alarms, tamper and calibration: nothing uses them.
* `pio_handler_set_priority` is modelled, but no property asks that it keep a pin
  off that a handler turns off meanwhile: it does not, and nothing calls it after the start.
* Console, clocks and PMC, MPU, SDRAM controller, XDMAC, pin set-up and board
  set-up: straight-line register access, or waiting for hardware.
* FatFs, CMSIS and the device headers are third-party; `src/bck` is not built.
* Most of the repository is that vendored code: about 85000 lines, of which the program's own
  (`src/*.c`) are under 1200. The definitions stand for about 2650 lines; mapping a third of the repository
  would mean modelling CMSIS' DSP headers, FatFs and register definitions.

## 6. What is left

1. `Boot`: `main`, `can_init`, `controller_init` and the interrupts that may
   already fire; when the statics get their values.
2. Weaker hypotheses: `FramesComplete` for a skew between the two timer channels;
   `ClockReadAndSet` for a model of the register that settles in bounded time.
3. The console and the transmit path of MCAN, if the firmware comes to use them.
