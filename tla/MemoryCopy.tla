----------------------------- MODULE MemoryCopy -----------------------------
(***************************************************************************)
(* memory_copy of Memory.c: the bitmaps of the card, 0.bmp, 1.bmp, ..., are *)
(* read through `buffer` in chunks of DATA_SIZE bytes and laid one behind  *)
(* the other in the SDRAM, without their headers; objptr remembers where   *)
(* each begins.                                                            *)
(*                                                                         *)
(* The bytes are counted in cells of one cache line.  The HSMCI driver's   *)
(* DMA writes whole sectors to the memory behind the data cache, which     *)
(* board_init enables; buffer lies in a region that is written back and    *)
(* allocates a line when it is read.  The only maintenance is that of      *)
(* xdmac_channel_enable, which cleans and invalidates the whole cache as   *)
(* it starts a transfer (xdmac.h:365).  A line that buffer shares with     *)
(* other data can be fetched again before the sector arrives: nothing      *)
(* aligns buffer, so its first and its last line may be shared.            *)
(***************************************************************************)
EXTENDS Naturals, Sequences

CONSTANTS
  DATA_SIZE, SECTOR, HEADER,  \* in cells; HEADER is the 0x36 of the code
  OBJECT_SIZE,                \* the length of objptr
  Sizes, MaxFiles,            \* the sizes of the files, and how many there may be
  Shared                      \* the lines of buffer that hold other data, too

ASSUME CopyAssumption ==
  /\ {DATA_SIZE, SECTOR, OBJECT_SIZE} \subseteq Nat \ {0}
  /\ HEADER \in 0..DATA_SIZE /\ Sizes \subseteq Nat /\ MaxFiles \in Nat
  /\ Shared \subseteq 1..DATA_SIZE

VARIABLES
  files,    \* the sizes of the files on the card
  pc, i,    \* where memory_copy is, and its file
  off,      \* the i of memory_copy_file's loop
  mem,      \* buffer, as it is in the SRAM
  cache,    \* its lines in the data cache: none, or a value and whether it is dirty
  sdram,    \* what was written so far: the value, the place it was meant to have, and
            \* the cell of buffer it came from
  objptr    \* the start of each object, as a distance from the start of the SDRAM

vars == <<files, pc, i, off, mem, cache, sdram, objptr>>

Cells == 1..DATA_SIZE
Zero  == <<0, 0>>          \* a cell of zeros; <<f, p>> is cell p of file f - 1
Out   == [val |-> Zero, state |-> "out"]
Uncached == [c \in Cells |-> Out]

Init ==
  /\ files \in UNION {[1..n -> Sizes] : n \in 0..MaxFiles}
  /\ pc = "open" /\ i = 0 /\ off = 0
  /\ mem = [c \in Cells |-> Zero] /\ cache = Uncached
  /\ sdram = <<>> /\ objptr = [o \in 0..(OBJECT_SIZE - 1) |-> 0]

-----------------------------------------------------------------------------
(* The data cache.                                                         *)

\* A line leaves the cache, and is written back if it is dirty.
Evict(c) ==
  /\ cache[c].state # "out"
  /\ mem' = IF cache[c].state = "dirty" THEN [mem EXCEPT ![c] = cache[c].val] ELSE mem
  /\ cache' = [cache EXCEPT ![c] = Out]
  /\ UNCHANGED <<files, pc, i, off, sdram, objptr>>

\* What the steps below do to a buffer of some memory and some lines.
Buffer == [memory |-> mem, lines |-> cache]
Becomes(b) == mem' = b.memory /\ cache' = b.lines

\* The processor writes v to the cells S: a line that is not in the cache is not fetched.
Stored(b, S, v) ==
  [memory |-> [c \in Cells |-> IF c \in S /\ b.lines[c].state = "out" THEN v[c] ELSE b.memory[c]],
   lines  |-> [c \in Cells |-> IF c \in S /\ b.lines[c].state # "out"
                               THEN [val |-> v[c], state |-> "dirty"] ELSE b.lines[c]]]

\* The processor reads the cells S, or data beside them, which it may also have written.
Fetched(b, S, state) ==
  [b EXCEPT !.lines = [c \in Cells |-> IF c \in S /\ b.lines[c].state = "out"
                                       THEN [val |-> b.memory[c], state |-> state]
                                       ELSE b.lines[c]]]

\* Mutant: a transfer starts without any cache maintenance.
NotCleaned(b) == b

\* SCB_CleanInvalidateDCache: every dirty line is written back, and all of them leave.
CleanInvalidate(b) ==
  [memory |-> [c \in Cells |-> IF b.lines[c].state = "dirty" THEN b.lines[c].val
                               ELSE b.memory[c]],
   lines  |-> Uncached]

\* The DMA brings v to the cells S.
Brought(b, S, v) ==
  [b EXCEPT !.memory = [c \in Cells |-> IF c \in S THEN v[c] ELSE b.memory[c]]]

Seen(c) == IF cache[c].state = "out" THEN mem[c] ELSE cache[c].val

-----------------------------------------------------------------------------
(* memory_copy and memory_copy_file.                                       *)

Size == files[i + 1]

\* The loop ends at the first name that cannot be opened.
OpenNext ==
  /\ pc = "open"
  /\ pc' = IF i < Len(files) THEN "file" ELSE "done"
  /\ UNCHANGED <<files, i, off, mem, cache, sdram, objptr>>

\* memory_copy_file up to its loop; a failing f_open returns before the memset.
OpenFile ==
  /\ pc = "file"
  /\ objptr' = [objptr EXCEPT ![0] = Len(sdram)] /\ off' = 0
  /\ \/ pc' = "next" /\ UNCHANGED <<mem, cache>>
     \/ pc' = "read" /\ Becomes(Stored(Buffer, Cells, [c \in Cells |-> Zero]))
  /\ UNCHANGED <<files, i, sdram>>

Least(a, b) == IF a < b THEN a ELSE b

Ended == off >= Size

\* f_read: whole sectors come by DMA, the rest of the last one is copied from the
\* window of FatFs by the processor; or the read fails and the loop is left.
f_read ==
  /\ pc = "read"
  /\ IF Ended THEN pc' = "next" /\ UNCHANGED <<mem, cache>>
     ELSE LET n     == Least(DATA_SIZE, Size - off)
              byDma == 1..(n - (n % SECTOR))
              file  == [c \in Cells |-> <<i + 1, off + c - 1>>]
          IN  \/ /\ pc' = "copy"
                 /\ \E again \in SUBSET Shared, state \in {"clean", "dirty"} :
                      LET started == Fetched(CleanInvalidate(Buffer), again, state)
                      IN  Becomes(Stored(Brought(started, byDma, file), 1..n \ byDma, file))
              \/ pc' = "next" /\ UNCHANGED <<mem, cache>>
  /\ UNCHANGED <<files, i, off, sdram, objptr>>

Skip == IF off = 0 THEN HEADER ELSE 0

Source(k) == Skip + k

\* The whole buffer is copied, whatever f_read delivered.
CopyChunk ==
  /\ pc = "copy"
  /\ sdram' = sdram \o [k \in 1..(DATA_SIZE - Skip) |->
                 [val |-> Seen(Source(k)), want |-> <<i + 1, off + Skip + k - 1>>,
                  from |-> Source(k)]]
  /\ Becomes(Fetched(Buffer, Cells, "clean"))
  /\ off' = off + DATA_SIZE /\ pc' = "read"
  /\ UNCHANGED <<files, i, objptr>>

\* Mutant: the pointer of the object just copied is set, not the next one's.
SameObject == i

NextObject == i + 1

\* An index beyond objptr writes the memory behind it (here: nowhere).
NextFile ==
  /\ pc = "next"
  /\ objptr' = [objptr EXCEPT ![NextObject] = Len(sdram)]
  /\ i' = i + 1 /\ pc' = "open"
  /\ UNCHANGED <<files, off, mem, cache, sdram>>

Terminated == pc = "done" /\ UNCHANGED vars

Next ==
  \/ OpenNext \/ OpenFile \/ f_read \/ CopyChunk \/ NextFile \/ Terminated
  \/ \E c \in Cells : Evict(c)
Spec == Init /\ [][Next]_vars

-----------------------------------------------------------------------------
\* The objects lie one behind the other, in the order of their files, each begins
\* where its pointer says, whichever files could be opened and read, and its cells
\* are those of the file from the header on (but objptr[0] is moved by every file:
\* the first object is only known to begin at the start of the SDRAM).
ObjectsInOrder ==
  /\ \A o \in 1..i, c \in 1..Len(sdram) : (c <= objptr[o]) <=> sdram[c].want[1] <= o
  /\ \A c \in 1..Len(sdram) :
       LET first == c = 1 \/ sdram[c].want[1] # sdram[c - 1].want[1]
       IN  sdram[c].want[2] = IF first THEN HEADER ELSE sdram[c - 1].want[2] + 1

\* Every cell of the SDRAM that stands for a byte of the file holds that byte, although
\* the DMA wrote it behind the cache and earlier chunks were read and cleared through it:
\* unless it came through a line that buffer shares with other data.
FileBytesCopied ==
  \A c \in 1..Len(sdram) :
    LET word == sdram[c]
    IN  word.want[2] < files[word.want[1]] /\ word.from \notin Shared => word.val = word.want
=============================================================================
