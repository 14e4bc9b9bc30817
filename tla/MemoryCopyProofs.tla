--------------------------- MODULE MemoryCopyProofs ---------------------------
(***************************************************************************)
(* memory_copy lays the objects in order, for chunks, sectors, headers and *)
(* files of any size, as long as objptr has room for the files.  (It does  *)
(* not test OBJECT_SIZE: Fits is what the card must keep to.)  Their bytes *)
(* are those of the files, because no line of buffer is in the cache when  *)
(* the DMA's data arrive, the shared ones apart (Delivered).               *)
(***************************************************************************)
EXTENDS MemoryCopy, Integers, TLAPS

Fits == MaxFiles < OBJECT_SIZE

Cell == Nat \X Nat
Line == [val: Cell, state: {"out", "clean", "dirty"}]
Word == [val: Cell, want: Cell, from: Cells]

Typed ==
  /\ files \in Seq(Nat) /\ Len(files) <= MaxFiles
  /\ i \in Nat /\ off \in Nat /\ i <= Len(files)
  /\ pc \in {"open", "file", "read", "copy", "next", "done"}
  /\ pc \in {"file", "read", "copy", "next"} => i < Len(files)
  /\ mem \in [Cells -> Cell] /\ cache \in [Cells -> Line]
  /\ sdram \in Seq(Word)
  /\ objptr \in [0..(OBJECT_SIZE - 1) -> Nat]

\* The SDRAM holds the files up to the present one; each pointer of a finished file lies
\* behind the cells of the files before.
Bounded ==
  /\ \A c \in 1..Len(sdram) : sdram[c].want[1] <= i + 1
  /\ pc \in {"open", "file", "done"} => \A c \in 1..Len(sdram) : sdram[c].want[1] <= i
  /\ \A o \in 1..i : objptr[o] <= Len(sdram)

\* In the loop of memory_copy_file the last cell is the one before off; or none of this
\* file has been written, and the header is what comes next.
AtOff ==
  pc \in {"read", "copy"} =>
    \/ /\ off + Skip = HEADER
       /\ \A c \in 1..Len(sdram) : sdram[c].want[1] <= i
    \/ /\ off > 0 /\ Len(sdram) > 0
       /\ sdram[Len(sdram)].want = <<i + 1, off - 1>>

\* When a chunk has been read, it is in the memory, and none of its lines is in the cache.
Delivered ==
  pc = "copy" =>
    \A c \in (1..Least(DATA_SIZE, Size - off)) \ Shared :
      cache[c].state = "out" /\ mem[c] = <<i + 1, off + c - 1>>

IInv == Typed /\ Bounded /\ AtOff /\ ObjectsInOrder
ByteInv == Delivered /\ FileBytesCopied

-----------------------------------------------------------------------------
LEMMA InitInv == Init => IInv
<1> SUFFICES ASSUME Init PROVE IInv
  OBVIOUS
<1>1. files \in Seq(Nat) /\ Len(files) <= MaxFiles
  <2>1. PICK n \in 0..MaxFiles : files \in [1..n -> Sizes]
    BY DEF Init
  <2>2. n \in Nat /\ files \in [1..n -> Nat]
    <3>1. n \in Nat /\ Sizes \subseteq Nat
      BY CopyAssumption
    <3> QED
      BY <2>1, <3>1
  <2>3. files \in Seq(Nat) /\ Len(files) = n
    BY <2>2
  <2> QED
    BY <2>1, <2>3, CopyAssumption
<1>2. sdram = <<>> /\ Len(sdram) = 0
  BY DEF Init
<1>3. mem \in [Cells -> Cell] /\ cache \in [Cells -> Line]
  BY DEF Init, Cell, Line, Zero, Uncached, Out
<1>4. objptr \in [0..(OBJECT_SIZE - 1) -> Nat]
  BY DEF Init
<1>5. Typed
  BY <1>1, <1>2, <1>3, <1>4 DEF Init, Typed
<1> QED
  BY <1>2, <1>5 DEF Init, IInv, Bounded, AtOff, ObjectsInOrder

BufferType == [memory: [Cells -> Cell], lines: [Cells -> Line]]

LEMMA BufferTyped ==
  ASSUME Typed
  PROVE  /\ Buffer \in BufferType
         /\ \A b \in BufferType : Becomes(b) =>
              mem' \in [Cells -> Cell] /\ cache' \in [Cells -> Line]
BY DEF Typed, Buffer, BufferType, Becomes

LEMMA StepsTyped ==
  ASSUME NEW b \in BufferType, NEW S, NEW v \in [Cells -> Cell], NEW state \in {"clean", "dirty"}
  PROVE  /\ Stored(b, S, v) \in BufferType /\ Fetched(b, S, state) \in BufferType
         /\ CleanInvalidate(b) \in BufferType /\ Brought(b, S, v) \in BufferType
<1> USE DEF BufferType
<1>1. Stored(b, S, v) \in BufferType
  BY DEF Stored, Line
<1>2. Fetched(b, S, state) \in BufferType
  BY DEF Fetched, Line
<1>3. CleanInvalidate(b) \in BufferType
  BY DEF CleanInvalidate, Line, Uncached, Out, Zero, Cell
<1>4. Brought(b, S, v) \in BufferType
  BY DEF Brought
<1> QED
  BY <1>1, <1>2, <1>3, <1>4

\* Whatever the maintenance left of the lines that are not shared, the data of a transfer
\* lie in the memory, and those lines are not in the cache.
LEMMA ReadDelivers ==
  ASSUME Typed, NEW again \in SUBSET Shared, NEW state \in {"clean", "dirty"}, NEW S, NEW T,
         NEW v \in [Cells -> Cell],
         Becomes(Stored(Brought(Fetched(CleanInvalidate(Buffer), again, state), S, v), T, v))
  PROVE  /\ mem' \in [Cells -> Cell] /\ cache' \in [Cells -> Line]
         /\ \A c \in Cells \cap (S \cup T) :
              c \notin Shared => cache'[c].state = "out" /\ mem'[c] = v[c]
<1> DEFINE one == CleanInvalidate(Buffer)
           two == Fetched(one, again, state)
           three == Brought(two, S, v)
           four == Stored(three, T, v)
<1>1. one \in BufferType /\ two \in BufferType /\ three \in BufferType /\ four \in BufferType
  <2>1. one \in BufferType
    BY BufferTyped, StepsTyped
  <2>2. two \in BufferType
    <3> HIDE DEF one
    <3> QED  BY <2>1, StepsTyped
  <2>3. three \in BufferType
    <3> HIDE DEF two
    <3> QED  BY <2>2, StepsTyped
  <2>4. four \in BufferType
    <3> HIDE DEF three
    <3> QED  BY <2>3, StepsTyped
  <2> QED
    BY <2>1, <2>2, <2>3, <2>4
<1>2. ASSUME NEW c \in Cells, c \notin Shared  PROVE two.lines[c].state = "out"
  <2>1. one.lines[c] = Out
    BY DEF CleanInvalidate, Uncached
  <2> HIDE DEF one
  <2>2. two.lines[c] = one.lines[c]
    BY <1>2 DEF Fetched
  <2> QED
    BY <2>1, <2>2 DEF Out
<1>3. ASSUME NEW c \in Cells \cap (S \cup T), c \notin Shared
      PROVE  four.lines[c].state = "out" /\ four.memory[c] = v[c]
  <2> HIDE DEF two
  <2>1. three.lines = two.lines /\ three.memory[c] = (IF c \in S THEN v[c] ELSE two.memory[c])
    BY <1>1 DEF Brought, BufferType
  <2>2. three.lines[c].state = "out"
    BY <1>2, <1>3, <2>1
  <2> HIDE DEF three
  <2>3. /\ four.memory[c] = (IF c \in T THEN v[c] ELSE three.memory[c])
        /\ four.lines[c] = three.lines[c]
    BY <2>2 DEF Stored
  <2> QED
    BY <2>1, <2>2, <2>3
<1>4. mem' = four.memory /\ cache' = four.lines
  BY DEF Becomes
<1> HIDE DEF four
<1> QED
  BY <1>1, <1>3, <1>4 DEF BufferType

\* The file f_read delivers is a file of cells.
LEMMA ReadTyped ==
  ASSUME Typed, f_read
  PROVE  mem' \in [Cells -> Cell] /\ cache' \in [Cells -> Line] /\ Delivered'
<1> DEFINE n     == Least(DATA_SIZE, Size - off)
           byDma == 1..(n - (n % SECTOR))
           file  == [c \in Cells |-> <<i + 1, off + c - 1>>]
<1>1. CASE pc' = "next" /\ UNCHANGED <<mem, cache>>
  BY <1>1 DEF Typed, Delivered
<1>2. ASSUME pc' = "copy", ~Ended, NEW again \in SUBSET Shared, NEW state \in {"clean", "dirty"},
             Becomes(Stored(Brought(Fetched(CleanInvalidate(Buffer), again, state), byDma, file),
                            1..n \ byDma, file))
      PROVE  mem' \in [Cells -> Cell] /\ cache' \in [Cells -> Line] /\ Delivered'
  <2>1. file \in [Cells -> Cell]
    <3>1. ASSUME NEW c \in Cells  PROVE i + 1 \in Nat /\ off + c - 1 \in Nat
      <4>1. i \in Nat /\ off \in Nat /\ c \in Nat /\ c >= 1
        BY CopyAssumption DEF Typed, Cells
      <4> QED  BY <4>1
    <3> QED  BY <3>1 DEF Cell
  <2>2. /\ mem' \in [Cells -> Cell] /\ cache' \in [Cells -> Line]
        /\ \A c \in Cells \cap (byDma \cup (1..n \ byDma)) :
             c \notin Shared => cache'[c].state = "out" /\ mem'[c] = file[c]
    <3> HIDE DEF file, byDma, n
    <3> QED
      BY <1>2, <2>1, ReadDelivers
  <2>3. 1..n \subseteq Cells
    <3>1. pc = "read"
      BY DEF f_read
    <3>2. Size \in Nat /\ off \in Nat /\ DATA_SIZE \in Nat
      BY <3>1, CopyAssumption DEF Typed, Size
    <3>3. n \in Nat /\ n <= DATA_SIZE
      BY <1>2, <3>2 DEF Least, Ended
    <3> QED
      BY <3>2, <3>3 DEF Cells
  <2>4. ASSUME NEW c \in 1..n, c \notin Shared
        PROVE  cache'[c].state = "out" /\ mem'[c] = <<i + 1, off + c - 1>>
    <3>1. c \in Cells \cap (byDma \cup (1..n \ byDma))
      BY <2>3
    <3> QED
      BY <2>2, <2>4, <3>1
  <2>5. i' = i /\ off' = off /\ files' = files
    BY DEF f_read
  <2>6. Least(DATA_SIZE, Size' - off') = n
    BY <2>5 DEF Size
  <2> QED
    BY <2>2, <2>4, <2>5, <2>6 DEF Delivered
<1> QED
  BY <1>1, <1>2 DEF f_read

-----------------------------------------------------------------------------
\* What CopyChunk appends.
Chunk == [k \in 1..(DATA_SIZE - Skip) |->
            [val |-> Seen(Source(k)), want |-> <<i + 1, off + Skip + k - 1>>,
             from |-> Source(k)]]

LEMMA ChunkTyped ==
  ASSUME Typed
  PROVE  /\ Skip \in 0..DATA_SIZE
         /\ Chunk \in Seq(Word) /\ Len(Chunk) = DATA_SIZE - Skip
         /\ \A k \in 1..(DATA_SIZE - Skip) : Chunk[k].want = <<i + 1, off + Skip + k - 1>>
<1>1. Skip \in 0..DATA_SIZE /\ Skip \in Nat /\ DATA_SIZE - Skip \in Nat
  BY CopyAssumption DEF Skip
<1>2. ASSUME NEW k \in 1..(DATA_SIZE - Skip)
      PROVE  /\ Seen(Source(k)) \in Cell /\ Source(k) \in Cells
             /\ <<i + 1, off + Skip + k - 1>> \in Cell
  <2>1. Source(k) \in Cells
    BY <1>1, CopyAssumption DEF Source, Cells
  <2>2. Seen(Source(k)) \in Cell
    BY <2>1 DEF Seen, Typed, Line
  <2>3. i + 1 \in Nat /\ off + Skip + k - 1 \in Nat
    BY <1>1 DEF Typed
  <2> QED
    BY <2>1, <2>2, <2>3 DEF Cell
<1>3. Chunk \in [1..(DATA_SIZE - Skip) -> Word]
  BY <1>2 DEF Chunk, Word
<1>4. Chunk \in Seq(Word) /\ Len(Chunk) = DATA_SIZE - Skip
  BY <1>1, <1>3
<1>5. \A k \in 1..(DATA_SIZE - Skip) : Chunk[k].want = <<i + 1, off + Skip + k - 1>>
  BY DEF Chunk
<1> QED
  BY <1>1, <1>4, <1>5

LEMMA WantTyped ==
  ASSUME Typed
  PROVE  \A c \in 1..Len(sdram) : sdram[c].want \in Cell
<1> TAKE c \in 1..Len(sdram)
<1>1. sdram[c] \in Word
  BY DEF Typed
<1> QED
  BY <1>1 DEF Word

LEMMA Appended ==
  ASSUME NEW T, NEW s \in Seq(T), NEW t \in Seq(T)
  PROVE  /\ s \o t \in Seq(T) /\ Len(s \o t) = Len(s) + Len(t)
         /\ \A c \in 1..Len(s) : (s \o t)[c] = s[c]
         /\ \A c \in (Len(s) + 1)..(Len(s) + Len(t)) : (s \o t)[c] = t[c - Len(s)]
OBVIOUS

LEMMA CopyInv == ASSUME Fits, IInv, CopyChunk PROVE IInv'
<1> DEFINE L == Len(sdram)
           N == DATA_SIZE - Skip
<1> USE DEF IInv
<1>1. /\ Skip \in 0..DATA_SIZE /\ Chunk \in Seq(Word) /\ Len(Chunk) = N
      /\ \A k \in 1..N : Chunk[k].want = <<i + 1, off + Skip + k - 1>>
  BY ChunkTyped
<1>2. L \in Nat /\ N \in Nat /\ DATA_SIZE \in Nat \ {0} /\ HEADER \in 0..DATA_SIZE
  BY <1>1, CopyAssumption DEF Typed
<1>3. sdram' = sdram \o Chunk
  BY DEF CopyChunk, Chunk
<1>4. /\ sdram' \in Seq(Word) /\ Len(sdram') = L + N
      /\ \A c \in 1..L : sdram'[c] = sdram[c]
      /\ \A c \in (L + 1)..(L + N) : sdram'[c] = Chunk[c - L]
  <2>1. sdram \in Seq(Word)
    BY DEF Typed
  <2>2. /\ sdram \o Chunk \in Seq(Word) /\ Len(sdram \o Chunk) = Len(sdram) + Len(Chunk)
        /\ \A c \in 1..Len(sdram) : (sdram \o Chunk)[c] = sdram[c]
        /\ \A c \in (Len(sdram) + 1)..(Len(sdram) + Len(Chunk)) :
             (sdram \o Chunk)[c] = Chunk[c - Len(sdram)]
    BY <1>1, <2>1, Appended, Zenon
  <2> HIDE DEF IInv
  <2> QED
    BY <1>1, <1>3, <2>2
<1>5. \A c \in (L + 1)..(L + N) : sdram'[c].want = <<i + 1, off + Skip + (c - L) - 1>>
  <2> TAKE c \in (L + 1)..(L + N)
  <2>1. c - L \in 1..N
    BY <1>2
  <2> QED
    BY <1>1, <1>4, <2>1
<1>6. /\ i' = i /\ objptr' = objptr /\ files' = files
      /\ pc = "copy" /\ pc' = "read" /\ off' = off + DATA_SIZE
  BY DEF CopyChunk
<1>7. Typed'
  <2>1. mem' \in [Cells -> Cell] /\ cache' \in [Cells -> Line]
    <3>1. [c \in Cells |-> Zero] \in [Cells -> Cell]
      BY DEF Zero, Cell
    <3>2. Fetched(Buffer, Cells, "clean") \in BufferType
      BY <3>1, BufferTyped, StepsTyped
    <3> QED
      BY <3>2, BufferTyped DEF CopyChunk
  <2> QED
    BY <1>2, <1>4, <1>6, <2>1 DEF Typed
<1>8. \A c \in 1..L : sdram[c].want[1] \in Nat /\ sdram[c].want[2] \in Nat
  BY WantTyped DEF Cell
<1>9. Bounded'
  <2>1. \A c \in 1..(L + N) : sdram'[c].want[1] <= i + 1
    <3> TAKE c \in 1..(L + N)
    <3>1. CASE c \in 1..L
      BY <1>4, <3>1 DEF Bounded
    <3>2. CASE c \in (L + 1)..(L + N)
      <4>1. sdram'[c].want[1] = i + 1
        BY <1>5, <3>2
      <4> QED
        BY <4>1 DEF Typed
    <3> QED
      BY <1>2, <3>1, <3>2
  <2>2. \A o \in 1..i : objptr[o] <= L + N
    <3> TAKE o \in 1..i
    <3>1. o \in 0..(OBJECT_SIZE - 1)
      BY CopyAssumption DEF Typed, Fits
    <3>2. objptr[o] \in Nat /\ objptr[o] <= L
      BY <3>1 DEF Typed, Bounded
    <3> QED
      BY <1>2, <3>2
  <2> QED
    BY <1>4, <1>6, <2>1, <2>2 DEF Bounded
<1>10. \/ off + Skip = HEADER /\ \A c \in 1..L : sdram[c].want[1] <= i
       \/ off > 0 /\ L > 0 /\ sdram[L].want = <<i + 1, off - 1>>
  BY <1>6 DEF AtOff
<1>11. off > 0 => Skip = 0
  BY DEF Skip
<1>12. AtOff'
  <2>1. CASE N = 0
    <3>1. off = 0 /\ HEADER = DATA_SIZE
      BY <1>2, <2>1 DEF Skip, Typed
    <3>2. Skip' = 0
      BY <1>2, <1>6, <3>1 DEF Skip
    <3> QED
      BY <1>2, <1>4, <1>6, <1>10, <2>1, <3>1, <3>2 DEF AtOff
  <2>2. CASE N > 0
    <3>1. sdram'[L + N].want = <<i + 1, off + Skip + (L + N - L) - 1>>
      <4>1. L + N \in (L + 1)..(L + N)
        BY <1>2, <2>2
      <4> QED
        BY <1>2, <1>5, <4>1
    <3>2. off + Skip + (L + N - L) - 1 = off' - 1 /\ off' > 0
      BY <1>1, <1>2, <1>6 DEF Typed
    <3> QED
      BY <1>2, <1>4, <1>6, <2>2, <3>1, <3>2 DEF AtOff
  <2> QED
    BY <1>2, <2>1, <2>2
<1>13. \A o \in 1..i, c \in 1..(L + N) : (c <= objptr[o]) <=> sdram'[c].want[1] <= o
  <2> TAKE o \in 1..i, c \in 1..(L + N)
  <2>1. CASE c \in 1..L
    BY <1>4, <2>1 DEF ObjectsInOrder
  <2>2. CASE c \in (L + 1)..(L + N)
    <3>1. o \in 0..(OBJECT_SIZE - 1)
      BY CopyAssumption DEF Typed, Fits
    <3>2. objptr[o] \in Nat /\ objptr[o] <= L
      BY <3>1 DEF Typed, Bounded
    <3>3. sdram'[c].want[1] = i + 1
      BY <1>5, <2>2
    <3>4. ~(c <= objptr[o])
      BY <1>2, <2>2, <3>2
    <3>5. ~(i + 1 <= o)
      BY DEF Typed
    <3> QED
      BY <3>3, <3>4, <3>5
  <2> QED
    BY <1>2, <2>1, <2>2
<1>14. ASSUME NEW c \in 1..(L + N)
       PROVE  LET first == c = 1 \/ sdram'[c].want[1] # sdram'[c - 1].want[1]
              IN  sdram'[c].want[2] = IF first THEN HEADER ELSE sdram'[c - 1].want[2] + 1
  <2>1. CASE c \in 1..L
    <3>1. c > 1 => c - 1 \in 1..L
      BY <1>2, <2>1
    <3> QED
      BY <1>4, <2>1, <3>1 DEF ObjectsInOrder
  <2>2. CASE c = L + 1
    <3>1. sdram'[c].want = <<i + 1, off + Skip>>
      <4>1. c \in (L + 1)..(L + N)
        BY <1>2, <2>2
      <4>2. off + Skip + (c - L) - 1 = off + Skip
        BY <1>1, <1>2, <2>2 DEF Typed
      <4> QED
        BY <1>5, <4>1, <4>2
    <3>2. L > 0 => c - 1 = L /\ sdram'[c - 1] = sdram[L] /\ L \in 1..L
      BY <1>2, <1>4, <2>2
    <3>3. CASE L = 0
      BY <1>10, <2>2, <3>1, <3>3
    <3>4. CASE L > 0 /\ off + Skip = HEADER /\ sdram[L].want[1] <= i
      <4>1. sdram[L].want[1] # i + 1
        BY <1>8, <3>2, <3>4 DEF Typed
      <4> QED
        BY <3>1, <3>2, <3>4, <4>1
    <3>5. CASE L > 0 /\ off > 0 /\ sdram[L].want = <<i + 1, off - 1>>
      <4>1. off + Skip = off - 1 + 1
        BY <1>11, <3>5 DEF Typed
      <4>2. c # 1
        BY <1>2, <2>2, <3>5
      <4> QED
        BY <3>1, <3>2, <3>5, <4>1, <4>2
    <3> QED
      BY <1>2, <1>10, <3>2, <3>3, <3>4, <3>5
  <2>3. CASE c \in (L + 2)..(L + N)
    <3>1. c \in (L + 1)..(L + N) /\ c - 1 \in (L + 1)..(L + N) /\ c # 1
      BY <1>2, <2>3
    <3>2. off + Skip + (c - L) - 1 = (off + Skip + (c - 1 - L) - 1) + 1
      BY <1>1, <1>2, <3>1 DEF Typed
    <3> QED
      BY <1>5, <3>1, <3>2
  <2> QED
    BY <1>2, <2>1, <2>2, <2>3
<1>15. ObjectsInOrder'
  BY <1>4, <1>6, <1>13, <1>14 DEF ObjectsInOrder
<1> QED
  BY <1>7, <1>9, <1>12, <1>15

\* The other steps write nothing to the SDRAM.
LEMMA OthersInv ==
  ASSUME Fits, IInv, \/ OpenNext \/ OpenFile \/ f_read \/ NextFile \/ Terminated
                     \/ \E c \in Cells : Evict(c)
  PROVE  IInv'
<1> USE DEF IInv
<1>1. sdram' = sdram /\ files' = files
  BY DEF OpenNext, OpenFile, f_read, NextFile, Terminated, vars, Evict
<1>2. Len(sdram) \in Nat /\ \A c \in 1..Len(sdram) : sdram[c].want[1] \in Nat
  BY WantTyped DEF Typed, Cell
<1>3. OBJECT_SIZE \in Nat \ {0} /\ MaxFiles < OBJECT_SIZE /\ MaxFiles \in Nat
  BY CopyAssumption DEF Fits
<1>4. CASE OpenNext
  BY <1>1, <1>4 DEF OpenNext, Typed, Bounded, AtOff, ObjectsInOrder
<1>5. CASE OpenFile
  <2>1. objptr' = [objptr EXCEPT ![0] = Len(sdram)]
    BY <1>5 DEF OpenFile
  <2>2. objptr' \in [0..(OBJECT_SIZE - 1) -> Nat] /\ \A o \in 1..i : objptr'[o] = objptr[o]
    <3>1. \A o \in 1..i : o \in 0..(OBJECT_SIZE - 1) /\ o # 0
      BY <1>3 DEF Typed
    <3> QED
      BY <1>2, <2>1, <3>1 DEF Typed
  <2>3. mem' \in [Cells -> Cell] /\ cache' \in [Cells -> Line]
    <3>1. CASE UNCHANGED <<mem, cache>>
      BY <3>1 DEF Typed
    <3>2. CASE Becomes(Stored(Buffer, Cells, [c \in Cells |-> Zero]))
      <4>1. [c \in Cells |-> Zero] \in [Cells -> Cell]
        BY DEF Zero, Cell
      <4>2. Stored(Buffer, Cells, [c \in Cells |-> Zero]) \in BufferType
        BY <4>1, BufferTyped, StepsTyped
      <4> QED
        BY <3>2, <4>2, BufferTyped
    <3> QED
      BY <1>5, <3>1, <3>2 DEF OpenFile
  <2>4. pc = "file" /\ pc' \in {"next", "read"} /\ off' = 0 /\ i' = i
    BY <1>5 DEF OpenFile
  <2>5. Typed'
    BY <1>1, <2>2, <2>3, <2>4 DEF Typed
  <2>6. Bounded' /\ ObjectsInOrder'
    BY <1>1, <2>2, <2>4 DEF Bounded, ObjectsInOrder
  <2>7. AtOff'
    <3>1. off' + Skip' = HEADER
      BY <2>4, CopyAssumption DEF Skip
    <3> QED
      BY <1>1, <2>4, <3>1 DEF AtOff, Bounded
  <2> QED
    BY <2>5, <2>6, <2>7
<1>6. CASE f_read
  <2>1. mem' \in [Cells -> Cell] /\ cache' \in [Cells -> Line]
    BY <1>6, ReadTyped
  <2>2. pc = "read" /\ pc' \in {"next", "copy"} /\ off' = off /\ i' = i /\ objptr' = objptr
    BY <1>6 DEF f_read
  <2>3. Typed'
    BY <1>1, <2>1, <2>2 DEF Typed
  <2>4. Bounded' /\ ObjectsInOrder'
    BY <1>1, <2>2 DEF Bounded, ObjectsInOrder
  <2>5. AtOff'
    BY <1>1, <2>2 DEF AtOff, Skip
  <2> QED
    BY <2>3, <2>4, <2>5
<1>7. CASE NextFile
  <2>1. i + 1 \in 0..(OBJECT_SIZE - 1) /\ i + 1 <= Len(files) /\ i + 1 \in Nat
    BY <1>3, <1>7 DEF NextFile, Typed
  <2>2. /\ objptr' \in [0..(OBJECT_SIZE - 1) -> Nat] /\ objptr'[i + 1] = Len(sdram)
        /\ \A o \in 1..i : objptr'[o] = objptr[o]
    BY <1>2, <1>7, <2>1 DEF NextFile, NextObject, Typed
  <2>3. /\ pc' = "open" /\ i' = i + 1 /\ off' = off /\ mem' = mem /\ cache' = cache
        /\ pc = "next"
    BY <1>7 DEF NextFile
  <2>4. Typed'
    BY <1>1, <2>1, <2>2, <2>3 DEF Typed
  <2>5. \A o \in 1..(i + 1) : o \in 1..i \/ o = i + 1
    BY DEF Typed
  <2>6. Bounded'
    BY <1>1, <1>2, <2>1, <2>2, <2>3, <2>5 DEF Bounded
  <2>7. \A o \in 1..(i + 1), c \in 1..Len(sdram) : (c <= objptr'[o]) <=> sdram[c].want[1] <= o
    BY <1>2, <2>2, <2>5 DEF Bounded, ObjectsInOrder
  <2>8. ObjectsInOrder'
    BY <1>1, <2>3, <2>7 DEF ObjectsInOrder
  <2> QED
    BY <2>3, <2>4, <2>6, <2>8 DEF AtOff
<1>8. CASE Terminated
  BY <1>8 DEF Terminated, vars, Typed, Bounded, AtOff, ObjectsInOrder, Skip
<1>9. ASSUME NEW c \in Cells, Evict(c) PROVE IInv'
  <2>1. mem' \in [Cells -> Cell] /\ cache' \in [Cells -> Line]
    <3>1. Out \in Line /\ cache[c].val \in Cell
      BY DEF Typed, Out, Line, Zero, Cell
    <3> QED
      BY <1>9, <3>1 DEF Evict, Typed
  <2> QED
    BY <1>1, <1>9, <2>1 DEF Evict, Typed, Bounded, AtOff, ObjectsInOrder, Skip
<1> QED
  BY <1>4, <1>5, <1>6, <1>7, <1>8, <1>9

\* What the chunk holds, and that the other steps leave alone what was read.
LEMMA CopyBytes == ASSUME Fits, IInv, ByteInv, CopyChunk PROVE ByteInv'
<1> DEFINE L == Len(sdram)
           N == DATA_SIZE - Skip
<1>1. Typed
  BY DEF IInv
<1>2. Skip \in 0..DATA_SIZE /\ Chunk \in Seq(Word) /\ Len(Chunk) = N
  BY <1>1, ChunkTyped
<1>3. L \in Nat /\ N \in Nat /\ DATA_SIZE \in Nat /\ off \in Nat
  BY <1>1, <1>2, CopyAssumption DEF Typed
<1>4. sdram' = sdram \o Chunk /\ sdram \in Seq(Word)
  BY <1>1 DEF CopyChunk, Chunk, Typed
<1>5. /\ Len(sdram') = L + N /\ \A c \in 1..L : sdram'[c] = sdram[c]
      /\ \A c \in (L + 1)..(L + N) : sdram'[c] = Chunk[c - L]
  <2>1. /\ Len(sdram \o Chunk) = Len(sdram) + Len(Chunk)
        /\ \A c \in 1..Len(sdram) : (sdram \o Chunk)[c] = sdram[c]
        /\ \A c \in (Len(sdram) + 1)..(Len(sdram) + Len(Chunk)) :
             (sdram \o Chunk)[c] = Chunk[c - Len(sdram)]
    BY <1>2, <1>4, Appended, Zenon
  <2> QED
    BY <1>2, <1>4, <2>1
<1>6. files' = files /\ pc = "copy" /\ pc' = "read" /\ Size \in Nat
  BY <1>1 DEF CopyChunk, Typed, Size
<1>7. ASSUME NEW c \in (L + 1)..(L + N),
             sdram'[c].want[2] < files[sdram'[c].want[1]], sdram'[c].from \notin Shared
      PROVE  sdram'[c].val = sdram'[c].want
  <2> DEFINE k == c - L
  <2>1. k \in 1..N /\ sdram'[c] = Chunk[k]
    BY <1>3, <1>5
  <2>2. /\ Chunk[k].val = Seen(Source(k)) /\ Chunk[k].want = <<i + 1, off + Skip + k - 1>>
        /\ Chunk[k].from = Source(k)
    BY <2>1 DEF Chunk
  <2>3. /\ Source(k) \in Nat /\ Source(k) >= 1 /\ Source(k) <= DATA_SIZE
        /\ off + Skip + k - 1 = off + Source(k) - 1
    BY <1>2, <1>3, <2>1 DEF Source
  <2>4. off + Source(k) - 1 < Size
    BY <1>7, <2>1, <2>2, <2>3 DEF Size
  <2>5. Source(k) \in (1..Least(DATA_SIZE, Size - off)) \ Shared
    <3>1. Source(k) <= Size - off
      BY <1>3, <1>6, <2>3, <2>4
    <3>2. Source(k) <= Least(DATA_SIZE, Size - off)
      BY <1>3, <1>6, <2>3, <3>1 DEF Least
    <3>3. Least(DATA_SIZE, Size - off) \in Int
      BY <1>3, <1>6 DEF Least
    <3>4. Source(k) \notin Shared
      BY <1>7, <2>1, <2>2
    <3> HIDE DEF k
    <3> QED
      BY <2>3, <3>2, <3>3, <3>4
  <2>6. Seen(Source(k)) = <<i + 1, off + Source(k) - 1>>
    BY <1>6, <2>5 DEF ByteInv, Delivered, Seen
  <2> QED
    BY <2>1, <2>2, <2>3, <2>6
<1>8. FileBytesCopied'
  <2> SUFFICES ASSUME NEW c \in 1..(L + N),
                      sdram'[c].want[2] < files[sdram'[c].want[1]], sdram'[c].from \notin Shared
               PROVE  sdram'[c].val = sdram'[c].want
    BY <1>5, <1>6 DEF FileBytesCopied
  <2>1. CASE c \in 1..L
    BY <1>5, <2>1 DEF ByteInv, FileBytesCopied
  <2>2. CASE c \in (L + 1)..(L + N)
    BY <1>7, <2>2
  <2> QED
    BY <1>3, <2>1, <2>2
<1> QED
  BY <1>6, <1>8 DEF ByteInv, Delivered

LEMMA OthersBytes ==
  ASSUME IInv, ByteInv, \/ OpenNext \/ OpenFile \/ f_read \/ NextFile \/ Terminated
                        \/ \E c \in Cells : Evict(c)
  PROVE  ByteInv'
<1>1. sdram' = sdram /\ files' = files
  BY DEF OpenNext, OpenFile, f_read, NextFile, Terminated, vars, Evict
<1>2. FileBytesCopied'
  BY <1>1 DEF ByteInv, FileBytesCopied
<1>3. CASE OpenNext \/ OpenFile \/ NextFile
  BY <1>2, <1>3 DEF OpenNext, OpenFile, NextFile, ByteInv, Delivered
<1>4. CASE f_read
  BY <1>2, <1>4, ReadTyped DEF IInv, ByteInv
<1>5. CASE Terminated
  BY <1>2, <1>5 DEF Terminated, vars, ByteInv, Delivered
<1>6. ASSUME NEW c \in Cells, Evict(c)  PROVE ByteInv'
  <2>1. i' = i /\ off' = off /\ pc' = pc /\ Size' = Size
    BY <1>1, <1>6 DEF Evict, Size
  <2>2. ASSUME pc = "copy", NEW d \in (1..Least(DATA_SIZE, Size - off)) \ Shared
        PROVE  cache'[d].state = "out" /\ mem'[d] = <<i + 1, off + d - 1>>
    <3>1. cache[d].state = "out" /\ mem[d] = <<i + 1, off + d - 1>>
      BY <2>2 DEF ByteInv, Delivered
    <3>2. d # c /\ cache[c].state # "out"
      BY <1>6, <3>1 DEF Evict
    <3>3. cache' = [cache EXCEPT ![c] = Out]
          /\ mem' = (IF cache[c].state = "dirty" THEN [mem EXCEPT ![c] = cache[c].val] ELSE mem)
      BY <1>6 DEF Evict
    <3>4. mem \in [Cells -> Cell] /\ cache \in [Cells -> Line]
      BY DEF IInv, Typed
    <3> QED
      BY <3>1, <3>2, <3>3, <3>4
  <2> QED
    BY <1>2, <2>1, <2>2 DEF ByteInv, Delivered
<1> QED
  BY <1>3, <1>4, <1>5, <1>6

-----------------------------------------------------------------------------
\* As long as objptr has room for the card's files, whatever the chunk, the sector, the
\* header and the files' sizes: the objects lie in order, each begins where its pointer
\* says, with the cell behind the header, and none is missing in between.
THEOREM AlwaysInOrder ==
  ASSUME Fits
  PROVE  Spec => []ObjectsInOrder
<1>1. Init => IInv
  BY InitInv
<1>2. IInv /\ [Next]_vars => IInv'
  <2>1. IInv /\ UNCHANGED vars => IInv'
    BY DEF IInv, vars, Typed, Bounded, AtOff, ObjectsInOrder, Skip
  <2> QED
    BY <2>1, CopyInv, OthersInv DEF Next
<1>3. IInv => ObjectsInOrder
  BY DEF IInv
<1> QED
  BY <1>1, <1>2, <1>3, PTL DEF Spec

\* Under the same condition, and whatever lines leave the cache when: every cell copied for
\* a byte of a file holds that byte, unless its line of buffer holds other data, too.
THEOREM BytesArrive ==
  ASSUME Fits
  PROVE  Spec => []FileBytesCopied
<1>1. Init => IInv /\ ByteInv
  <2> SUFFICES ASSUME Init PROVE ByteInv
    BY InitInv
  <2>1. Len(sdram) = 0 /\ pc = "open"
    BY DEF Init
  <2> QED
    BY <2>1 DEF ByteInv, Delivered, FileBytesCopied
<1>2. IInv /\ ByteInv /\ [Next]_vars => (IInv /\ ByteInv)'
  <2>1. IInv /\ ByteInv /\ UNCHANGED vars => (IInv /\ ByteInv)'
    BY DEF IInv, ByteInv, vars, Typed, Bounded, AtOff, ObjectsInOrder, Skip, Delivered, Size,
           FileBytesCopied
  <2> QED
    BY <2>1, CopyInv, OthersInv, CopyBytes, OthersBytes DEF Next
<1>3. ByteInv => FileBytesCopied
  BY DEF ByteInv
<1> QED
  BY <1>1, <1>2, <1>3, PTL DEF Spec
=============================================================================
