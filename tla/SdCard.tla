------------------------------- MODULE SdCard -------------------------------
(***************************************************************************)
(* The card in the slot, as far as src/ASF/common/components/memory/sd_mmc *)
(* relies on it: which command each kind of card executes in which of its  *)
(* states, and what executing it changes.  A card that does not execute a  *)
(* command does not answer it.                                             *)
(***************************************************************************)
EXTENDS Integers

\* The kinds of card the stack tells apart: SD version 1.0; a standard capacity
\* SD card of a later version without the high-speed function; a high capacity
\* one with it; an old MMC; a version 4 MMC without high speed, and a sector
\* addressed one with it; an SDIO card with one data line; an SDIO + SDHC combo card.
Kinds   == {"SD1", "SDSC", "SDHC", "MMC3", "MMC4SLOW", "MMC4", "SDIO", "COMBO"}
SdMem   == {"SD1", "SDSC", "SDHC", "COMBO"}
Mmc4    == {"MMC4SLOW", "MMC4"}
Mmc     == Mmc4 \cup {"MMC3"}
Memory  == SdMem \cup Mmc
Io      == {"SDIO", "COMBO"}
HighCap == {"SDHC", "MMC4", "COMBO"}
HighSpeed == {"SDHC", "MMC4", "COMBO"}

Slow == [width |-> 1, hs |-> 0]
\* Its state, whether its I/O part is on, its address, and the bus of its memory part
\* and of its I/O part.
Card(kind, st, io, rca, mem, fn) ==
  [kind |-> kind, st |-> st, io |-> io, rca |-> rca, mem |-> mem, fn |-> fn]
PowerUp(k) == Card(k, "idle", FALSE, 0, Slow, Slow)
NoCard == PowerUp("none")
Bus == [width: {1, 4}, hs: {0, 1}]
Cards  == [kind: Kinds \cup {"none"},
           st: {"idle", "ready", "ident", "stby", "tran", "one", "many"},
           io: BOOLEAN, rca: 0..2, mem: Bus, fn: Bus]

\* Does card c execute command cmd, sent with the address rca and the HCS flag?
Executes(c, cmd, rca, hcs) ==
  LET mem == c.kind \in Memory   sd == c.kind \in SdMem   mmc == c.kind \in Mmc
      mine == rca = c.rca
  IN  CASE cmd = "IO_RESET" -> c.kind \in Io
        [] cmd = "CMD0"  -> mem
        [] cmd = "CMD8"  -> sd /\ c.kind # "SD1" /\ c.st = "idle"
        [] cmd = "CMD5"  -> c.kind \in Io /\ ~c.io
        \* A high capacity card stays busy for a host that does not ask for it.
        [] cmd = "ACMD41" -> sd /\ c.st = "idle" /\ (c.kind \in HighCap => hcs)
        [] cmd = "CMD1"  -> mmc /\ c.st = "idle"
        [] cmd = "CMD2"  -> mem /\ c.st = "ready"
        [] cmd = "CMD3"  -> ~mmc /\ c.st = (IF mem THEN "ident" ELSE "ready")
        [] cmd = "CMD3_MMC" -> mmc /\ c.st = "ident"
        [] cmd \in {"CMD9", "CMD7"} -> c.st = "stby" /\ mine
        [] cmd \in {"ACMD51", "ACMD6"} -> sd /\ c.st = "tran"
        [] cmd = "CMD6"  -> sd /\ c.kind # "SD1" /\ c.st = "tran"
        [] cmd \in {"CIS", "IO_WIDTH", "IO_HS", "IO_DIRECT", "IO_EXTENDED"} ->
             c.kind \in Io /\ c.io /\ c.st = "tran"
        [] cmd \in {"EXT_CSD", "CMD6_WIDTH", "CMD6_HS"} -> c.kind \in Mmc4 /\ c.st = "tran"
        [] cmd \in {"CMD16", "READ1", "WRITE1", "MULTI"} -> mem /\ c.st = "tran"
        [] cmd = "CMD13" -> mem /\ mine /\ c.st \in {"tran", "many"}
        [] cmd = "DATA"  -> c.st \in {"one", "many"}
        [] cmd = "CMD12" -> c.st = "many"

\* The card after it has executed cmd.
After(c, cmd) ==
  CASE cmd = "IO_RESET" -> Card(c.kind, IF c.kind = "SDIO" THEN "idle" ELSE c.st,
                                FALSE, c.rca, c.mem, Slow)
    [] cmd = "CMD0"  -> Card(c.kind, "idle", c.io, 0, Slow, c.fn)
    [] cmd = "CMD5"  -> Card(c.kind, IF c.kind = "SDIO" THEN "ready" ELSE c.st,
                             TRUE, c.rca, c.mem, c.fn)
    [] cmd \in {"ACMD41", "CMD1"} -> [c EXCEPT !.st = "ready"]
    [] cmd = "CMD2"  -> [c EXCEPT !.st = "ident"]
    [] cmd = "CMD3"  -> Card(c.kind, "stby", c.io, 2, c.mem, c.fn)
    [] cmd = "CMD3_MMC" -> Card(c.kind, "stby", c.io, 1, c.mem, c.fn)
    [] cmd = "CMD7"  -> [c EXCEPT !.st = "tran"]
    [] cmd \in {"ACMD6", "CMD6_WIDTH"} -> [c EXCEPT !.mem = [c.mem EXCEPT !.width = 4]]
    [] cmd \in {"CMD6", "CMD6_HS"} ->
         IF c.kind \in HighSpeed THEN [c EXCEPT !.mem = [c.mem EXCEPT !.hs = 1]] ELSE c
    [] cmd = "IO_WIDTH" ->
         IF c.kind = "COMBO" THEN [c EXCEPT !.fn = [c.fn EXCEPT !.width = 4]] ELSE c
    [] cmd = "IO_HS" ->
         IF c.kind = "COMBO" THEN [c EXCEPT !.fn = [c.fn EXCEPT !.hs = 1]] ELSE c
    [] cmd \in {"READ1", "WRITE1"} -> [c EXCEPT !.st = "one"]
    [] cmd = "MULTI" -> [c EXCEPT !.st = "many"]
    [] cmd = "DATA"  -> [c EXCEPT !.st = IF c.st = "one" THEN "tran" ELSE @]
    [] cmd = "CMD12" -> [c EXCEPT !.st = "tran"]
    [] OTHER -> c

\* The states a disturbed exchange may leave the card in: it did not see the command,
\* or its answer was lost.  A block on its way ends with the exchange either way.
Disturbed(c, cmd) ==
  CASE cmd = "READ1" -> {c}
    [] cmd = "DATA"  -> {After(c, cmd)}
    [] OTHER         -> {c, After(c, cmd)}
=============================================================================
