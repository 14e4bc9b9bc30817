---------------------------- MODULE BlockDevice ----------------------------
(***************************************************************************)
(* What disk_read and disk_write of diskio.c promise FatFs, whatever       *)
(* happens to the card: a request that succeeds has moved every one of its *)
(* sectors, in order, from or to one and the same medium, one that fails   *)
(* has moved some of them, and no other sector is ever changed.            *)
(***************************************************************************)
EXTENDS Naturals, Sequences

CONSTANTS Media,      \* the contents a medium may have: functions from sectors
          NoMedium,
          New(_)      \* what a write puts into a sector

VARIABLES medium,     \* the contents of the medium in the slot, or NoMedium
          req,        \* the request: op, first sector, count, sectors done;
                      \* lost: has the medium been changed since it began?
          buff,       \* the sectors read so far
          res         \* the result of the last request

bdVars == <<medium, req, buff, res>>

Nothing == [op |-> "none", first |-> 0, count |-> 0, done |-> 0, lost |-> FALSE]

BdInit == medium = NoMedium /\ req = Nothing /\ buff = <<>> /\ res = "OK"

Change ==
  /\ medium' \in Media \cup {NoMedium}
  /\ req' = [req EXCEPT !.lost = (req.op # "none")]
  /\ UNCHANGED <<buff, res>>

Begin ==
  /\ req.op = "none"
  /\ req' \in [op: {"read", "write"}, first: Nat, count: Nat \ {0}, done: {0}, lost: {FALSE}]
  /\ buff' = <<>>
  /\ UNCHANGED <<medium, res>>

Next1 == req.first + req.done
Movable == req.done < req.count /\ ~req.lost /\ medium # NoMedium /\ Next1 \in DOMAIN medium

ReadSector ==
  /\ req.op = "read" /\ Movable
  /\ buff' = Append(buff, medium[Next1])
  /\ req' = [req EXCEPT !.done = @ + 1]
  /\ UNCHANGED <<medium, res>>

\* A sector may be written without being counted: the request then fails.
WriteSector ==
  /\ req.op = "write" /\ Movable
  /\ medium' = [medium EXCEPT ![Next1] = New(Next1)]
  /\ \E d \in {0, 1} : req' = [req EXCEPT !.done = @ + d]
  /\ UNCHANGED <<buff, res>>

Finish ==
  /\ req.op # "none"
  /\ \/ res' = "OK" /\ req.done = req.count
     \/ res' \in {"ERROR", "PARERR"}
  /\ req' = Nothing
  /\ UNCHANGED <<medium, buff>>

BdNext == Change \/ Begin \/ ReadSector \/ WriteSector \/ Finish
BdSpec == BdInit /\ [][BdNext]_bdVars
=============================================================================
