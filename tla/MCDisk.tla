------------------------------- MODULE MCDisk -------------------------------
(* Small cards: the high capacity ones have three sectors, the others two. *)
EXTENDS Disk

SmallCards == [k \in Kinds |-> IF k = "SDIO" THEN 0 ELSE IF k \in HighCap THEN 3 ELSE 2]
SmallRequests == {[op |-> "read", first |-> 1, count |-> 2],
                  [op |-> "write", first |-> 0, count |-> 2]}
=============================================================================
