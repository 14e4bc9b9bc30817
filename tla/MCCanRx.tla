------------------------------ MODULE MCCanRx ------------------------------
(* Small instances of CanRx.                                               *)
EXTENDS CanRx, TLC

F(id, dlc, rpm, ect, tps, gear) ==
  [id |-> id, dlc |-> dlc,
   data |-> (0 :> rpm @@ 1 :> ect @@ 2 :> 0 @@ 3 :> tps @@ 4 :> gear
             @@ 5 :> 0 @@ 6 :> 0 @@ 7 :> 0)]

\* Two full frames that differ in both data words and sit on either side of the
\* colour thresholds, one that carries only its first data word, and one of
\* another node.
MCFrames == {F(DashId, 8, 255, 89, 255, 1), F(DashId, 8, 10, 100, 7, 0),
             F(DashId, 4, 200, 99, 1, 1), F(999, 8, 1, 90, 1, 1)}
=============================================================================
