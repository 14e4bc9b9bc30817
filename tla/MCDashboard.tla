---------------------------- MODULE MCDashboard ----------------------------
(* Small instances of Dashboard.                                           *)
EXTENDS Dashboard, TLC

F(rpm, gear) ==
  [id |-> 1000, dlc |-> 8,
   data |-> (0 :> rpm @@ 1 :> 0 @@ 2 :> 0 @@ 3 :> 0 @@ 4 :> gear
             @@ 5 :> 0 @@ 6 :> 0 @@ 7 :> 0)]

\* Two frames that differ in both data words.
MCFrames == {F(255, 1), F(10, 0)}
=============================================================================
