------------------------------ MODULE MCPixels ------------------------------
(* Instances of Pixels: the rows on either side of each boundary, and bars *)
(* at both ends and at each change of colour.                              *)
EXTENDS Pixels

MCRows == {0, 149, 150, 179, 180, 271}

D(rpm, tps, temp, gear) == [rpm |-> rpm, tps |-> tps, temp |-> temp, gear |-> gear]
MCData == {D(0, 470, Green, Red), D(217, 0, Amber, Blue), D(218, 1198, Red, Blue),
           D(326, 471, Green, Blue), D(471, 4, Black, Black)}
=============================================================================
