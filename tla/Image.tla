------------------------------- MODULE Image -------------------------------
(***************************************************************************)
(* What the row interrupts promise the driver, without timers, interrupts  *)
(* or rows: an image is painted from one version of the data.              *)
(*                                                                         *)
(* The data may change only while no row can be painted, or before the     *)
(* first row of the image has been.                                        *)
(***************************************************************************)
CONSTANT Data     \* the versions of what the display shows

VARIABLES
  data,    \* what rows are painted from: CAN_data and the two colours
  open,    \* rows may be painted
  shown    \* the versions painted in the current image

vars == <<data, open, shown>>

Init == data \in Data /\ open = FALSE /\ shown = {}

\* VSYNC: whatever was painted belongs to the image before.
Begin == shown' = {} /\ UNCHANGED <<data, open>>

Start == shown = {} /\ open' = TRUE /\ UNCHANGED <<data, shown>>
Paint == open /\ shown' = shown \cup {data} /\ UNCHANGED <<data, open>>
End   == open' = FALSE /\ UNCHANGED <<data, shown>>

Update == (~open \/ shown = {}) /\ data' \in Data /\ UNCHANGED <<open, shown>>

Next == Begin \/ Start \/ Paint \/ End \/ Update
Spec == Init /\ [][Next]_vars

\* No image shows two versions of the data: the driver never sees a dial whose
\* upper half is older than its lower half.
TearFree == \A d, e \in shown : d = e
=============================================================================
