--------------------------- MODULE MCMcanHandler ---------------------------
(* FIFO 0 of one element, as configured; FIFO 1 of two instead of sixteen. *)
EXTENDS McanHandler

ConfiguredAndTwo == <<1, 2>>
=============================================================================
