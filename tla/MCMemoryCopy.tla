---------------------------- MODULE MCMemoryCopy ----------------------------
(* A buffer of two sectors of two cells each, the last of which it shares  *)
(* with other data: files that end with a chunk, with a sector, within a   *)
(* sector, and one that is nothing but a header.                           *)
EXTENDS MemoryCopy

SomeSizes == {1, 4, 6, 7}
=============================================================================
