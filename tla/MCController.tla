---------------------------- MODULE MCController ----------------------------
(* Small instances of Controller.                                          *)
EXTENDS Controller
=============================================================================
