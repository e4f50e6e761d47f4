---------------------------- MODULE MC_Progress -----------------------------
(* A small instance of Progress for TLC: two managed plugins and one local  *)
(* directory.  The frame of both managed plugins just fits the terminal; a  *)
(* row more makes it too tall.                                              *)
EXTENDS Progress
=============================================================================
