--------------------------- MODULE MCMmpTlsFiber ---------------------------
(* Three threads: one gone, one still running and one that pushes meanwhile. *)
EXTENDS MmpTlsFiber
=============================================================================
