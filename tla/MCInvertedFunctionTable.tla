---------------------- MODULE MCInvertedFunctionTable ----------------------
(* Four bases around ntdll's, two sizes, a table of three entries.          *)
EXTENDS InvertedFunctionTable

MCBases == 1 .. 4
MCSizes == {1, 2}
MCFree == [base |-> 0, size |-> 0]
=============================================================================
