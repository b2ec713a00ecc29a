----------------------------- MODULE MCLdrLoader -----------------------------
(***************************************************************************)
(* Values for the runs of LdrLoader.                                       *)
(***************************************************************************)
EXTENDS LdrLoader, TLC

\* Calls of every kind that Loader.h documents; every flag occurs.
MCFlagSets == { {}, {"NOT_MAP_DLL"}, {"NOT_USE_REFERENCE_COUNT", "NOT_ADD_INVERTED_FUNCTION"},
                {"NOT_FAIL_IF_HANDLE_TLS", "USE_DLL_NAME"}, {"NOT_HANDLE_TLS", "PASS_IMAGE_CHECK"},
                {"NOT_MAP_DLL", "PASS_IMAGE_CHECK"} }
MCFewFlagSets == { {}, {"NOT_MAP_DLL"}, {"NOT_USE_REFERENCE_COUNT", "NOT_HANDLE_TLS"} }

MCSymmetry == Permutations(Bases) \cup Permutations(Images) \cup Permutations(Callers)
=============================================================================
