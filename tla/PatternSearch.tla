--------------------------- MODULE PatternSearch ---------------------------
(***************************************************************************)
(* RtlFindMemoryBlockFromModuleSection (src/loader/BaseAddressIndex.cpp): the *)
(* search for a pattern in a section of ntdll that its callers repeat with *)
(* the same context to get one occurrence after the other.                 *)
(*                                                                         *)
(* A section is the sequence of its bytes, an address a place in it, and 0 *)
(* the null pointer; a module without the section has an empty one.        *)
(***************************************************************************)
EXTENDS Integers, SequencesExt, FiniteSetsExt

\* Result and MemoryBlockSize of the SEARCH_CONTEXT.
NewSearch == [result |-> 0, size |-> 0]

IsAt(section, pattern, i) ==
  /\ i + Len(pattern) - 1 <= Len(section)
  /\ SubSeq(section, i, i + Len(pattern) - 1) = pattern

Occurrences(section, pattern) == { i \in DOMAIN section : IsAt(section, pattern, i) }

\* Mutant: the block does not get smaller.
ResumedWithSameSize(section, ctx) ==
  IF ctx.result = 0 THEN [result |-> 1, size |-> Len(section)]
  ELSE [result |-> ctx.result + 1, size |-> ctx.size]

\* Where a call begins: behind the last occurrence's first byte, or at the start.
Resumed(section, ctx) ==
  IF ctx.result = 0 THEN [result |-> 1, size |-> Len(section)]
  ELSE [result |-> ctx.result + 1, size |-> ctx.size - 1]

\* What the call leaves in the context; a null result stands for its error.  Behind the
\* end of the section other memory of the module is read.
RtlFindMemoryBlockFromModuleSection(section, pattern, ctx) ==
  LET from == Resumed(section, ctx)
      end == from.result + from.size - Len(pattern)
      hits == { i \in from.result .. end :
                  IsAt(section, pattern, i) \/ i + Len(pattern) - 1 > Len(section) }
  IN IF Len(pattern) = 0 \/ hits = {} THEN NewSearch
     ELSE [result |-> Min(hits), size |-> from.size - (Min(hits) - from.result)]

=============================================================================
