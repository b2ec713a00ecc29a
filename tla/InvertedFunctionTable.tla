----------------------- MODULE InvertedFunctionTable -----------------------
(***************************************************************************)
(* ntdll's LdrpInvertedFunctionTable as the loader edits it                *)
(* (src/loader/InvertedFunctionTable.cpp): an array sorted by image base   *)
(* that RtlLookupFunctionTable searches by bisection, shared with ntdll,   *)
(* of fixed capacity, and write-protected between two edits on Windows 8.1 *)
(* and later.  One action is one whole call of RtlInsertInvertedFunction-  *)
(* Table or RtlRemoveInvertedFunctionTable: the code takes no lock, so the *)
(* callers and ntdll are assumed to be serialised by the host.             *)
(***************************************************************************)
EXTENDS Integers, FiniteSets

CONSTANTS
  Bases,            \* image base addresses
  Sizes,            \* SizeOfImage values
  NtdllBase,        \* the base of ntdll.dll
  NtdllSize,
  MaxCount,         \* RTL_INVERTED_FUNCTION_TABLE.MaxCount
  Free,             \* the zeroes of an array slot that was never written
  ProtectFailures   \* which NtProtectVirtualMemory calls may fail: "rw", "ro"

Entry == [base : Bases, size : Sizes]
Ntdll == [base |-> NtdllBase, size |-> NtdllSize]

ASSUME BasesAssumption    == Bases \subseteq Nat /\ Sizes \subseteq Nat
ASSUME NtdllAssumption    == NtdllBase \in Bases /\ NtdllSize \in Sizes
ASSUME CapacityAssumption == MaxCount \in Nat \ {0}
ASSUME FreeAssumption     == Free \notin Entry
ASSUME FailureAssumption  == ProtectFailures \subseteq {"rw", "ro"}

VARIABLES
  os,        \* which build runs on which Windows; chosen once
  Entries,   \* the array, with one slot of memory behind its end
  Count,
  Overflow,
  images,    \* images loaded from memory whose InsertInvertedFunctionTableEntry is set
  ldrImages, \* images of ntdll's own loader
  stranded,  \* history: images whose entry went in although the call reported failure
  failfast   \* __fastfail was executed: the process is gone

vars == <<os, Entries, Count, Overflow, images, ldrImages, stranded, failfast>>

Slots == 0 .. MaxCount

\* found: LdrpInvertedFunctionTable is not null; x64: _WIN64; win8: version
\* 6.2 or later; protect: version 6.3 or later.
Platform == { o \in [found : BOOLEAN, x64 : BOOLEAN, win8 : BOOLEAN, protect : BOOLEAN] :
                o.protect => o.win8 }

-----------------------------------------------------------------------------
(* The array operations.                                                   *)

\* Mutant: the scan starts at 0 on every version.
FirstIndexAlwaysZero == 0

\* On Windows 8 and later entry 0 is ntdll's own and is never moved.
FirstIndex == IF os.win8 THEN 1 ELSE 0

\* Mutant: the comparison is the wrong way round.
IsInsertIndexDescending(i, b) ==
  /\ i \in FirstIndex .. Count
  /\ i < Count => b > Entries[i].base
  /\ \A j \in FirstIndex .. (i - 1) : Entries[j].base >= b

\* Where the scan of RtlpInsertInvertedFunctionTable stops.
IsInsertIndex(i, b) ==
  /\ i \in FirstIndex .. Count
  /\ i < Count => b < Entries[i].base
  /\ \A j \in FirstIndex .. (i - 1) : Entries[j].base <= b

\* Mutant: the new entry is written without moving the tail up.
InsertedWithoutMove(i, e) == [Entries EXCEPT ![i] = e]

\* RtlMoveMemory of the tail one slot up, then the new entry at i.
InsertedAt(i, e) ==
  [j \in Slots |-> IF j < i \/ j > Count THEN Entries[j]
                   ELSE IF j = i THEN e ELSE Entries[j - 1]]

\* Mutant: capacity is compared off by one.
InsertWithoutCapacityTest(e) ==
  IF Count <= MaxCount
  THEN /\ \E i \in Slots : IsInsertIndex(i, e.base) /\ Entries' = InsertedAt(i, e)
       /\ Count' = Count + 1
       /\ UNCHANGED Overflow
  ELSE /\ Overflow' = TRUE
       /\ UNCHANGED <<Entries, Count>>

RtlpInsertInvertedFunctionTable(e) ==
  IF Count # MaxCount
  THEN /\ \E i \in Slots : IsInsertIndex(i, e.base) /\ Entries' = InsertedAt(i, e)
       /\ Count' = Count + 1
       /\ UNCHANGED Overflow
  ELSE /\ Overflow' = TRUE
       /\ UNCHANGED <<Entries, Count>>

\* Mutant: the first entry not below the base, as a bisection would find it.
IsNearestIndex(i, b) ==
  /\ i \in 0 .. (Count - 1)
  /\ Entries[i].base >= b
  /\ \A j \in 0 .. (i - 1) : Entries[j].base < b

\* The first entry with this base: the scan starts at 0 on every version.
IsRemoveIndex(i, b) ==
  /\ i \in 0 .. (Count - 1)
  /\ Entries[i].base = b
  /\ \A j \in 0 .. (i - 1) : Entries[j].base # b

\* Mutant: the tail that moves down is one entry short.
MovedOneShort(i) == Count - i - 2

\* The 32-bit build moves one entry more than the array holds.
MovedBy(i) == IF os.x64 THEN Count - i - 1 ELSE Count - i

RemovedAt(i) ==
  [j \in Slots |-> IF Count # 1 /\ j \in i .. (i + MovedBy(i) - 1)
                   THEN Entries[j + 1] ELSE Entries[j]]

\* Mutant: Overflow is not reset.
RemoveKeepingOverflow(b) ==
  /\ IF \E i \in Slots : IsRemoveIndex(i, b)
     THEN /\ \E i \in Slots : IsRemoveIndex(i, b) /\ Entries' = RemovedAt(i)
          /\ Count' = Count - 1
     ELSE UNCHANGED <<Entries, Count>>
  /\ UNCHANGED Overflow

RtlpRemoveInvertedFunctionTable(b) ==
  /\ IF \E i \in Slots : IsRemoveIndex(i, b)
     THEN /\ \E i \in Slots : IsRemoveIndex(i, b) /\ Entries' = RemovedAt(i)
          /\ Count' = Count - 1
     ELSE UNCHANGED <<Entries, Count>>
  /\ Overflow' = IF Count' # MaxCount THEN FALSE ELSE Overflow

-----------------------------------------------------------------------------
(* The calls, with what their caller in Loader.cpp does with the status.   *)

Occupied == { e.base : e \in images \cup ldrImages }

MayFail(call) == os.protect /\ call \in ProtectFailures

\* Null table, or the table stays read-only: nothing is written and the load
\* is undone without a removal, InsertInvertedFunctionTableEntry being unset.
InsertRefused(e) ==
  /\ e.base \notin Occupied
  /\ ~os.found \/ MayFail("rw")
  /\ UNCHANGED vars

\* RtlInsertInvertedFunctionTable runs to its end: STATUS_SUCCESS sets the
\* flag; STATUS_NO_MEMORY undoes the load.
InsertCompleted(e) ==
  /\ os.found /\ e.base \notin Occupied
  /\ RtlpInsertInvertedFunctionTable(e)
  /\ images' = IF Overflow' THEN images ELSE images \cup {e}
  /\ UNCHANGED <<os, ldrImages, stranded, failfast>>

\* The entry is in, the second RtlProtectMrdata fails: the status makes the
\* caller undo the load, and nothing takes the entry out again.
InsertNotReprotected(e) ==
  /\ os.found /\ e.base \notin Occupied
  /\ MayFail("ro")
  /\ RtlpInsertInvertedFunctionTable(e)
  /\ stranded' = IF Overflow' THEN stranded ELSE stranded \cup {e}
  /\ UNCHANGED <<os, images, ldrImages, failfast>>

RtlInsertInvertedFunctionTable(e) ==
  InsertRefused(e) \/ InsertCompleted(e) \/ InsertNotReprotected(e)

\* LdrUnloadDllMemory of an image whose flag is set; it turns every failure
\* of the removal into __fastfail.
RemoveCompleted(e) ==
  /\ e \in images
  /\ RtlpRemoveInvertedFunctionTable(e.base)
  /\ images' = images \ {e}
  /\ UNCHANGED <<os, ldrImages, stranded, failfast>>

RemoveRefused(e) ==
  /\ e \in images /\ MayFail("rw")
  /\ failfast' = TRUE
  /\ UNCHANGED <<os, Entries, Count, Overflow, images, ldrImages, stranded>>

RemoveNotReprotected(e) ==
  /\ e \in images /\ MayFail("ro")
  /\ RtlpRemoveInvertedFunctionTable(e.base)
  /\ failfast' = TRUE
  /\ UNCHANGED <<os, images, ldrImages, stranded>>

RtlRemoveInvertedFunctionTable(e) ==
  RemoveCompleted(e) \/ RemoveRefused(e) \/ RemoveNotReprotected(e)

\* ntdll loads and unloads its own images with routines of the same shape;
\* an image that does not fit stays loaded and is found through Overflow.
LdrInsert(e) ==
  /\ e.base \notin Occupied
  /\ RtlpInsertInvertedFunctionTable(e)
  /\ ldrImages' = ldrImages \cup {e}
  /\ UNCHANGED <<os, images, stranded, failfast>>

LdrRemove(e) ==
  /\ e \in ldrImages \ {Ntdll}
  /\ RtlpRemoveInvertedFunctionTable(e.base)
  /\ ldrImages' = ldrImages \ {e}
  /\ UNCHANGED <<os, images, stranded, failfast>>

-----------------------------------------------------------------------------
Init ==
  /\ os \in Platform
  /\ Entries = [j \in Slots |-> IF j = 0 THEN Ntdll ELSE Free]
  /\ Count = 1
  /\ Overflow = FALSE
  /\ images = {}
  /\ ldrImages = {Ntdll}
  /\ stranded = {}
  /\ failfast = FALSE

Next ==
  /\ ~failfast
  /\ \E e \in Entry : \/ RtlInsertInvertedFunctionTable(e)
                      \/ RtlRemoveInvertedFunctionTable(e)
                      \/ LdrInsert(e)
                      \/ LdrRemove(e)

Spec == Init /\ [][Next]_vars

-----------------------------------------------------------------------------
TypeOK ==
  /\ os \in Platform
  /\ Entries \in [Slots -> Entry \cup {Free}]
  /\ Count \in 1 .. MaxCount
  /\ \A j \in 0 .. (Count - 1) : Entries[j] \in Entry
  /\ Overflow \in BOOLEAN
  /\ images \subseteq Entry
  /\ ldrImages \subseteq Entry
  /\ stranded \subseteq Entry
  /\ failfast \in BOOLEAN

InTable == { Entries[j] : j \in 0 .. (Count - 1) }

\* The bisection of RtlLookupFunctionTable needs the movable part of the table
\* in ascending order after any mix of insertions and removals
\* (the scans at InvertedFunctionTable.cpp:18-21 and 51-57, the moves at 24 and 112).
TableSorted ==
  \A i, j \in FirstIndex .. (Count - 1) : i < j => Entries[i].base <= Entries[j].base

\* ntdll's entry stays where Windows 8 and later look for it, whatever is
\* inserted below its base (the start index at InvertedFunctionTable.cpp:14 and 44).
NtdllStaysFirst == os.win8 => Entries[0] = Ntdll

\* STATUS_NO_MEMORY is never a stale verdict: Overflow is set only while the
\* table is full, so a later insertion that fits cannot be refused and left in
\* (InvertedFunctionTable.cpp:38, 132-139 and 182).
OverflowOnlyWhenFull == Overflow => Count = MaxCount

\* Every image that the loader believes registered can be found in the table
\* (the flag at Loader.cpp:177 against the entry written at InvertedFunctionTable.cpp:31-35).
FlaggedAreRegistered == ~failfast => images \subseteq InTable

\* The table never describes memory that is no longer an image, but for the
\* entries left by insertions that failed after the fact: when write protection
\* can always be restored there are none (Loader.cpp:175, 267 and 280).
NoStaleEntry ==
  ~failfast => { e.base : e \in InTable } \subseteq Occupied \cup { e.base : e \in stranded }

\* Loading or unloading one image, successfully or not, neither adds nor drops
\* the entry of an image that stays loaded
\* (the tail moves at InvertedFunctionTable.cpp:24, 60, 112 and 117).
OthersUntouched ==
  [][\A e \in (images \cap images') \cup (ldrImages \cap ldrImages') :
       ~failfast' => (e \in InTable <=> e \in InTable')]_vars
=============================================================================
