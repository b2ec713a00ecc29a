----------------------------- MODULE GlobalData -----------------------------
(***************************************************************************)
(* The start of the library (src/loader/Initialize.cpp).  The copies of it *)
(* in one process share one block of memory: the first creates a section   *)
(* under a name made from the process, maps it for good and writes the     *)
(* block's address into it; the later ones open the section, read that     *)
(* address and use the first one's mapping.  The first copy also searches  *)
(* ntdll for the tree of bases and for the table of exception handlers.    *)
(* All of it happens under the PEB lock.                                   *)
(*                                                                         *)
(* section is the section of ntdll that is searched; tree and table are the *)
(* places of ntdll's own tree and table in it, which no copy knows.  Each  *)
(* member of the table's header is one place of the section, and the table *)
(* is where its first movable entry is (the 64-bit layout).                *)
(***************************************************************************)
EXTENDS PatternSearch

CONSTANTS
  Copies,
  Version,     \* of each copy: major, minor, preview
  Addresses,   \* where a section can be mapped
  None,        \* a null pointer, and no owner of the lock
  Systems,     \* versions of Windows: major, minor and build, as one number each
  Sections,    \* what the searched section can hold
  Root,        \* the bytes of the pointer to the tree's root
  Entry,       \* the bytes of the first movable entry of the table
  Capacity,    \* the value of MaxCount, 0x200
  Faults       \* "create", "map", "open", "view": the system calls that may fail

Byte == 0 .. 255

ASSUME PatternAssumption == {Root, Entry} \subseteq Seq(Byte) \ {<<>>}
ASSUME SectionsAssumption == Sections \subseteq Seq(Byte)
ASSUME CapacityAssumption == Capacity \in Byte \ {0}
ASSUME NoneAssumption == None \notin Copies \cup Addresses

VARIABLES
  os, section, tree, table, red,  \* Windows; red: the root is being changed
  lock,       \* owner of the PEB lock
  pc, status, \* of each copy's Initialize
  ptr,        \* MmpGlobalDataPtr of each copy
  index,      \* LdrpModuleBaseAddressIndex of each copy, a static of BaseAddressIndex.cpp
  named,      \* the name denotes a section
  mapped,     \* where views of it are that stay
  content,    \* what the section holds
  search, seen  \* SEARCH_CONTEXT, and the occurrence met before

ntdllVars == <<os, section, tree, table, red>>
searchVars == <<index, search, seen>>
vars == <<ntdllVars, lock, pc, status, ptr, named, mapped, content, searchVars>>

Zero == [BaseAddress |-> None, version |-> [major |-> 0, minor |-> 0, preview |-> FALSE],
         os |-> "invalid", table |-> 0, ready |-> FALSE]

-----------------------------------------------------------------------------
(* Versions.                                                               *)

V(major, minor, build) == major * 1000000 + minor * 100000 + build

\* InitializeWindowsVersion.
WindowsVersion(v) ==
  CASE v \in {V(5, 1, 2600), V(5, 2, 3790)} -> "xp"
    [] v \in {V(6, 0, 6000), V(6, 0, 6001), V(6, 0, 6002)} -> "vista"
    [] v \in {V(6, 1, 7600), V(6, 1, 7601)} -> "win7"
    [] v = V(6, 2, 9200) -> "win8"
    [] v = V(6, 3, 9600) -> "winBlue"
    [] v \in V(10, 0, 10240) .. V(10, 0, 14392) -> "win10"
    [] v \in V(10, 0, 14393) .. V(10, 0, 15062) -> "win10_1"
    [] v \in V(10, 0, 15063) .. V(10, 0, 21999) -> "win10_2"
    [] v \in V(10, 0, 22000) .. V(10, 0, 99999) -> "win11"
    [] OTHER -> "invalid"

RtlIsWindowsVersionOrGreater(major, minor, build) == os >= V(major, minor, build)

\* Whether the copy c can work on a block of version b.
Compatible(c, b) ==
  /\ b.major = Version[c].major
  /\ b.preview = Version[c].preview
  /\ IF b.preview THEN b.minor = Version[c].minor ELSE b.minor >= Version[c].minor

-----------------------------------------------------------------------------
(* MmpAllocateGlobalData.                                                  *)

Wild == \E c \in Copies : status[c] = "wild"

\* Initialize, on a copy that is loaded for the first time or again after it failed.
RtlAcquirePebLock(c) ==
  /\ ~Wild
  /\ lock = None /\ pc[c] = "idle" /\ status[c] # "success"
  /\ lock' = c
  /\ pc' = [pc EXCEPT ![c] = "allocate"]
  /\ UNCHANGED <<ntdllVars, status, ptr, named, mapped, content, searchVars>>

Returns(c, s) ==
  /\ status' = [status EXCEPT ![c] = s]
  /\ pc' = [pc EXCEPT ![c] = "idle"]
  /\ lock' = IF s = "wild" THEN lock ELSE None

Goes(c, place) == pc' = [pc EXCEPT ![c] = place] /\ UNCHANGED <<lock, status>>

CreatesSection(c) ==
  /\ pc[c] = "allocate" /\ ~named
  /\ \E a \in Addresses \ mapped :
       /\ ptr' = [ptr EXCEPT ![c] = a]
       /\ mapped' = mapped \cup {a}
  /\ named' = TRUE
  /\ content' = Zero
  /\ Goes(c, "write")
  /\ UNCHANGED <<ntdllVars, searchVars>>

\* Mutant: a section that cannot be mapped is not closed.
CreationFailsOpen(c) ==
  /\ pc[c] = "allocate" /\ ~named
  /\ Faults \cap {"create", "map"} # {}
  /\ named' = ("map" \in Faults)
  /\ Returns(c, "failed")
  /\ UNCHANGED <<ntdllVars, ptr, mapped, content, searchVars>>

\* NtCreateSection fails, or NtMapViewOfSection does and the section is closed.
CreationFails(c) ==
  /\ pc[c] = "allocate" /\ ~named
  /\ Faults \cap {"create", "map"} # {}
  /\ Returns(c, "failed")
  /\ UNCHANGED <<ntdllVars, ptr, named, mapped, content, searchVars>>

\* Mutant: the view is used where it is, and stays.
OpensSectionHere(c) ==
  /\ pc[c] = "allocate" /\ named
  /\ \E a \in Addresses \ mapped :
       ptr' = [ptr EXCEPT ![c] = a] /\ mapped' = mapped \cup {a}
  /\ Goes(c, "check")
  /\ UNCHANGED <<ntdllVars, named, content, searchVars>>

\* A view of it is mapped, read and unmapped.
OpensSection(c) ==
  /\ pc[c] = "allocate" /\ named
  /\ ptr' = [ptr EXCEPT ![c] = content.BaseAddress]
  /\ Goes(c, "check")
  /\ UNCHANGED <<ntdllVars, named, mapped, content, searchVars>>

OpeningFails(c) ==
  /\ pc[c] = "allocate" /\ named
  /\ Faults \cap {"open", "view"} # {}
  /\ Returns(c, "failed")
  /\ UNCHANGED <<ntdllVars, ptr, named, mapped, content, searchVars>>

-----------------------------------------------------------------------------
(* InitializeLockHeld.                                                     *)

\* Reads the versions in the block; where none is mapped, anything may happen.
ChecksVersion(c) ==
  /\ pc[c] = "check"
  /\ Returns(c, IF ptr[c] \notin mapped THEN "wild"
                ELSE IF Compatible(c, content.version) THEN "success" ELSE "not_supported")
  /\ UNCHANGED <<ntdllVars, ptr, named, mapped, content, searchVars>>

\* On a Windows it does not know, the creator unmaps the block and keeps the section.
WritesBlock(c) ==
  LET v == WindowsVersion(os) IN
  /\ pc[c] = "write"
  /\ content' = [content EXCEPT !.BaseAddress = ptr[c], !.version = Version[c], !.os = v]
  /\ IF v = "invalid"
     THEN Returns(c, "not_supported") /\ mapped' = mapped \ {ptr[c]}
     ELSE Goes(c, "index") /\ UNCHANGED mapped
  /\ search' = NewSearch /\ seen' = 0
  /\ UNCHANGED <<ntdllVars, ptr, index, named>>

SearchesIndex == RtlIsWindowsVersionOrGreater(6, 2, 0) /\ ~red

\* Min of the tree at i, the pointer behind Root.
HasMin(i) ==
  \E j \in DOMAIN section :
    j \in i + Len(Root) .. i + 2 * Len(Root) - 1 /\ section[j] # 0

\* The search is for the copy itself: what is found stays in its static.  (Line 446 still
\* assigns the result, which the function no longer has, to the block.)
EndsIndexSearch(c, i) ==
  /\ index' = [index EXCEPT ![c] = i]
  /\ search' = NewSearch /\ seen' = 0
  /\ Goes(c, "table")
  /\ UNCHANGED <<ntdllVars, ptr, named, mapped, content>>

\* FindLdrpModuleBaseAddressIndex, one search of its loop: the only pointer to the
\* root is taken for the tree.
FindLdrpModuleBaseAddressIndex(c) ==
  LET ctx == RtlFindMemoryBlockFromModuleSection(section, Root, search) IN
  /\ pc[c] = "index"
  /\ IF SearchesIndex /\ ctx.result # 0 /\ seen = 0
     THEN /\ search' = ctx /\ seen' = ctx.result
          /\ UNCHANGED <<ntdllVars, lock, pc, status, ptr, index, named, mapped, content>>
     ELSE EndsIndexSearch(c, IF ctx.result = 0 /\ seen # 0 /\ HasMin(seen) THEN seen ELSE 0)

\* MaxCount, Epoch and Overflow are the three members before the first movable entry at i.
\* What is in front of a section are the zeros that fill up the section before it.
HasHeader(i) == i > 3 /\ section[i - 3] = Capacity

\* The two tests of a hit: Overflow since Windows 8, or Epoch.
LooksLikeTable(i) ==
  /\ HasHeader(i)
  /\ \/ section[i - 2] = 0
     \/ RtlIsWindowsVersionOrGreater(6, 2, 0) /\ section[i - 1] = 0

\* Mutant: Overflow and Epoch are not looked at.
TestsMaxCountOnly(c) ==
  LET ctx == RtlFindMemoryBlockFromModuleSection(section, Entry, search) IN
  /\ pc[c] = "table"
  /\ IF ctx.result # 0 /\ ~HasHeader(ctx.result)
     THEN /\ search' = ctx
          /\ UNCHANGED <<lock, pc, status, content>>
     ELSE /\ content' = [content EXCEPT !.table = ctx.result, !.ready = TRUE]
          /\ search' = NewSearch
          /\ Returns(c, "success")
  /\ UNCHANGED <<ntdllVars, ptr, named, mapped, index, seen>>

\* FindLdrpInvertedFunctionTable, one search of its loop: the first hit that passes.  Of
\* what follows nothing can fail.
FindLdrpInvertedFunctionTable(c) ==
  LET ctx == RtlFindMemoryBlockFromModuleSection(section, Entry, search) IN
  /\ pc[c] = "table"
  /\ IF ctx.result # 0 /\ ~LooksLikeTable(ctx.result)
     THEN /\ search' = ctx
          /\ UNCHANGED <<lock, pc, status, content>>
     ELSE /\ content' = [content EXCEPT !.table = ctx.result, !.ready = TRUE]
          /\ search' = NewSearch
          /\ Returns(c, "success")
  /\ UNCHANGED <<ntdllVars, ptr, named, mapped, index, seen>>

Init ==
  /\ os \in Systems /\ section \in Sections /\ red \in BOOLEAN
  /\ IF RtlIsWindowsVersionOrGreater(6, 2, 0)
     THEN tree \in Occurrences(section, Root)
     ELSE tree = 0
  /\ table \in { i \in Occurrences(section, Entry) : HasHeader(i) } \cup {0}
  /\ lock = None
  /\ pc = [c \in Copies |-> "idle"] /\ status = [c \in Copies |-> "none"]
  /\ ptr = [c \in Copies |-> None] /\ index = [c \in Copies |-> 0]
  /\ named = FALSE /\ mapped = {} /\ content = Zero
  /\ search = NewSearch /\ seen = 0

Next ==
  \E c \in Copies :
    \/ RtlAcquirePebLock(c)
    \/ CreatesSection(c) \/ CreationFails(c) \/ OpensSection(c) \/ OpeningFails(c)
    \/ ChecksVersion(c) \/ WritesBlock(c)
    \/ FindLdrpModuleBaseAddressIndex(c) \/ FindLdrpInvertedFunctionTable(c)

Spec == Init /\ [][Next]_vars

-----------------------------------------------------------------------------
(* Properties.                                                             *)

\* Every copy whose Initialize succeeded has the same block, which is mapped and which
\* its creator has filled (MmpAllocateGlobalData, InitializeLockHeld).
OneBlock ==
  \A c \in Copies :
    status[c] = "success" =>
      ptr[c] = content.BaseAddress /\ ptr[c] \in mapped /\ content.ready

\* A name that outlives its block leads the next copy to memory that is not there.  It
\* does so only on a Windows that the code does not know, whatever fails and however
\* often copies are loaded again (Initialize.cpp, lines 350-362 and 430-434).
BlockBehindTheName ==
  /\ Wild => WindowsVersion(os) = "invalid"
  /\ named /\ lock = None /\ WindowsVersion(os) # "invalid" => content.BaseAddress \in mapped

\* A search that is resumed stays inside its section: what is left of the block always
\* ends with the section and holds the pattern (BaseAddressIndex.cpp, lines 34-38, 87-101).
SearchStaysInside ==
  search.result # 0 =>
    /\ search.result + search.size = Len(section) + 1
    /\ search.result \in Occurrences(section, Root) \cup Occurrences(section, Entry)

\* The only place that looks like the pointer to the tree's root, or none.
TheIndex ==
  IF SearchesIndex /\ Occurrences(section, Root) = {tree} /\ HasMin(tree) THEN tree ELSE 0

\* Places that pass for the table and are not.
Decoys == { i \in Occurrences(section, Entry) : i # table /\ LooksLikeTable(i) }

\* ntdll's own table if it passes too and no decoy stands in front of it; otherwise a
\* decoy, or nothing if there is none.
IsTheTable(t) ==
  IF table # 0 /\ LooksLikeTable(table) /\ \A i \in Decoys : table < i
  THEN t = table
  ELSE t \in Decoys \cup {0} /\ (t = 0 <=> Decoys = {})

\* The copy that searches finds ntdll's tree exactly when no other bytes look like the
\* pointer to its root.  It finds ntdll's table exactly when the header of the table
\* passes, which that of a table that has overflowed may not, and no decoy stands in
\* front of it (Initialize.cpp, lines 130-136; BaseAddressIndex.cpp, lines 135-145).
FindsNtdlls ==
  /\ \A c \in Copies : index[c] \in {0, TheIndex}
  /\ content.ready => (\E c \in Copies : index[c] = TheIndex) /\ IsTheTable(content.table)

=============================================================================
