------------------------------ MODULE LdrLoader ------------------------------
(***************************************************************************)
(* The life of a module loaded from memory (src/loader/Loader.cpp):        *)
(* LdrLoadDllMemoryExW finds a loaded module by name or maps, registers    *)
(* and initialises a new one, and undoes what it did when a step fails;    *)
(* LdrUnloadDllMemory drops a reference or takes everything down.  Neither *)
(* takes a lock, so each call is a sequence of steps; Overlap says which   *)
(* calls the host lets overlap (a DllMain that calls the loader overlaps   *)
(* its own load, too).  Callers unload only handles that they own.         *)
(*                                                                         *)
(* What the other components hold about a module is membership in a set:   *)
(* the LDR lists, the base-address index, the inverted function table and  *)
(* the TLS list.  A base stands for one loaded image and is not used twice.*)
(***************************************************************************)
EXTENDS Naturals, FiniteSets

CONSTANTS
  Callers,     \* threads that load and unload
  Images,      \* DLL files, told apart by name and headers: another file of the same name
               \* that has other headers is another image
  Bases,       \* module instances
  FlagSets,    \* the values of dwFlags that callers pass
  Fails,       \* the steps that may fail
  LeftBehind,  \* the registers in which a failing step may leave its entry
  Overlap,     \* the kinds of calls that may overlap calls of these kinds
  MaxHandles,  \* bound: no load of an image starts that has a module with so many handles
  None

Flags == {"NOT_MAP_DLL", "NOT_FAIL_IF_HANDLE_TLS", "PASS_IMAGE_CHECK",
          "NOT_ADD_INVERTED_FUNCTION", "NOT_USE_REFERENCE_COUNT", "USE_DLL_NAME",
          "NOT_HANDLE_TLS"}
Steps == {"reserve", "sections", "map", "import", "protect", "insert", "tls", "init", "count",
          "remove"}
Registers == {"list", "index", "inverted", "tls"}

ASSUME FlagsAssumption  == FlagSets \subseteq SUBSET Flags
ASSUME FailsAssumption  == Fails \subseteq Steps /\ LeftBehind \subseteq Registers
ASSUME OverlapAssumption == Overlap \subseteq {"load", "unload"}
ASSUME BoundAssumption  == MaxHandles \in Nat
ASSUME NoneAssumption   == None \notin Images \cup Bases

VARIABLES
  pc, call,   \* where each caller is, and the locals of its call
  mod,        \* MEMORYMODULE of each base
  reg,        \* which modules each register lists
  orphans,    \* history: <<register, base>> left behind by a step that failed
  handles,    \* how many handles to each module callers own
  crashed     \* __fastfail was executed

vars == <<pc, call, mod, reg, orphans, handles, crashed>>

LoadPc   == {"lookup", "reference", "reserve", "map", "import", "protect", "insert", "tls", "init"}
UnloadPc == {"unload", "dereference", "remove", "untls", "unlink", "free"}

NoCall == [kind |-> "none", image |-> None, flags |-> {}, named |-> FALSE, valid |-> TRUE,
           base |-> None]
NoModule == [image |-> None, mem |-> "none", named |-> FALSE, mapped |-> FALSE,
             counted |-> FALSE, refs |-> 1, inverted |-> FALSE, tls |-> FALSE,
             initialized |-> FALSE, underUnload |-> FALSE]

Base(c) == call[c].base
Has(c, flag) == flag \in call[c].flags
Quiet == \A c \in Callers : pc[c] = "idle"
MayStart(kind) == \A d \in Callers : \/ pc[d] = "idle"
                                     \/ kind \in Overlap /\ call[d].kind \in Overlap
Proceeds == ~crashed

Goes(c, where) == pc' = [pc EXCEPT ![c] = where]
Returns(c) == Goes(c, "idle") /\ call' = [call EXCEPT ![c] = NoCall]
Registered(k, b)   == [reg EXCEPT ![k] = @ \cup {b}]
Unregistered(k, b) == [reg EXCEPT ![k] = @ \ {b}]

-----------------------------------------------------------------------------
(* LdrLoadDllMemoryExW.                                                    *)

\* The checks of the parameters; a call that they refuse changes nothing.
\* PASS_IMAGE_CHECK is looked at before NOT_MAP_DLL clears the other flags.
LdrLoadDllMemoryExW(c) ==
  /\ Proceeds /\ pc[c] = "idle" /\ MayStart("load")
  /\ \E i \in Images, asked \in FlagSets, name \in BOOLEAN, valid \in BOOLEAN :
       LET unmapped == "NOT_MAP_DLL" \in asked
           flags == IF unmapped THEN {"NOT_MAP_DLL"} ELSE asked
           named == name /\ ~unmapped IN
       /\ \A b \in Bases : mod[b].image = i => handles[b] < MaxHandles
       /\ valid \/ "PASS_IMAGE_CHECK" \in asked
       /\ "USE_DLL_NAME" \in flags => named
       /\ Goes(c, IF named THEN "lookup" ELSE "reserve")
       /\ call' = [call EXCEPT ![c] = [kind |-> "load", image |-> i, flags |-> flags,
                                       named |-> named, valid |-> valid, base |-> None]]
  /\ UNCHANGED <<mod, reg, orphans, handles, crashed>>

\* Mutant: the lookup passes over the modules that count no references.
MatchingCounted(c) ==
  { b \in reg["list"] : mod[b].named /\ mod[b].image = call[c].image /\ mod[b].counted }

\* The modules in the load-order list that the name and the headers match; one of the
\* same name with other headers is passed over, and the image is loaded beside it.  The
\* code's test for a module being unloaded, InMemoryOrderLinks.Flink = null,
\* holds for none: no code here ever nulls that link.
Matching(c) == { b \in reg["list"] : mod[b].named /\ mod[b].image = call[c].image }

NoMatch(c) ==
  /\ Proceeds /\ pc[c] = "lookup" /\ Matching(c) = {}
  /\ Goes(c, "reserve")
  /\ UNCHANGED <<call, mod, reg, orphans, handles, crashed>>

\* STATUS_INVALID_PARAMETER_3.
ReferenceRefused(c) ==
  /\ Proceeds /\ pc[c] = "lookup"
  /\ \E b \in Matching(c) : ~mod[b].counted \/ Has(c, "NOT_USE_REFERENCE_COUNT")
  /\ Returns(c)
  /\ UNCHANGED <<mod, reg, orphans, handles, crashed>>

\* Mutant: whether the module counts references is not asked.
ModuleFoundUncounted(c) ==
  /\ Proceeds /\ pc[c] = "lookup"
  /\ \E b \in Matching(c) :
       /\ ~Has(c, "NOT_USE_REFERENCE_COUNT")
       /\ call' = [call EXCEPT ![c].base = b]
  /\ Goes(c, "reference")
  /\ UNCHANGED <<mod, reg, orphans, handles, crashed>>

ModuleFound(c) ==
  /\ Proceeds /\ pc[c] = "lookup"
  /\ \E b \in Matching(c) :
       /\ mod[b].counted /\ ~Has(c, "NOT_USE_REFERENCE_COUNT")
       /\ call' = [call EXCEPT ![c].base = b]
  /\ Goes(c, "reference")
  /\ UNCHANGED <<mod, reg, orphans, handles, crashed>>

\* Mutant: the handle is returned without a reference.
ReferenceForgotten(c) ==
  /\ Proceeds /\ pc[c] = "reference"
  /\ handles' = [handles EXCEPT ![Base(c)] = @ + 1]
  /\ Returns(c)
  /\ UNCHANGED <<mod, reg, orphans, crashed>>

\* RtlUpdateReferenceCount(FLAG_REFERENCE); what it does to a module that was freed
\* meanwhile is not defined.
RtlUpdateReferenceCount(c) ==
  /\ Proceeds /\ pc[c] = "reference" /\ mod[Base(c)].mem = "live"
  /\ mod' = [mod EXCEPT ![Base(c)].refs = @ + 1]
  /\ handles' = [handles EXCEPT ![Base(c)] = @ + 1]
  /\ Returns(c)
  /\ UNCHANGED <<reg, orphans, crashed>>

MemoryLoadLibrary(c) ==
  /\ Proceeds /\ pc[c] = "reserve"
  /\ \E b \in Bases :
       /\ mod[b].mem = "none"
       /\ mod' = [mod EXCEPT ![b] = [NoModule EXCEPT !.image = call[c].image, !.mem = "live",
                                                     !.named = call[c].named]]
       /\ call' = [call EXCEPT ![c].base = b]
  /\ Goes(c, IF Has(c, "NOT_MAP_DLL") THEN "import" ELSE "map")
  /\ UNCHANGED <<reg, orphans, handles, crashed>>

\* The image is refused, or no address range can be reserved for it.
MemoryLoadLibraryFails(c) ==
  /\ Proceeds /\ pc[c] = "reserve" /\ "reserve" \in Fails
  /\ Returns(c)
  /\ UNCHANGED <<mod, reg, orphans, handles, crashed>>

\* A section is refused, or cannot be committed: the call returns with a null handle and
\* does not release the range that it reserved.
SectionsFail(c) ==
  /\ Proceeds /\ pc[c] = "reserve" /\ "sections" \in Fails
  /\ \E b \in Bases :
       /\ mod[b].mem = "none"
       /\ mod' = [mod EXCEPT ![b] = [NoModule EXCEPT !.mem = "reserved"]]
  /\ Returns(c)
  /\ UNCHANGED <<reg, orphans, handles, crashed>>

\* Mutant: UseReferenceCount is set as soon as the module is mapped.
MappedAndCounted(c) ==
  /\ Proceeds /\ pc[c] = "map"
  /\ mod' = [mod EXCEPT ![Base(c)].mapped = TRUE,
                        ![Base(c)].counted = ~Has(c, "NOT_USE_REFERENCE_COUNT")]
  /\ reg' = [reg EXCEPT !["list"] = @ \cup {Base(c)}, !["index"] = @ \cup {Base(c)}]
  /\ Goes(c, "import")
  /\ UNCHANGED <<call, orphans, handles, crashed>>

LdrMapDllMemory(c) ==
  /\ Proceeds /\ pc[c] = "map"
  /\ mod' = [mod EXCEPT ![Base(c)].mapped = TRUE]
  /\ reg' = [reg EXCEPT !["list"] = @ \cup {Base(c)}, !["index"] = @ \cup {Base(c)}]
  /\ Goes(c, "import")
  /\ UNCHANGED <<call, orphans, handles, crashed>>

MemoryResolveImportTable(c) ==
  /\ Proceeds /\ pc[c] = "import"
  /\ Goes(c, "protect")
  /\ UNCHANGED <<call, mod, reg, orphans, handles, crashed>>

\* The protection of the sections, and UseReferenceCount right after it.
MemorySetSectionProtection(c) ==
  /\ Proceeds /\ pc[c] = "protect"
  /\ mod' = [mod EXCEPT ![Base(c)].counted =
               ~Has(c, "NOT_MAP_DLL") /\ ~Has(c, "NOT_USE_REFERENCE_COUNT")]
  /\ Goes(c, IF Has(c, "NOT_MAP_DLL") THEN "init" ELSE "insert")
  /\ UNCHANGED <<call, reg, orphans, handles, crashed>>

\* IMAGE_DLLCHARACTERISTICS_NO_SEH skips this, too: an image without handlers is
\* one loaded with the flag.
RtlInsertInvertedFunctionTable(c) ==
  /\ Proceeds /\ pc[c] = "insert"
  /\ IF Has(c, "NOT_ADD_INVERTED_FUNCTION") THEN UNCHANGED <<mod, reg>>
     ELSE /\ mod' = [mod EXCEPT ![Base(c)].inverted = TRUE]
          /\ reg' = Registered("inverted", Base(c))
  /\ Goes(c, "tls")
  /\ UNCHANGED <<call, orphans, handles, crashed>>

MmpHandleTlsData(c) ==
  /\ Proceeds /\ pc[c] = "tls"
  /\ IF Has(c, "NOT_HANDLE_TLS") THEN UNCHANGED <<mod, reg>>
     ELSE /\ mod' = [mod EXCEPT ![Base(c)].tls = TRUE]
          /\ reg' = Registered("tls", Base(c))
  /\ Goes(c, "init")
  /\ UNCHANGED <<call, orphans, handles, crashed>>

\* LdrpExecuteTLS and LdrpCallInitializers; the handle goes to the caller.
LdrpCallInitializers(c) ==
  /\ Proceeds /\ pc[c] = "init"
  /\ mod' = [mod EXCEPT ![Base(c)].initialized = TRUE]
  /\ handles' = [handles EXCEPT ![Base(c)] = @ + 1]
  /\ Returns(c)
  /\ UNCHANGED <<reg, orphans, crashed>>

(* Failures of the steps after the reservation.                            *)

\* Mutant: the error is returned without undoing anything.
CleansNothing(c) == UNCHANGED mod /\ Returns(c)

\* Where a load goes when a step fails: LdrUnloadDllMemory, or for a module that
\* is not mapped (NOT_MAP_DLL) MemoryFreeLibrary.
CleansUp(c) ==
  IF Has(c, "NOT_MAP_DLL")
  THEN /\ mod' = [mod EXCEPT ![Base(c)] = [NoModule EXCEPT !.mem = "freed"]]
       /\ Returns(c)
  ELSE UNCHANGED <<mod, call>> /\ Goes(c, "unload")

\* A step that fails may leave its entry in its register.
LeavesBehind(c, k) ==
  \/ UNCHANGED <<reg, orphans>>
  \/ /\ k \in LeftBehind
     /\ reg' = Registered(k, Base(c))
     /\ orphans' = orphans \cup {<<k, Base(c)>>}

\* RtlInitializeLdrDataTableEntry inserts into the base-address index before its
\* last allocation, and its failure frees the entry where it is.
LdrMapDllMemoryFails(c) ==
  /\ Proceeds /\ pc[c] = "map" /\ "map" \in Fails
  /\ Goes(c, "unload")
  /\ LeavesBehind(c, "index")
  /\ UNCHANGED <<call, mod, handles, crashed>>

MemoryResolveImportTableFails(c) ==
  /\ Proceeds /\ pc[c] = "import" /\ "import" \in Fails
  /\ CleansUp(c)
  /\ UNCHANGED <<reg, orphans, handles, crashed>>

MemorySetSectionProtectionFails(c) ==
  /\ Proceeds /\ pc[c] = "protect" /\ "protect" \in Fails
  /\ CleansUp(c)
  /\ UNCHANGED <<reg, orphans, handles, crashed>>

\* When the second RtlProtectMrdata fails, the entry is in the table.
RtlInsertInvertedFunctionTableFails(c) ==
  /\ Proceeds /\ pc[c] = "insert" /\ "insert" \in Fails
  /\ ~Has(c, "NOT_ADD_INVERTED_FUNCTION")
  /\ Goes(c, "unload")
  /\ LeavesBehind(c, "inverted")
  /\ UNCHANGED <<call, mod, handles, crashed>>

\* When the kernel refuses the request, the TLS entry stays in the list.
MmpHandleTlsDataFails(c) ==
  /\ Proceeds /\ pc[c] = "tls" /\ "tls" \in Fails
  /\ ~Has(c, "NOT_HANDLE_TLS")
  /\ Goes(c, IF Has(c, "NOT_FAIL_IF_HANDLE_TLS") THEN "init" ELSE "unload")
  /\ LeavesBehind(c, "tls")
  /\ UNCHANGED <<call, mod, handles, crashed>>

\* Mutant: the result of the initialisers is not looked at.
InitializersFailIgnored(c) ==
  /\ Proceeds /\ pc[c] = "init" /\ "init" \in Fails
  /\ handles' = [handles EXCEPT ![Base(c)] = @ + 1]
  /\ Returns(c)
  /\ UNCHANGED <<mod, reg, orphans, crashed>>

LdrpCallInitializersFails(c) ==
  /\ Proceeds /\ pc[c] = "init" /\ "init" \in Fails
  /\ CleansUp(c)
  /\ UNCHANGED <<reg, orphans, handles, crashed>>

-----------------------------------------------------------------------------
(* LdrUnloadDllMemory, called by the host or by a load that failed.        *)

LdrUnloadDllMemory(c) ==
  /\ Proceeds /\ pc[c] = "idle" /\ MayStart("unload")
  /\ \E b \in Bases :
       /\ handles[b] > 0
       /\ handles' = [handles EXCEPT ![b] = @ - 1]
       /\ call' = [call EXCEPT ![c] = [NoCall EXCEPT !.kind = "unload", !.base = b]]
  /\ Goes(c, "unload")
  /\ UNCHANGED <<mod, reg, orphans, crashed>>

UnmappedFreed(c) ==
  /\ Proceeds /\ pc[c] = "unload"
  /\ mod[Base(c)].mem = "live" /\ ~mod[Base(c)].mapped
  /\ mod' = [mod EXCEPT ![Base(c)] = [NoModule EXCEPT !.mem = "freed"]]
  /\ Returns(c)
  /\ UNCHANGED <<reg, orphans, handles, crashed>>

\* Mutant: the reference count is not looked at.
NobodyRefersTo(b) == FALSE

\* RtlGetReferenceCount; a module that does not count references has none.
OthersReferTo(b) == mod[b].counted /\ mod[b].refs >= 2

StillReferenced(c) ==
  /\ Proceeds /\ pc[c] = "unload"
  /\ mod[Base(c)].mem = "live" /\ mod[Base(c)].mapped /\ OthersReferTo(Base(c))
  /\ Goes(c, "dereference")
  /\ UNCHANGED <<call, mod, reg, orphans, handles, crashed>>

\* RtlGetReferenceCount fails: the host's call ends, and the handle is still its own.
\* (That the clean-up of a failed load meets this is left out.)
CountUnreadable(c) ==
  /\ Proceeds /\ pc[c] = "unload" /\ "count" \in Fails
  /\ call[c].kind = "unload"
  /\ mod[Base(c)].mem = "live" /\ mod[Base(c)].mapped /\ mod[Base(c)].counted
  /\ handles' = [handles EXCEPT ![Base(c)] = @ + 1]
  /\ Returns(c)
  /\ UNCHANGED <<mod, reg, orphans, crashed>>

\* RtlUpdateReferenceCount(FLAG_DEREFERENCE).
Dereferenced(c) ==
  /\ Proceeds /\ pc[c] = "dereference" /\ mod[Base(c)].mem = "live"
  /\ mod' = [mod EXCEPT ![Base(c)].refs = @ - 1]
  /\ Returns(c)
  /\ UNCHANGED <<reg, orphans, handles, crashed>>

\* underUnload, and DLL_PROCESS_DETACH to a module that was initialised.
TakenDown(c) ==
  /\ Proceeds /\ pc[c] = "unload"
  /\ mod[Base(c)].mem = "live" /\ mod[Base(c)].mapped /\ ~OthersReferTo(Base(c))
  /\ mod' = [mod EXCEPT ![Base(c)].underUnload = TRUE]
  /\ Goes(c, "remove")
  /\ UNCHANGED <<call, reg, orphans, handles, crashed>>

RtlRemoveInvertedFunctionTable(c) ==
  /\ Proceeds /\ pc[c] = "remove"
  /\ reg' = IF mod[Base(c)].inverted THEN Unregistered("inverted", Base(c)) ELSE reg
  /\ Goes(c, "untls")
  /\ UNCHANGED <<call, mod, orphans, handles, crashed>>

\* __fastfail(FAST_FAIL_CORRUPT_LIST_ENTRY).
RtlRemoveInvertedFunctionTableFails(c) ==
  /\ Proceeds /\ pc[c] = "remove" /\ "remove" \in Fails
  /\ mod[Base(c)].inverted
  /\ crashed' = TRUE
  /\ UNCHANGED <<pc, call, mod, reg, orphans, handles>>

\* Mutant: TlsHandled is not looked at, and the entry stays in the TLS list.
TlsEntryKept(c) ==
  /\ Proceeds /\ pc[c] = "untls"
  /\ Goes(c, "unlink")
  /\ UNCHANGED <<call, mod, reg, orphans, handles, crashed>>

MmpReleaseTlsEntry(c) ==
  /\ Proceeds /\ pc[c] = "untls"
  /\ reg' = IF mod[Base(c)].tls THEN Unregistered("tls", Base(c)) ELSE reg
  /\ Goes(c, "unlink")
  /\ UNCHANGED <<call, mod, orphans, handles, crashed>>

RtlFreeLdrDataTableEntry(c) ==
  /\ Proceeds /\ pc[c] = "unlink"
  /\ reg' = [reg EXCEPT !["list"] = @ \ {Base(c)}, !["index"] = @ \ {Base(c)}]
  /\ Goes(c, "free")
  /\ UNCHANGED <<call, mod, orphans, handles, crashed>>

MemoryFreeLibrary(c) ==
  /\ Proceeds /\ pc[c] = "free"
  /\ mod' = [mod EXCEPT ![Base(c)] = [NoModule EXCEPT !.mem = "freed"]]
  /\ Returns(c)
  /\ UNCHANGED <<reg, orphans, handles, crashed>>

-----------------------------------------------------------------------------
Init ==
  /\ pc = [c \in Callers |-> "idle"]
  /\ call = [c \in Callers |-> NoCall]
  /\ mod = [b \in Bases |-> NoModule]
  /\ reg = [k \in Registers |-> {}]
  /\ orphans = {}
  /\ handles = [b \in Bases |-> 0]
  /\ crashed = FALSE

Load(c) ==
  \/ LdrLoadDllMemoryExW(c) \/ NoMatch(c) \/ ReferenceRefused(c) \/ ModuleFound(c)
  \/ RtlUpdateReferenceCount(c) \/ MemoryLoadLibrary(c) \/ LdrMapDllMemory(c)
  \/ MemoryResolveImportTable(c) \/ MemorySetSectionProtection(c)
  \/ RtlInsertInvertedFunctionTable(c) \/ MmpHandleTlsData(c) \/ LdrpCallInitializers(c)
LoadFails(c) ==
  \/ MemoryLoadLibraryFails(c) \/ SectionsFail(c)
  \/ LdrMapDllMemoryFails(c) \/ MemoryResolveImportTableFails(c)
  \/ MemorySetSectionProtectionFails(c) \/ RtlInsertInvertedFunctionTableFails(c)
  \/ MmpHandleTlsDataFails(c) \/ LdrpCallInitializersFails(c)
Unload(c) ==
  \/ LdrUnloadDllMemory(c) \/ UnmappedFreed(c) \/ StillReferenced(c) \/ CountUnreadable(c)
  \/ Dereferenced(c)
  \/ TakenDown(c) \/ RtlRemoveInvertedFunctionTable(c) \/ RtlRemoveInvertedFunctionTableFails(c)
  \/ MmpReleaseTlsEntry(c) \/ RtlFreeLdrDataTableEntry(c) \/ MemoryFreeLibrary(c)

Next == \E c \in Callers : Load(c) \/ LoadFails(c) \/ Unload(c)
Spec == Init /\ [][Next]_vars

-----------------------------------------------------------------------------
(* Properties.                                                             *)

CallType == [kind : {"none", "load", "unload"}, image : Images \cup {None},
             flags : SUBSET Flags, named : BOOLEAN, valid : BOOLEAN, base : Bases \cup {None}]
ModuleType ==
  [image : Images \cup {None}, mem : {"none", "live", "freed", "reserved"}, named : BOOLEAN,
   mapped : BOOLEAN, counted : BOOLEAN, refs : Nat \ {0}, inverted : BOOLEAN,
   tls : BOOLEAN, initialized : BOOLEAN, underUnload : BOOLEAN]

\* Types.  A reference count never reaches 0: the last reference takes the module
\* down instead of being counted off (Loader.cpp:252).
TypeOK ==
  /\ pc \in [Callers -> {"idle"} \cup LoadPc \cup UnloadPc]
  /\ call \in [Callers -> CallType]
  /\ mod \in [Bases -> ModuleType]
  /\ reg \in [Registers -> SUBSET Bases]
  /\ orphans \subseteq Registers \X Bases
  /\ handles \in [Bases -> Nat]
  /\ crashed \in BOOLEAN

\* A handle that a caller got and did not give back is to a module that is in
\* memory and that nobody is taking down.
HandlesAreLive ==
  \A b \in Bases : handles[b] > 0 => mod[b].mem = "live" /\ ~mod[b].underUnload

\* Its DllMain ran and accepted the process before anybody got the handle.
HoldersSeeInitialized ==
  \A b \in Bases : handles[b] > 0 => mod[b].initialized

\* Calls that stand for a reference of their own: a load before it hands its handle
\* over and an unload before it counts the handle off.
Holders(b) == { c \in Callers : /\ Base(c) = b
                                /\ pc[c] \in {"insert", "tls", "init", "unload", "dereference"} }

\* The reference count is the number of handles and of calls that hold one.
CountIsExact ==
  \A b \in Bases :
    mod[b].mem = "live" /\ mod[b].counted /\ ~mod[b].underUnload
      => mod[b].refs = handles[b] + Cardinality(Holders(b))

\* Images whose range MemoryLoadLibrary reserved before it failed: nobody frees them
\* (MemoryModule.cpp:162-175).
Leaked == { b \in Bases : mod[b].mem = "reserved" }

\* Between calls every image in memory has a handle, except those that MemoryLoadLibrary
\* leaks: of no other step that fails, and of no unload, anything stays that nobody can
\* free.
NothingLeftBehind ==
  Quiet => \A b \in Bases \ Leaked : mod[b].mem \in {"none", "freed"} \/ handles[b] > 0

\* No register lists a module that was freed, other than what a failing step of the
\* registration itself left there.
NoDanglingRegistration ==
  \A k \in Registers : \A b \in reg[k] : mod[b].mem = "live" \/ <<k, b>> \in orphans

\* "If you try to load the same module, it will fail" (Loader.h:34): a module
\* without a reference count has one handle.
UncountedHeldOnce ==
  \A b \in Bases : mod[b].mem = "live" /\ ~mod[b].counted => handles[b] <= 1

\* An image that is asked for by name is loaded once, however often it is asked for.
OneModulePerImage ==
  \A a, b \in reg["list"] : mod[a].named /\ mod[b].named /\ mod[a].image = mod[b].image => a = b

\* "Check if it's being unloaded" (Loader.cpp:87): a lookup does not hand out a
\* module that is being taken down.
NoReferenceToUnloading ==
  [][\A c \in Callers : pc[c] = "lookup" /\ pc'[c] = "reference" =>
       ~mod[call'[c].base].underUnload]_vars
=============================================================================
