----------------------------- MODULE MmpDotNet -----------------------------
(***************************************************************************)
(* The file functions hooked for the .NET runtime (src/loader/MmpDotNet.cpp). *)
(* The runtime opens, maps and closes the file of an assembly; when the    *)
(* name is that of a memory module it gets an event instead of a file, and *)
(* a list tells what each such handle, and each address mapped through it, *)
(* stands for.  MmpFakeHandleListLock is held for one step at a time: a    *)
(* search, an insertion or a removal; the rest of a call is outside it.    *)
(*                                                                         *)
(* What the kernel holds behind a handle or an address is written down as  *)
(* the object that the caller asked for, which the hooks cannot see.  The  *)
(* value of an entry is the module's entry in ntdll's list, written as its *)
(* file, or None once that entry was freed under it.                       *)
(***************************************************************************)
EXTENDS FiniteSets, SequencesExt

CONSTANTS
  Threads, Files,
  Handles,    \* handle values, used again when closed
  Bases,      \* addresses of views, used again when unmapped
  Entries,    \* heap blocks for MMP_FAKE_HANDLE_LIST_ENTRY
  None,
  Overlap,    \* "unmap": an address is used again while its unmapping is under way
  Faults      \* "load": MemoryLoadLibrary may fail

ASSUME KeysAssumption    == None \notin Handles \cup Bases /\ Handles \cap Bases = {}
ASSUME EntriesAssumption == None \notin Entries

VARIABLES
  preHooked,  \* PreHooked
  loaded,     \* files that are memory modules in ntdll's list
  open, view, \* the object behind each handle and each address
  list,       \* MmpFakeHandleListHead, a sequence of entries
  item,       \* hObject, value and bImageMapping of each entry
  at          \* the call each thread is in

vars == <<preHooked, loaded, open, view, list, item, at>>

Keys == Handles \cup Bases
Objects == [kind : {"closed", "other", "file", "data", "image", "copy"}, file : Files \cup {None}]
Closed == [kind |-> "closed", file |-> None]
Other == [kind |-> "other", file |-> None]
NoItem == [hObject |-> None, value |-> None, image |-> FALSE]
Idle == [pc |-> "idle", call |-> None, key |-> None, iter |-> None, new |-> None,
         item |-> NoItem]

Allocated == Range(list)

-----------------------------------------------------------------------------
(* The list.                                                               *)

\* MmpFindHandleEntry: the first entry of the object.
MmpFindHandleEntry(key) ==
  LET S == { i \in DOMAIN list : item[list[i]].hObject = key }
  IN IF S = {} THEN None ELSE list[Min(S)]

\* MmpInsertHandleEntry.
MmpInsertHandleEntry(it) ==
  \E e \in Entries \ Allocated :
    list' = Append(list, e) /\ item' = [item EXCEPT ![e] = it]

\* MmpFreeHandleEntry, on an entry that was found earlier.
MmpFreeHandleEntry(e) ==
  list' = RemoveFirst(list, e) /\ item' = [item EXCEPT ![e] = NoItem]

-----------------------------------------------------------------------------
(* What a correct program does with handles and addresses: it uses one only *)
(* after the call that made it returned, and lets go of it once, when no   *)
(* call on it is under way.  What was given back may be somebody else's.   *)

LettingGo == {"close", "unmap"}

May(call, key) ==
  \A u \in Threads :
    /\ at[u].new # key
    /\ at[u].key = key /\ at[u].pc = "found" =>
         call \notin LettingGo /\ at[u].call \notin LettingGo

FreeHandles == { h \in Handles : open[h] = Closed }

\* UnmapViewOfFile gives the address back before it removes the entry.
FreeBases ==
  { b \in Bases : /\ view[b] = Closed
                  /\ "unmap" \in Overlap \/ \A u \in Threads : at[u].key # b }

-----------------------------------------------------------------------------
(* The hooks.                                                              *)

\* Mutant: PreHooked is not looked at.
HookedAgain ==
  /\ preHooked' = TRUE
  /\ list' = <<>>
  /\ item' = [e \in Entries |-> NoItem]
  /\ UNCHANGED <<loaded, open, view, at>>

\* The first call under FastPebLock makes the list and attaches the hooks; later
\* ones only return.
MmpPreInitializeHooksForDotNet ==
  /\ ~preHooked
  /\ preHooked' = TRUE
  /\ list' = <<>>
  /\ item' = [e \in Entries |-> NoItem]
  /\ UNCHANGED <<loaded, open, view, at>>

\* HookCreateFileW: MmpIsMemoryModuleFileName looks for the name under the loader
\* lock; a file that is no module is left to the original function.
CreateFileW(t, f) ==
  /\ at[t] = Idle
  /\ IF preHooked /\ f \in loaded
     THEN /\ at' = [at EXCEPT ![t] =
               [Idle EXCEPT !.pc = "open", !.item = [NoItem EXCEPT !.value = f]]]
          /\ UNCHANGED open
     ELSE /\ \E h \in FreeHandles : open' = [open EXCEPT ![h] = Other]
          /\ UNCHANGED at
  /\ UNCHANGED <<preHooked, loaded, view, list, item>>

\* Without the loader lock, CreateEventW makes the handle of the module that was found.
CreateEventW(t) ==
  /\ at[t].pc = "open"
  /\ \E h \in FreeHandles :
       /\ open' = [open EXCEPT ![h] = [kind |-> "file", file |-> at[t].item.value]]
       /\ at' = [at EXCEPT ![t] =
            [@ EXCEPT !.pc = "insert", !.new = h,
                      !.item = [hObject |-> h, value |-> at[t].item.value, image |-> FALSE]]]
  /\ UNCHANGED <<preHooked, loaded, view, list, item>>

\* Every other call begins with a search.
Finds(t, call, key) ==
  /\ at[t] = Idle
  /\ May(call, key)
  /\ at' = [at EXCEPT ![t] =
       [Idle EXCEPT !.pc = "found", !.call = call, !.key = key,
                    !.iter = IF preHooked THEN MmpFindHandleEntry(key) ELSE None]]
  /\ UNCHANGED <<preHooked, loaded, open, view, list, item>>

Found(t, call) == at[t].pc = "found" /\ at[t].call = call

Inserts(t) ==
  /\ at[t].pc = "insert"
  /\ MmpInsertHandleEntry(at[t].item)
  /\ at' = [at EXCEPT ![t] = Idle]
  /\ UNCHANGED <<preHooked, loaded, open, view>>

\* HookGetFileInformationByHandle, HookGetFileSize and HookGetFileSizeEx answer
\* from the module of the entry.
Answers(t) ==
  /\ Found(t, "query")
  /\ at' = [at EXCEPT ![t] = Idle]
  /\ UNCHANGED <<preHooked, loaded, open, view, list, item>>

\* HookCreateFileMappingW; kind says whether the caller passed SEC_IMAGE.
CreateFileMappingW(t, kind) ==
  /\ Found(t, kind)
  /\ \E h \in FreeHandles :
       IF at[t].iter # None
       THEN /\ open' = [open EXCEPT ![h] = [kind |-> kind, file |-> open[at[t].key].file]]
            /\ at' = [at EXCEPT ![t] =
                 [@ EXCEPT !.pc = "insert", !.new = h,
                           !.item = [hObject |-> h, value |-> item[at[t].iter].value,
                                     image |-> kind = "image"]]]
       ELSE /\ open' = [open EXCEPT ![h] = Other]
            /\ at' = [at EXCEPT ![t] = Idle]
  /\ UNCHANGED <<preHooked, loaded, view, list, item>>

\* HookMapViewOfFileEx through an image mapping: another copy of the module.
MapsCopy(t) ==
  /\ Found(t, "map")
  /\ at[t].iter # None /\ item[at[t].iter].image
  /\ \E b \in FreeBases :
       /\ view' = [view EXCEPT ![b] = [kind |-> "copy", file |-> item[at[t].iter].value]]
       /\ at' = [at EXCEPT ![t] =
            [@ EXCEPT !.pc = "insert", !.new = b,
                      !.item = [hObject |-> b, value |-> b, image |-> FALSE]]]
  /\ UNCHANGED <<preHooked, loaded, open, list, item>>

\* Through any other mapping of a module, the bytes it was loaded from; or nothing,
\* when the copy cannot be made.  The bytes are no view: no entry is made for them, their
\* unmapping finds none and is refused by the original function, and they end with the
\* module, whoever still reads them.
MapsBytes(t) ==
  /\ Found(t, "map")
  /\ at[t].iter # None
  /\ item[at[t].iter].image => "load" \in Faults
  /\ at' = [at EXCEPT ![t] = Idle]
  /\ UNCHANGED <<preHooked, loaded, open, view, list, item>>

OriginMapViewOfFileEx(t) ==
  /\ Found(t, "map") /\ at[t].iter = None
  /\ \E b \in FreeBases : view' = [view EXCEPT ![b] = Other]
  /\ at' = [at EXCEPT ![t] = Idle]
  /\ UNCHANGED <<preHooked, loaded, open, list, item>>

\* HookUnmapViewOfFile: MemoryFreeLibrary or the original function, then the entry.
UnmapViewOfFile(t) ==
  /\ Found(t, "unmap")
  /\ view' = [view EXCEPT ![at[t].key] = Closed]
  /\ at' = [at EXCEPT ![t] = IF @.iter # None THEN [@ EXCEPT !.pc = "unmapped"] ELSE Idle]
  /\ UNCHANGED <<preHooked, loaded, open, list, item>>

FreesViewEntry(t) ==
  /\ at[t].pc = "unmapped"
  /\ MmpFreeHandleEntry(at[t].iter)
  /\ at' = [at EXCEPT ![t] = Idle]
  /\ UNCHANGED <<preHooked, loaded, open, view>>

\* Mutant: the handle is closed first.
ClosesFirst(t) ==
  /\ Found(t, "close")
  /\ open' = [open EXCEPT ![at[t].key] = Closed]
  /\ at' = [at EXCEPT ![t] = IF @.iter # None THEN [@ EXCEPT !.pc = "unmapped"] ELSE Idle]
  /\ UNCHANGED <<preHooked, loaded, view, list, item>>

\* HookCloseHandle: the entry goes before the handle.
FreesHandleEntry(t) ==
  /\ Found(t, "close") /\ at[t].iter # None
  /\ MmpFreeHandleEntry(at[t].iter)
  /\ at' = [at EXCEPT ![t].iter = None]
  /\ UNCHANGED <<preHooked, loaded, open, view>>

OriginCloseHandle(t) ==
  /\ Found(t, "close") /\ at[t].iter = None
  /\ open' = [open EXCEPT ![at[t].key] = Closed]
  /\ at' = [at EXCEPT ![t] = Idle]
  /\ UNCHANGED <<preHooked, loaded, view, list, item>>

-----------------------------------------------------------------------------
(* The host program and the runtime.                                       *)

LdrLoadDllMemory(f) ==
  /\ loaded' = loaded \cup {f}
  /\ UNCHANGED <<preHooked, open, view, list, item, at>>

\* The program keeps a module while handles of its file are open.  A call of another
\* thread that has found the module and not yet made its handle is left with a pointer to
\* the freed entry.
LdrUnloadDllMemory(f) ==
  /\ \A h \in Handles : open[h].file # f
  /\ loaded' = loaded \ {f}
  /\ at' = [t \in Threads |-> IF at[t].pc = "open" /\ at[t].item.value = f
                              THEN [at[t] EXCEPT !.item = NoItem] ELSE at[t]]
  /\ UNCHANGED <<preHooked, open, view, list, item>>

\* The calls that would read such an entry are not followed.
Dangling(h) == open[h].kind \in {"file", "data", "image"} /\ open[h].file = None

Calls(t) ==
  \/ \E f \in Files : CreateFileW(t, f)
  \/ \E h \in Handles :
       \/ open[h].kind = "file" /\ \E call \in {"data", "image"} : Finds(t, call, h)
       \/ open[h].kind = "file" /\ ~Dangling(h) /\ Finds(t, "query", h)
       \/ open[h].kind \in {"data", "image"} /\ ~Dangling(h) /\ Finds(t, "map", h)
       \/ open[h] = Other /\ \E call \in {"query", "data", "map"} : Finds(t, call, h)
       \/ open[h] # Closed /\ Finds(t, "close", h)
  \/ \E b \in Bases : view[b] # Closed /\ Finds(t, "unmap", b)

Continues(t) ==
  \/ CreateEventW(t) \/ Inserts(t) \/ Answers(t)
  \/ \E kind \in {"data", "image"} : CreateFileMappingW(t, kind)
  \/ MapsCopy(t) \/ MapsBytes(t) \/ OriginMapViewOfFileEx(t)
  \/ UnmapViewOfFile(t) \/ FreesViewEntry(t)
  \/ FreesHandleEntry(t) \/ OriginCloseHandle(t)

Init ==
  /\ preHooked = FALSE
  /\ loaded = {}
  /\ open = [h \in Handles |-> Closed]
  /\ view = [b \in Bases |-> Closed]
  /\ list = <<>>
  /\ item = [e \in Entries |-> NoItem]
  /\ at = [t \in Threads |-> Idle]

Next ==
  \/ MmpPreInitializeHooksForDotNet
  \/ \E f \in Files : LdrLoadDllMemory(f) \/ LdrUnloadDllMemory(f)
  \/ \E t \in Threads : Calls(t) \/ Continues(t)

Spec == Init /\ [][Next]_vars

-----------------------------------------------------------------------------
(* Properties.                                                             *)

\* The types of the variables.
TypeOK ==
  /\ preHooked \in BOOLEAN /\ loaded \subseteq Files
  /\ open \in [Handles -> Objects] /\ view \in [Bases -> Objects]
  /\ list \in Seq(Entries) /\ IsInjective(list)
  /\ \A e \in Entries : item[e] = NoItem <=> e \notin Allocated
  /\ \A t \in Threads : at[t].pc \in {"idle", "open", "found", "insert", "unmapped"}

\* The entry e tells the hooks what the caller asked for behind h.
Tells(e, h) ==
  IF open[h].kind = "other" THEN e = None
  ELSE /\ e \in Allocated
       /\ item[e].value = open[h].file
       /\ item[e].image = (open[h].kind = "image")

\* A handle means what it was opened for, to every search and until the end of every
\* call that searched for it: a module's handle its own module, in the way it was mapped
\* (or the freed entry of one that was unloaded before the handle was made),
\* and another object's handle no module, although handle values are used again while
\* calls of other threads are under way (MmpFindHandleEntry returns the entry without
\* the lock, HookCloseHandle removes it before it closes).
HandleMeansItsModule ==
  /\ \A h \in Handles :
       open[h] # Closed /\ May("close", h) => Tells(MmpFindHandleEntry(h), h)
  /\ \A t \in Threads :
       at[t].pc = "found" /\ at[t].key \in Handles =>
         \/ Tells(at[t].iter, at[t].key)
         \/ at[t].call = "close" /\ at[t].iter = None

\* The addresses in the list are those of the mapped copies, one entry each, but for the
\* copy that a call is about to enter and the entry that one is about to remove: no copy
\* stays mapped unnoticed, and no address of something else is taken for a copy
\* (HookMapViewOfFileEx, HookUnmapViewOfFile, MmpPreInitializeHooksForDotNet).
CopiesAreEntered ==
  \A b \in Bases :
    LET entered == Cardinality({ e \in Allocated : item[e].hObject = b })
        entering == \E t \in Threads : at[t].pc = "insert" /\ at[t].new = b
        leaving == \E t \in Threads : at[t].pc = "unmapped" /\ at[t].key = b
    IN entered = IF leaving \/ (view[b].kind = "copy" /\ ~entering) THEN 1 ELSE 0

=============================================================================
