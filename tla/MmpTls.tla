------------------------------- MODULE MmpTls -------------------------------
(***************************************************************************)
(* Static TLS for modules loaded from memory (src/loader/MmpTls.cpp).      *)
(* Every thread's ThreadLocalStoragePointer is replaced by a longer vector *)
(* whose upper indices belong to the loader.  Threads that start, threads  *)
(* that exit, the thread that loads or unloads a module and the worker     *)
(* that frees the data of dead threads share the list of records, the list *)
(* of TLS entries, the index bitmap, the thread count and the heap.        *)
(*                                                                         *)
(* One loading call runs at a time, on the main thread, which never exits. *)
(* Overlap says what else the host program lets happen at the same time.   *)
(***************************************************************************)
EXTENDS Integers, FiniteSets

CONSTANTS
  Threads,     \* thread ids; an id is used again once its thread is gone
  Main,        \* the thread that initialised the library and loads modules
  Initial,     \* the threads that MmpTlsInitialize found, Main among them
  Plain,       \* threads that ntdll may start without a TLS vector
  Modules,     \* modules with a TLS directory
  ZeroLength,  \* those whose directory has no raw data
  Indices,     \* MMP_START_TLS_INDEX .. MMP_MAXIMUM_TLS_INDEX - 1
  Blocks,      \* the heap blocks that TLS data can occupy
  None,        \* a null pointer; also no owner of a lock, no module
  Overlap,     \* "start_load", "exit_load", "start_exit"
  Faults,      \* "oom", "kernel", "kill"
  MaxStarts, MaxLoads   \* bounds: threads started, modules loaded

ASSUME ThreadsAssumption ==
  Main \in Initial /\ Initial \subseteq Threads /\ Plain \subseteq Threads \ Initial
ASSUME ModulesAssumption == ZeroLength \subseteq Modules
ASSUME NumbersAssumption == Indices \subseteq Nat /\ Blocks \subseteq Nat
ASSUME FiniteAssumption  == IsFiniteSet(Threads) /\ IsFiniteSet(Blocks)
ASSUME NoneAssumption    == None \notin Threads \cup Modules \cup Indices \cup Blocks
ASSUME BoundsAssumption  == MaxStarts \in Nat /\ MaxLoads \in Nat

VARIABLES
  pc,        \* where each thread is in MmpUserThreadStart or HookLdrShutdownThread
  teb,       \* TEB.ThreadLocalStoragePointer: null, ntdll's vector or ours
  slot,      \* the upper part of each thread's own vector
  record,    \* MmpThreadLocalStoragePointer: the threads with a record
  seen,      \* MmpActiveThreadCount as read by a decrement that is under way
  filled,    \* the TLS entries a starting thread has handled
  tlsList,   \* MmpTlsList: the modules with an entry
  index,     \* TlsDirectory.Characteristics of each module
  bitmap,    \* MmpTlsBitmap
  count,     \* MmpActiveThreadCount
  live,      \* heap blocks that are allocated
  postponed, \* threads whose vector was handed to MmpQueuePostponedTls
  old,       \* lpOldTlsVector: the copy of the vector that was handed over
  loaderLock, tlspLock,  \* who owns the loader lock and MmpTlspLock
  sharers,   \* the threads that hold MmpTlsListLock shared
  ld,        \* MmpHandleTlsData on the main thread: pc, module, index, ThreadData
  loaded,    \* modules for which MmpHandleTlsData succeeded
  stale,     \* history: modules whose load the kernel refused
  wild,      \* history: the kernel wrote behind the end of ntdll's own vector
  starts, loads

threadVars == <<pc, teb, slot, record, seen, filled, postponed, old, starts>>
moduleVars == <<tlsList, index, bitmap, ld, loaded, loads, stale>>
lockVars   == <<loaderLock, tlspLock, sharers>>
vars == <<threadVars, moduleVars, lockVars, count, live, wild>>

-----------------------------------------------------------------------------
Pointer == Blocks \cup {None}
Empty   == [i \in Indices |-> None]

\* Where a thread can be.  none: no such thread; dead: terminated, its handle
\* still open in the postponed list.
StartPc == {"born", "start", "list", "fill", "count"}
ExitPc  == {"dec", "check", "checkPlain", "queue", "orig"}
ThreadPc == {"none", "run", "dead"} \cup StartPc \cup ExitPc

LoaderPc == {"idle", "insert", "alloc", "undo", "kernel", "map", "free",
             "correct", "subtract", "assert"}

NoThreads == [t \in {} |-> None]

Idle == [pc |-> "idle", mod |-> None, idx |-> None, data |-> {},
         new |-> NoThreads, was |-> NoThreads, toFree |-> {}, missing |-> 0, seen |-> 0,
         ok |-> TRUE]

\* The n lowest free blocks: what the heap hands out.
Fresh(n) == { b \in Blocks \ live : Cardinality({ c \in Blocks \ live : c < b }) < n }
FreeBlocks == Cardinality(Blocks \ live)

Lowest(S) == CHOOSE x \in S : \A y \in S : x <= y

Injections(S, T) == { f \in [S -> T] : \A a, b \in S : f[a] = f[b] => a = b }

-----------------------------------------------------------------------------
(* What the host program lets overlap.                                     *)

Starting == \E t \in Threads : pc[t] \in StartPc
Exiting  == \E t \in Threads : pc[t] \in ExitPc
Loading  == ld.pc # "idle"

MayStart == /\ Loading => "start_load" \in Overlap
            /\ Exiting => "start_exit" \in Overlap
MayExit  == /\ Loading => "exit_load" \in Overlap
            /\ Starting => "start_exit" \in Overlap
MayLoad  == /\ Starting => "start_load" \in Overlap
            /\ Exiting => "exit_load" \in Overlap

-----------------------------------------------------------------------------
(* A thread starts.                                                        *)

\* ntdll gives the new thread its vector, before RtlUserThreadStart.
NtdllStartsThread(t) ==
  /\ pc[t] = "none" /\ starts < MaxStarts /\ MayStart
  /\ pc' = [pc EXCEPT ![t] = "born"]
  /\ \E v \in {"ldr"} \cup (IF t \in Plain THEN {"null"} ELSE {}) :
       teb' = [teb EXCEPT ![t] = v]
  /\ starts' = starts + 1
  /\ UNCHANGED <<slot, record, seen, filled, postponed, old, moduleVars, lockVars,
                 count, live, wild>>

\* LdrLockLoaderLock in MmpUserThreadStart; without a vector
\* MmpAllocateTlsLockHeld skips everything.
MmpUserThreadStart(t) ==
  /\ pc[t] = "born" /\ loaderLock = None
  /\ IF teb[t] = "null"
     THEN pc' = [pc EXCEPT ![t] = "run"] /\ UNCHANGED loaderLock
     ELSE pc' = [pc EXCEPT ![t] = "start"] /\ loaderLock' = t
  /\ UNCHANGED <<teb, slot, record, seen, filled, postponed, old, starts, moduleVars,
                 tlspLock, sharers, count, live, wild>>

\* The loader lock is left and the thread's own code runs.
Runs(t) ==
  /\ pc' = [pc EXCEPT ![t] = "run"]
  /\ loaderLock' = None

\* A record with this thread's id exists already: nothing is set up.
TlspRecordFound(t) ==
  /\ pc[t] = "start" /\ tlspLock = None
  /\ t \in record
  /\ Runs(t)
  /\ UNCHANGED <<teb, slot, record, seen, filled, postponed, old, starts, moduleVars,
                 tlspLock, sharers, count, live, wild>>

\* Mutant: the early way out does not leave the loader lock.
AllocationFailedHoldingTheLoader(t) ==
  /\ pc[t] = "start" /\ tlspLock = None
  /\ t \notin record /\ "oom" \in Faults
  /\ pc' = [pc EXCEPT ![t] = "run"]
  /\ UNCHANGED <<teb, slot, record, seen, filled, postponed, old, starts, moduleVars, lockVars,
                 count, live, wild>>

\* No memory for the record or the vector; MmpUserThreadStart ignores the error.
TlspAllocationFailed(t) ==
  /\ pc[t] = "start" /\ tlspLock = None
  /\ t \notin record /\ "oom" \in Faults
  /\ Runs(t)
  /\ UNCHANGED <<teb, slot, record, seen, filled, postponed, old, starts, moduleVars,
                 tlspLock, sharers, count, live, wild>>

\* Mutant: the TEB keeps ntdll's vector.
TlspReplacedButNotInTeb(t) ==
  /\ pc[t] = "start" /\ tlspLock = None
  /\ t \notin record
  /\ record' = record \cup {t}
  /\ slot' = [slot EXCEPT ![t] = Empty]
  /\ pc' = [pc EXCEPT ![t] = "list"]
  /\ UNCHANGED <<teb, seen, filled, postponed, old, starts, moduleVars, lockVars, count, live,
                 wild>>

\* Mutant: the record is not linked.
TlspReplacedUnrecorded(t) ==
  /\ pc[t] = "start" /\ tlspLock = None
  /\ t \notin record
  /\ teb' = [teb EXCEPT ![t] = "mmp"]
  /\ slot' = [slot EXCEPT ![t] = Empty]
  /\ pc' = [pc EXCEPT ![t] = "list"]
  /\ UNCHANGED <<record, seen, filled, postponed, old, starts, moduleVars, lockVars, count, live,
                 wild>>

\* The critical section of MmpTlspLock: a zeroed vector replaces ntdll's.
TlspReplaced(t) ==
  /\ pc[t] = "start" /\ tlspLock = None
  /\ t \notin record
  /\ record' = record \cup {t}
  /\ teb' = [teb EXCEPT ![t] = "mmp"]
  /\ slot' = [slot EXCEPT ![t] = Empty]
  /\ pc' = [pc EXCEPT ![t] = "list"]
  /\ UNCHANGED <<seen, filled, postponed, old, starts, moduleVars, lockVars, count, live, wild>>

\* RtlAcquireSRWLockShared.
ListShared(t) ==
  /\ pc[t] = "list"
  /\ pc' = [pc EXCEPT ![t] = "fill"]
  /\ sharers' = sharers \cup {t}
  /\ UNCHANGED <<teb, slot, record, seen, filled, postponed, old, starts, moduleVars, loaderLock,
                 tlspLock, count, live, wild>>

\* One entry of MmpTlsList: a copy of the module's raw data goes into the vector.
EntryFilled(t, m) ==
  /\ pc[t] = "fill" /\ m \in tlsList \ filled[t]
  /\ m \notin ZeroLength /\ FreeBlocks > 0
  /\ \E b \in Fresh(1) :
       /\ live' = live \cup {b}
       /\ slot' = [slot EXCEPT ![t][index[m]] = b]
  /\ filled' = [filled EXCEPT ![t] = @ \cup {m}]
  /\ UNCHANGED <<pc, teb, record, seen, postponed, old, starts, moduleVars, lockVars,
                 count, wild>>

\* Mutant: the error path keeps the shared lock.
EntryFailedHoldingTheList(t, m) ==
  /\ pc[t] = "fill" /\ m \in tlsList \ filled[t]
  /\ m \in ZeroLength \/ "oom" \in Faults
  /\ filled' = [filled EXCEPT ![t] = {}]
  /\ Runs(t)
  /\ UNCHANGED <<teb, slot, record, seen, postponed, old, starts, moduleVars, sharers,
                 tlspLock, count, live, wild>>

\* No data for an entry, which is also what a directory without raw data gives:
\* the thread keeps its record and its vector but is not counted.
EntryFailed(t, m) ==
  /\ pc[t] = "fill" /\ m \in tlsList \ filled[t]
  /\ m \in ZeroLength \/ "oom" \in Faults
  /\ sharers' = sharers \ {t}
  /\ filled' = [filled EXCEPT ![t] = {}]
  /\ Runs(t)
  /\ UNCHANGED <<teb, slot, record, seen, postponed, old, starts, moduleVars,
                 tlspLock, count, live, wild>>

ListDone(t) ==
  /\ pc[t] = "fill" /\ tlsList \subseteq filled[t]
  /\ sharers' = sharers \ {t}
  /\ filled' = [filled EXCEPT ![t] = {}]
  /\ pc' = [pc EXCEPT ![t] = "count"]
  /\ UNCHANGED <<teb, slot, record, seen, postponed, old, starts, moduleVars,
                 loaderLock, tlspLock, count, live, wild>>

\* InterlockedIncrement, under the loader lock but outside MmpTlspLock.
Counted(t) ==
  /\ pc[t] = "count"
  /\ count' = count + 1
  /\ Runs(t)
  /\ UNCHANGED <<teb, slot, record, seen, filled, postponed, old, starts, moduleVars,
                 tlspLock, sharers, live, wild>>

-----------------------------------------------------------------------------
(* A thread exits.                                                         *)

\* Mutant: the record stays linked.
ShutdownWithoutUnlink(t) ==
  /\ pc[t] = "run" /\ t # Main /\ MayExit
  /\ tlspLock = None
  /\ tlspLock' = t
  /\ IF t \in record
     THEN pc' = [pc EXCEPT ![t] = "dec"] /\ seen' = [seen EXCEPT ![t] = count]
     ELSE pc' = [pc EXCEPT ![t] = "checkPlain"] /\ UNCHANGED seen
  /\ UNCHANGED <<teb, slot, record, filled, postponed, old, starts, moduleVars, loaderLock, sharers,
                 count, live, wild>>

\* Mutant: the count goes down for a thread without a record, too.
ShutdownCountsEveryThread(t) ==
  /\ pc[t] = "run" /\ t # Main /\ MayExit
  /\ tlspLock = None
  /\ tlspLock' = t
  /\ record' = record \ {t}
  /\ pc' = [pc EXCEPT ![t] = "dec"] /\ seen' = [seen EXCEPT ![t] = count]
  /\ UNCHANGED <<teb, slot, filled, postponed, old, starts, moduleVars, loaderLock, sharers,
                 count, live, wild>>

\* HookLdrShutdownThread takes MmpTlspLock and unlinks the record; the plain
\* decrement of the count is a read and, in the next step, a write.
HookLdrShutdownThread(t) ==
  /\ pc[t] = "run" /\ t # Main /\ MayExit
  /\ tlspLock = None
  /\ tlspLock' = t
  /\ record' = record \ {t}
  /\ IF t \in record
     THEN pc' = [pc EXCEPT ![t] = "dec"] /\ seen' = [seen EXCEPT ![t] = count]
     ELSE pc' = [pc EXCEPT ![t] = "checkPlain"] /\ UNCHANGED seen
  /\ UNCHANGED <<teb, slot, filled, postponed, old, starts, moduleVars, loaderLock, sharers,
                 count, live, wild>>

Uncounted(t) ==
  /\ pc[t] = "dec"
  /\ count' = seen[t] - 1
  /\ seen' = [seen EXCEPT ![t] = 0]
  /\ pc' = [pc EXCEPT ![t] = "check"]
  /\ UNCHANGED <<teb, slot, record, filled, postponed, old, starts, moduleVars, lockVars,
                 live, wild>>

\* The assertion, then LeaveCriticalSection.
TlspLeft(t) ==
  /\ pc[t] \in {"check", "checkPlain"}
  /\ tlspLock' = None
  /\ pc' = [pc EXCEPT ![t] = IF pc[t] = "check" THEN "queue" ELSE "orig"]
  /\ UNCHANGED <<teb, slot, record, seen, filled, postponed, old, starts, moduleVars, loaderLock,
                 sharers, count, live, wild>>

\* MmpQueuePostponedTls copies the vector and queues it with a thread handle.
MmpQueuePostponedTls(t) ==
  /\ pc[t] = "queue"
  /\ postponed' = postponed \cup {t}
  /\ old' = [old EXCEPT ![t] = slot[t]]
  /\ pc' = [pc EXCEPT ![t] = "orig"]
  /\ UNCHANGED <<teb, slot, record, seen, filled, starts, moduleVars, lockVars, count, live, wild>>

\* ntdll's LdrShutdownThread runs the detach callbacks, frees the vector that
\* the TEB points to, and the thread terminates.
OriginLdrShutdownThread(t) ==
  /\ pc[t] = "orig"
  /\ teb' = [teb EXCEPT ![t] = "null"]
  /\ slot' = [slot EXCEPT ![t] = Empty]
  /\ pc' = [pc EXCEPT ![t] = IF t \in postponed THEN "dead" ELSE "none"]
  /\ UNCHANGED <<record, seen, filled, postponed, old, starts, moduleVars, lockVars, count,
                 live, wild>>

\* TerminateThread, while the thread runs code of its own: no hook runs, the record stays.
\* A thread that is terminated inside a hook would keep the locks it holds; that is left out.
Killed(t) ==
  /\ "kill" \in Faults /\ pc[t] = "run" /\ t # Main /\ MayExit
  /\ teb' = [teb EXCEPT ![t] = "null"]
  /\ pc' = [pc EXCEPT ![t] = "none"]
  /\ UNCHANGED <<slot, record, seen, filled, postponed, old, starts, moduleVars, lockVars,
                 count, live, wild>>

\* Mutant: the exit code is not looked at, so the data goes while the thread runs.
ReleaseWithoutExitCode(t) ==
  /\ t \in postponed /\ sharers = {}
  /\ live' = live \ { old[t][index[m]] : m \in tlsList }
  /\ postponed' = postponed \ {t}
  /\ old' = [old EXCEPT ![t] = Empty]
  /\ pc' = [pc EXCEPT ![t] = IF pc[t] = "dead" THEN "none" ELSE pc[t]]
  /\ UNCHANGED <<teb, slot, record, seen, filled, starts, moduleVars, lockVars, count, wild>>

\* The worker of MmpTlsFiber.cpp meets a terminated thread in its list: it frees
\* the slots of the entries that are in MmpTlsList now, then the copy, and
\* closes the handle that kept the thread id taken.
ReleasePostponedTls(t) ==
  /\ pc[t] = "dead" /\ t \in postponed /\ sharers = {}
  /\ live' = live \ { old[t][index[m]] : m \in tlsList }
  /\ postponed' = postponed \ {t}
  /\ old' = [old EXCEPT ![t] = Empty]
  /\ pc' = [pc EXCEPT ![t] = "none"]
  /\ UNCHANGED <<teb, slot, record, seen, filled, starts, moduleVars, lockVars, count, wild>>

-----------------------------------------------------------------------------
(* MmpHandleTlsData, on the main thread, and MmpReleaseTlsEntry.           *)

\* Mutant: the index handed out is one below the bit that was set.
AcquireIndexBelowBit(m) ==
  /\ ~Loading /\ m \notin tlsList /\ loads < MaxLoads /\ MayLoad
  /\ loads' = loads + 1
  /\ Indices \ bitmap # {}
  /\ LET i == Lowest(Indices \ bitmap) IN
       /\ bitmap' = bitmap \cup {i}
       /\ ld' = [Idle EXCEPT !.pc = "insert", !.mod = m, !.idx = i - 1]
  /\ UNCHANGED <<threadVars, tlsList, index, loaded, stale, lockVars, count, live, wild>>

\* MmpAllocateTlsEntry up to the index: MmpAcquireTlsIndex takes the lowest
\* clear bit.
MmpAcquireTlsIndex(m) ==
  /\ ~Loading /\ m \notin tlsList /\ loads < MaxLoads /\ MayLoad
  /\ loads' = loads + 1
  /\ Indices \ bitmap # {}
  /\ LET i == Lowest(Indices \ bitmap) IN
       /\ bitmap' = bitmap \cup {i}
       /\ ld' = [Idle EXCEPT !.pc = "insert", !.mod = m, !.idx = i]
  /\ UNCHANGED <<threadVars, tlsList, index, loaded, stale, lockVars, count, live, wild>>

\* No index, or no memory for the entry: STATUS_INSUFFICIENT_RESOURCES.
TlsEntryRefused(m) ==
  /\ ~Loading /\ m \notin tlsList /\ loads < MaxLoads /\ MayLoad
  /\ Indices \subseteq bitmap \/ "oom" \in Faults
  /\ loads' = loads + 1
  /\ UNCHANGED <<threadVars, tlsList, index, bitmap, ld, loaded, stale, lockVars, count, live,
                 wild>>

\* The rest of MmpAllocateTlsEntry, under MmpTlsListLock.
MmpAllocateTlsEntry ==
  /\ ld.pc = "insert" /\ sharers = {}
  /\ tlsList' = tlsList \cup {ld.mod}
  /\ index' = [index EXCEPT ![ld.mod] = ld.idx]
  /\ ld' = [ld EXCEPT !.pc = "alloc"]
  /\ UNCHANGED <<threadVars, bitmap, loaded, loads, stale, lockVars, count, live, wild>>

\* MmpActiveThreadCount is read without a lock; one block is allocated for each
\* thread that it counts.
ThreadDataAllocated ==
  /\ ld.pc = "alloc" /\ count > 0 /\ count <= FreeBlocks
  /\ live' = live \cup Fresh(count)
  /\ ld' = [ld EXCEPT !.pc = "kernel", !.data = Fresh(count)]
  /\ UNCHANGED <<threadVars, tlsList, index, bitmap, loaded, loads, stale, lockVars, count, wild>>

\* No memory.  A count of zero (or below, as a DWORD) asks for an array of
\* nearly 2^32 elements, which no heap grants.
ThreadDataRefused ==
  /\ ld.pc = "alloc"
  /\ count <= 0 \/ "oom" \in Faults
  /\ ld' = [ld EXCEPT !.pc = "undo", !.ok = FALSE]
  /\ UNCHANGED <<threadVars, tlsList, index, bitmap, loaded, loads, stale, lockVars, count, live,
                 wild>>

\* The body of MmpReleaseTlsEntry, under MmpTlsListLock.
ReleaseEntry(m) ==
  /\ sharers = {}
  /\ tlsList' = tlsList \ {m}
  /\ bitmap' = bitmap \ {index[m]}
  /\ index' = [index EXCEPT ![m] = None]

\* Mutant: the failing call forgets MmpReleaseTlsEntry.
UndoNothing ==
  /\ ld.pc = "undo"
  /\ ld' = Idle
  /\ UNCHANGED <<threadVars, tlsList, index, bitmap, loaded, loads, stale, lockVars, count, live,
                 wild>>

UndoTlsEntry ==
  /\ ld.pc = "undo"
  /\ ReleaseEntry(ld.mod)
  /\ ld' = Idle
  /\ UNCHANGED <<threadVars, loaded, loads, stale, lockVars, count, live, wild>>

\* ProcessTlsReplaceIndex in the kernel: each thread that has a vector swaps the
\* pointer at the index for one of ThreadData, until one of the two runs out.
\* A thread that still has ntdll's short vector is written behind its end.
Holders == { t \in Threads : teb[t] # "null" }

KernelReplacesIndex ==
  /\ ld.pc = "kernel"
  /\ \E K \in SUBSET Holders :
       /\ K = Holders \/ Cardinality(K) = Cardinality(ld.data)
       /\ Cardinality(K) <= Cardinality(ld.data)
       /\ \E f \in Injections(K, ld.data) :
            /\ slot' = [t \in Threads |->
                          IF t \in K /\ teb[t] = "mmp"
                          THEN [slot[t] EXCEPT ![ld.idx] = f[t]] ELSE slot[t]]
            /\ ld' = [ld EXCEPT !.pc = "map", !.new = f,
                        !.was = [t \in K |-> IF teb[t] = "mmp" THEN slot[t][ld.idx] ELSE None]]
       /\ wild' = (wild \/ \E t \in K : teb[t] = "ldr")
  /\ UNCHANGED <<pc, teb, record, seen, filled, postponed, old, starts, tlsList, index, bitmap,
                 loaded, loads, stale, lockVars, count, live>>

\* The system call fails: no entry is marked, no pointer changes hands.
KernelRefuses ==
  /\ ld.pc = "kernel" /\ "kernel" \in Faults
  /\ ld' = [ld EXCEPT !.pc = "free", !.toFree = ld.data, !.data = {},
                      !.missing = Cardinality(ld.data), !.ok = FALSE]
  /\ stale' = stale \cup {ld.mod}
  /\ UNCHANGED <<threadVars, tlsList, index, bitmap, loaded, loads, lockVars, count, live, wild>>

\* The end of HookNtSetInformationProcess, under MmpTlspLock: the pointer that
\* the caller will free becomes the one that was swapped out when the record of
\* the thread is found by the data just installed, and stays the new one if not.
\* Only the calls of MmpHandleTlsData are modelled.  ntdll comes through the same hook
\* with indices and vectors of its own; that changes the lower part of a vector and
\* TlspLdrBlock (lines 450-475 and 506-523), which this model does not have.
Recorded(t) == \E j \in record : slot[j][ld.idx] = ld.new[t]

\* Mutant: the pointer that was swapped out is never handed back.
ReturnedNew == ld.data

Returned ==
  { IF Recorded(t) THEN ld.was[t] ELSE ld.new[t] : t \in DOMAIN ld.new }
  \cup (ld.data \ { ld.new[t] : t \in DOMAIN ld.new })

HookNtSetInformationProcess ==
  /\ ld.pc = "map" /\ tlspLock = None
  /\ ld' = [ld EXCEPT !.pc = "free", !.toFree = Returned \ {None}, !.data = {},
                      !.new = NoThreads, !.was = NoThreads,
                      !.missing = Cardinality(ld.data) - Cardinality(DOMAIN ld.new)]
  /\ UNCHANGED <<threadVars, tlsList, index, bitmap, loaded, loads, stale, lockVars, count, live,
                 wild>>

Finished == /\ loaded' = IF ld.ok THEN loaded \cup {ld.mod} ELSE loaded
            /\ ld' = Idle

\* Every returned pointer is freed; entries without Flags are threads missing.
ThreadDataFreed ==
  /\ ld.pc = "free"
  /\ live' = live \ ld.toFree
  /\ IF ld.missing = 0 THEN Finished
     ELSE ld' = [ld EXCEPT !.pc = "correct", !.toFree = {}] /\ UNCHANGED loaded
  /\ UNCHANGED <<threadVars, tlsList, index, bitmap, loads, stale, lockVars, count, wild>>

\* MmpActiveThreadCount -= ThreadCount, under MmpTlspLock, as a read ...
CountRead ==
  /\ ld.pc = "correct" /\ tlspLock = None
  /\ tlspLock' = Main
  /\ ld' = [ld EXCEPT !.pc = "subtract", !.seen = count]
  /\ UNCHANGED <<threadVars, tlsList, index, bitmap, loaded, loads, stale, loaderLock, sharers,
                 count,
                 live, wild>>

\* ... and a write;
CountCorrected ==
  /\ ld.pc = "subtract"
  /\ count' = ld.seen - ld.missing
  /\ ld' = [ld EXCEPT !.pc = "assert"]
  /\ UNCHANGED <<threadVars, tlsList, index, bitmap, loaded, loads, stale, lockVars, live, wild>>

\* then the assertion and LeaveCriticalSection.
CorrectionLeft ==
  /\ ld.pc = "assert"
  /\ tlspLock' = None
  /\ Finished
  /\ UNCHANGED <<threadVars, tlsList, index, bitmap, loads, stale, loaderLock, sharers, count,
                 live, wild>>

MmpReleaseTlsEntry(m) ==
  /\ ~Loading /\ m \in loaded
  /\ ReleaseEntry(m)
  /\ loaded' = loaded \ {m}
  /\ UNCHANGED <<threadVars, ld, loads, stale, lockVars, count, live, wild>>

-----------------------------------------------------------------------------
\* MmpTlsInitialize found the initial threads and gave each its vector and record.
Init ==
  /\ pc = [t \in Threads |-> IF t \in Initial THEN "run" ELSE "none"]
  /\ teb = [t \in Threads |-> IF t \in Initial THEN "mmp" ELSE "null"]
  /\ slot = [t \in Threads |-> Empty]
  /\ record = Initial
  /\ seen = [t \in Threads |-> 0]
  /\ filled = [t \in Threads |-> {}]
  /\ tlsList = {}
  /\ index = [m \in Modules |-> None]
  /\ bitmap = {}
  /\ count = Cardinality(Initial)
  /\ live = {}
  /\ postponed = {}
  /\ old = [t \in Threads |-> Empty]
  /\ loaderLock = None /\ tlspLock = None /\ sharers = {}
  /\ ld = Idle
  /\ loaded = {}
  /\ stale = {}
  /\ wild = FALSE
  /\ starts = 0 /\ loads = 0

StartStep(t) ==
  \/ MmpUserThreadStart(t) \/ TlspRecordFound(t) \/ TlspAllocationFailed(t)
  \/ TlspReplaced(t) \/ ListShared(t) \/ ListDone(t) \/ Counted(t)
  \/ \E m \in Modules : EntryFilled(t, m) \/ EntryFailed(t, m)

ExitStep(t) ==
  \/ Uncounted(t) \/ TlspLeft(t) \/ MmpQueuePostponedTls(t) \/ OriginLdrShutdownThread(t)

LoadStep ==
  \/ MmpAllocateTlsEntry \/ ThreadDataAllocated \/ ThreadDataRefused \/ UndoTlsEntry
  \/ KernelReplacesIndex \/ KernelRefuses \/ HookNtSetInformationProcess \/ ThreadDataFreed
  \/ CountRead \/ CountCorrected \/ CorrectionLeft

Next ==
  \/ \E t \in Threads : \/ NtdllStartsThread(t) \/ StartStep(t)
                        \/ HookLdrShutdownThread(t) \/ ExitStep(t) \/ Killed(t)
                        \/ ReleasePostponedTls(t)
  \/ \E m \in Modules : \/ MmpAcquireTlsIndex(m) \/ TlsEntryRefused(m) \/ MmpReleaseTlsEntry(m)
  \/ LoadStep

Spec == Init /\ [][Next]_vars

\* The operating system keeps running every thread: no step that a thread can
\* take, once for good, is put off for ever.
Fairness ==
  /\ \A t \in Threads : WF_vars(StartStep(t)) /\ WF_vars(ExitStep(t))
  /\ WF_vars(LoadStep)

FairSpec == Spec /\ Fairness

-----------------------------------------------------------------------------
PartialMaps(S) == UNION { [K -> S] : K \in SUBSET Threads }

LoaderState ==
  [pc : LoaderPc, mod : Modules \cup {None}, idx : Indices \cup {None}, data : SUBSET Blocks,
   new : PartialMaps(Blocks), was : PartialMaps(Pointer), toFree : SUBSET Blocks,
   missing : Int, seen : Int, ok : BOOLEAN]

TypeOK ==
  /\ pc \in [Threads -> ThreadPc]
  /\ teb \in [Threads -> {"null", "ldr", "mmp"}]
  /\ slot \in [Threads -> [Indices -> Pointer]]
  /\ record \subseteq Threads
  /\ seen \in [Threads -> Int]
  /\ filled \in [Threads -> SUBSET Modules]
  /\ tlsList \subseteq Modules
  /\ index \in [Modules -> Indices \cup {None}]
  /\ bitmap \subseteq Indices
  /\ count \in Int
  /\ live \subseteq Blocks
  /\ postponed \subseteq Threads
  /\ old \in [Threads -> [Indices -> Pointer]]
  /\ loaderLock \in Threads \cup {None} /\ tlspLock \in Threads \cup {None}
  /\ sharers \subseteq Threads
  /\ ld \in LoaderState
  /\ loaded \subseteq Modules /\ stale \subseteq Modules
  /\ wild \in BOOLEAN
  /\ starts \in 0 .. MaxStarts /\ loads \in 0 .. MaxLoads

\* assert(p->TlspMmpBlock == teb->ThreadLocalStoragePointer) at MmpTls.cpp:118:
\* whenever a thread looks up its record, its TEB still points to the vector
\* that the record names, whatever other threads are doing.
RecordMatchesTeb ==
  \A t \in record : pc[t] \in {"start", "run"} => teb[t] = "mmp"

\* assert(ThreadLocalStoragePointer == nullptr) at MmpTls.cpp:320: a thread that
\* exits without a record has no vector that a module's data could be in.
UnrecordedHasNoVector ==
  \A t \in Threads : pc[t] = "checkPlain" /\ tlsList # {} => teb[t] = "null"

\* Each running thread reaches its own copy of the data of each loaded module,
\* through allocated memory, from the moment its own code runs until ntdll has
\* shut it down (MmpTls.cpp:183-208, 484-541 and 722-729).
EveryThreadHasItsData ==
  \A t \in Threads : teb[t] = "mmp" /\ pc[t] \in {"run"} \cup ExitPc =>
    \A m \in loaded : slot[t][index[m]] \in live

\* The vector that somebody will free the data of: the thread's own until it is
\* queued, the copy in the postponed list from then on.
Owned(t) == IF t \in postponed THEN old[t] ELSE slot[t]

\* No block has two owners, and none that a vector or the loading thread will
\* free is free already: nothing is freed twice, by HandleTls, by the swap that
\* returns stale data or by the worker (MmpTls.cpp:728, MmpTlsFiber.cpp:49).
DataOwnedOnce ==
  /\ \A t, u \in Threads, i, j \in Indices :
       Owned(t)[i] # None /\ Owned(t)[i] = Owned(u)[j] => t = u /\ i = j
  /\ \A t \in Threads, m \in tlsList :
       index[m] # ld.idx => Owned(t)[index[m]] \in live \cup {None}
  /\ ld.toFree \subseteq live
  /\ \A t \in Threads, i \in Indices : Owned(t)[i] \notin ld.toFree

\* Between operations the count is the number of threads with a vector of ours:
\* it is what the next load allocates for (MmpTls.cpp:217, 304, 673 and 733).
CountIsExact ==
  ~Starting /\ ~Exiting /\ ~Loading =>
    count = Cardinality({ t \in Threads : pc[t] = "run" /\ teb[t] = "mmp" })

\* An index is taken exactly while one listed module, or the one being loaded,
\* uses it, and a module without a successful load keeps an entry only when the
\* kernel refused the data, on every path through failure and undo, when another
\* module wants the index next and when none is left
\* (MmpTls.cpp:555-604, 633, 678 and 711).
IndexBelongsToOneModule ==
  /\ bitmap = { index[m] : m \in tlsList } \cup ({ld.idx} \ {None})
  /\ \A m, n \in tlsList : index[m] = index[n] => m = n
  /\ tlsList \subseteq loaded \cup stale \cup {ld.mod}

\* Neither a start nor a load ever swaps a pointer into ntdll's own vector.
NtdllVectorUntouched == ~wild

\* assert(0 < (int)MmpActiveThreadCount) at MmpTls.cpp:307.
ShutdownCountPositive ==
  \A t \in Threads : pc[t] \in {"check", "checkPlain"} => 0 < count

\* assert(MmpActiveThreadCount > 0) at MmpTls.cpp:734.
CorrectedCountPositive == ld.pc = "assert" => count > 0

\* A thread that was started gets to its own code, although another start, an exit and a
\* load contend for the same locks: the loader lock and MmpTlspLock are given back by a
\* start that is registered, one that finds a record of its id and one for which memory
\* fails at any point, and by an exit (MmpTls.cpp:139-215, 238-246 and 301-309).
StartsFinish == \A t \in Threads \ {Main} : pc[t] = "born" ~> pc[t] = "run"

\* A loading call returns: the locks it takes come free while threads start, fail
\* to start and exit (MmpTls.cpp:615, 627, 496 and 732).
LoadsFinish  == Loading ~> ~Loading
=============================================================================
