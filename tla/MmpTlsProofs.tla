---------------------------- MODULE MmpTlsProofs ----------------------------
(***************************************************************************)
(* Proofs about MmpTls for every number of threads, modules, indices and   *)
(* heap blocks.  Whatever overlaps and fails: type correctness and the     *)
(* bookkeeping of TLS indices.  When no thread is killed: the assertion of *)
(* MmpFindTlspRecordLockHeld, and with memory enough that of               *)
(* HookLdrShutdownThread and, with no start during a load, that no vector  *)
(* of ntdll's is written to.  When the host keeps loads, starts and exits  *)
(* apart and nothing fails (Quiet): the thread count is exact, each thread *)
(* has its data, and no block of it has two owners or is freed too early.  *)
(***************************************************************************)
EXTENDS MmpTls, TLAPS, FiniteSetTheorems, WellFoundedInduction

\* A non-empty set of numbers has a least element, so MmpAcquireTlsIndex finds
\* its bit.
LEMMA LowestInSet ==
  ASSUME NEW S, S \subseteq Nat, S # {}
  PROVE  Lowest(S) \in S /\ \A y \in S : Lowest(S) <= y
<1> DEFINE Less == { p \in Nat \X Nat : p[1] < p[2] }
<1>1. IsWellFoundedOn(Less, Nat)
  BY Zenon, NatLessThanWellFounded DEF OpToRel
<1> HIDE DEF Less
<1>2. PICK x \in S : \A y \in S : <<y, x>> \notin Less
  BY <1>1, WFMin
<1>3. ASSUME NEW y \in S PROVE x <= y
  <2>1. x \in Nat /\ y \in Nat /\ <<y, x>> \notin Less
    BY <1>2
  <2>2. y < x => <<y, x>> \in Less
    BY <2>1 DEF Less
  <2> QED BY <2>1, <2>2
<1> QED BY <1>3 DEF Lowest

\* Fresh blocks are blocks, and their number is a number.
LEMMA FreshBlocks ==
  ASSUME NEW n
  PROVE  Fresh(n) \subseteq Blocks
BY DEF Fresh

\* Any blocks, and any threads, are finitely many.
LEMMA BlockCount ==
  ASSUME NEW S \in SUBSET Blocks
  PROVE  IsFiniteSet(S) /\ Cardinality(S) \in Nat
BY FiniteAssumption, FS_Subset, FS_CardinalityType

LEMMA ThreadCount ==
  ASSUME NEW S \in SUBSET Threads
  PROVE  IsFiniteSet(S) /\ Cardinality(S) \in Nat
BY FiniteAssumption, FS_Subset, FS_CardinalityType

-----------------------------------------------------------------------------
(* The inductive invariant.  TypeOK alone is not inductive: a loading call  *)
(* must be known to have an index before it can be used as one, and the two *)
(* halves of what the kernel reported to speak of the same threads.         *)

LocalsInv ==
  /\ ld.pc = "idle" => ld.mod = None /\ ld.idx = None
  /\ ld.pc # "idle" => ld.mod \in Modules /\ ld.idx \in Indices
  /\ DOMAIN ld.was = DOMAIN ld.new

\* A module is in the list exactly from the step that inserts it to the one that
\* releases it; a call that failed has undone its entry, unless it is stale.
ListInv ==
  /\ loaded \subseteq tlsList /\ stale \subseteq tlsList /\ loaded \cap stale = {}
  /\ ld.mod \notin loaded /\ (ld.mod \in stale => ~ld.ok)
  /\ ld.pc = "insert" => ld.mod \notin tlsList
  /\ ld.pc \in LoaderPc \ {"idle", "insert"} => ld.mod \in tlsList
  /\ ld.pc \in {"insert", "alloc", "kernel", "map"} => ld.ok
  /\ ld.pc = "undo" => ld.mod \notin stale
  /\ ld.pc \in {"free", "correct", "subtract", "assert"} => ld.ok \/ ld.mod \in stale

\* The bit of an index is set while the index is being handed out, and an index
\* that is being handed out is no listed module's.
IndexInv ==
  /\ IndexBelongsToOneModule
  /\ \A m \in tlsList : index[m] \in Indices
  /\ ld.pc = "insert" => \A m \in tlsList : index[m] # ld.idx
  /\ ld.pc \in LoaderPc \ {"idle", "insert"} => index[ld.mod] = ld.idx

IInv == TypeOK /\ LocalsInv /\ ListInv /\ IndexInv

-----------------------------------------------------------------------------
(* Types.                                                                  *)

\* The state that MmpTlsInitialize leaves is typed.
LEMMA InitTyped == Init => TypeOK
<1> SUFFICES ASSUME Init PROVE TypeOK
  OBVIOUS
<1> USE DEF Init
<1>1. count \in Int
  BY ThreadsAssumption, ThreadCount
<1>2. ld \in LoaderState
  <2>1. NoThreads \in PartialMaps(Blocks) /\ NoThreads \in PartialMaps(Pointer)
    BY DEF NoThreads, PartialMaps
  <2> QED BY <2>1 DEF LoaderState, Idle, LoaderPc
<1>3. slot \in [Threads -> [Indices -> Pointer]] /\ old \in [Threads -> [Indices -> Pointer]]
  BY DEF Empty, Pointer
<1>4. starts \in 0 .. MaxStarts /\ loads \in 0 .. MaxLoads
  BY BoundsAssumption
<1>5. pc \in [Threads -> ThreadPc] /\ teb \in [Threads -> {"null", "ldr", "mmp"}]
  BY DEF ThreadPc
<1>6. record \subseteq Threads /\ seen \in [Threads -> Int]
      /\ filled \in [Threads -> SUBSET Modules]
  BY ThreadsAssumption
<1>7. index \in [Modules -> Indices \cup {None}]
  OBVIOUS
<1> QED BY <1>1, <1>2, <1>3, <1>4, <1>5, <1>6, <1>7 DEF TypeOK

\* The steps of a starting thread.
LEMMA StartTyped ==
  ASSUME TypeOK, NEW t \in Threads, NtdllStartsThread(t) \/ StartStep(t)
  PROVE  TypeOK'
<1> USE DEF TypeOK, ThreadPc, StartPc, ExitPc, Runs, moduleVars, lockVars
<1>1. CASE NtdllStartsThread(t)
  BY <1>1, BoundsAssumption DEF NtdllStartsThread
<1>2. CASE MmpUserThreadStart(t)
  BY <1>2 DEF MmpUserThreadStart
<1>3. CASE TlspRecordFound(t)
  BY <1>3 DEF TlspRecordFound
<1>4. CASE TlspAllocationFailed(t)
  BY <1>4 DEF TlspAllocationFailed
<1>5. CASE TlspReplaced(t)
  BY <1>5 DEF TlspReplaced, Empty, Pointer
<1>6. CASE ListShared(t)
  BY <1>6 DEF ListShared
<1>7. CASE ListDone(t)
  BY <1>7 DEF ListDone
<1>8. CASE Counted(t)
  BY <1>8 DEF Counted
<1>9. ASSUME NEW m \in Modules, EntryFilled(t, m) PROVE TypeOK'
  <2>1. PICK b \in Fresh(1) : live' = live \cup {b} /\ slot' = [slot EXCEPT ![t][index[m]] = b]
    BY <1>9 DEF EntryFilled
  <2>2. b \in Blocks
    BY <2>1, FreshBlocks
  <2>3. slot' \in [Threads -> [Indices -> Pointer]]
    BY <2>1, <2>2 DEF Pointer
  <2> QED BY <1>9, <2>1, <2>2, <2>3 DEF EntryFilled
<1>10. ASSUME NEW m \in Modules, EntryFailed(t, m) PROVE TypeOK'
  BY <1>10 DEF EntryFailed
<1> QED BY <1>1, <1>2, <1>3, <1>4, <1>5, <1>6, <1>7, <1>8, <1>9, <1>10 DEF StartStep

\* The steps of an exiting thread, of termination and of the worker.
LEMMA ExitTyped ==
  ASSUME TypeOK, NEW t \in Threads,
         HookLdrShutdownThread(t) \/ ExitStep(t) \/ Killed(t) \/ ReleasePostponedTls(t)
  PROVE  TypeOK'
<1> USE DEF TypeOK, ThreadPc, StartPc, ExitPc, moduleVars, lockVars
<1>1. CASE HookLdrShutdownThread(t)
  BY <1>1 DEF HookLdrShutdownThread
<1>2. CASE Uncounted(t)
  BY <1>2 DEF Uncounted
<1>3. CASE TlspLeft(t)
  BY <1>3 DEF TlspLeft
<1>4. CASE MmpQueuePostponedTls(t)
  BY <1>4 DEF MmpQueuePostponedTls
<1>5. CASE OriginLdrShutdownThread(t)
  BY <1>5 DEF OriginLdrShutdownThread, Empty, Pointer
<1>6. CASE Killed(t)
  BY <1>6 DEF Killed
<1>7. CASE ReleasePostponedTls(t)
  BY <1>7 DEF ReleasePostponedTls, Empty, Pointer
<1> QED BY <1>1, <1>2, <1>3, <1>4, <1>5, <1>6, <1>7 DEF ExitStep

\* What the loading thread keeps in its locals stays typed.
LEMMA IdleTyped == Idle \in LoaderState
<1>1. NoThreads \in PartialMaps(Blocks) /\ NoThreads \in PartialMaps(Pointer)
  BY DEF NoThreads, PartialMaps
<1> QED BY <1>1 DEF Idle, LoaderState, LoaderPc

\* What the kernel swaps out of the vectors of the threads K are pointers.
LEMMA SwappedTyped ==
  ASSUME TypeOK, LocalsInv, ld.pc = "kernel", NEW K \in SUBSET Threads
  PROVE  [t \in K |-> IF teb[t] = "mmp" THEN slot[t][ld.idx] ELSE None] \in PartialMaps(Pointer)
<1>1. \A t \in K : slot[t][ld.idx] \in Pointer
  BY DEF TypeOK, LocalsInv
<1>2. [t \in K |-> IF teb[t] = "mmp" THEN slot[t][ld.idx] ELSE None] \in [K -> Pointer]
  BY <1>1 DEF Pointer
<1> QED BY <1>2 DEF PartialMaps

\* The pointers that the hook hands back to be freed are blocks or null.
LEMMA ReturnedTyped ==
  ASSUME TypeOK, LocalsInv
  PROVE  Returned \subseteq Pointer /\ DOMAIN ld.new \subseteq Threads
<1>1. PICK K : K \in SUBSET Threads /\ ld.new \in [K -> Blocks]
  BY DEF TypeOK, LoaderState, PartialMaps
<1>2. PICK L : L \in SUBSET Threads /\ ld.was \in [L -> Pointer]
  BY DEF TypeOK, LoaderState, PartialMaps
<1>3. K = DOMAIN ld.new /\ L = K
  BY <1>1, <1>2 DEF LocalsInv
<1>4. ld.data \subseteq Blocks
  BY DEF TypeOK, LoaderState
<1> QED BY <1>1, <1>2, <1>3, <1>4 DEF Returned, Pointer

\* Every step of a load leaves its locals typed.
LEMMA LocalsTyped ==
  ASSUME TypeOK, LocalsInv, LoadStep
  PROVE  ld' \in LoaderState
<1>0. ld \in LoaderState
  BY DEF TypeOK
<1> USE DEF LoaderState, LoaderPc
<1>1. CASE MmpAllocateTlsEntry
  BY <1>0, <1>1 DEF MmpAllocateTlsEntry
<1>2. CASE ThreadDataAllocated
  BY <1>0, <1>2, FreshBlocks DEF ThreadDataAllocated
<1>3. CASE ThreadDataRefused
  BY <1>0, <1>3 DEF ThreadDataRefused
<1>4. CASE UndoTlsEntry
  BY <1>4, IdleTyped DEF UndoTlsEntry
<1>5. CASE KernelReplacesIndex
  <2>1. PICK K \in SUBSET Holders : \E f \in Injections(K, ld.data) :
          ld' = [ld EXCEPT !.pc = "map", !.new = f,
                   !.was = [t \in K |-> IF teb[t] = "mmp" THEN slot[t][ld.idx] ELSE None]]
    BY <1>5 DEF KernelReplacesIndex
  <2>2. PICK f \in Injections(K, ld.data) :
          ld' = [ld EXCEPT !.pc = "map", !.new = f,
                   !.was = [t \in K |-> IF teb[t] = "mmp" THEN slot[t][ld.idx] ELSE None]]
    BY <2>1
  <2>3. K \subseteq Threads /\ f \in [K -> Blocks]
    BY <1>0, <2>2 DEF Holders, Injections
  <2>4. f \in PartialMaps(Blocks)
    BY <2>3 DEF PartialMaps
  <2>5. [t \in K |-> IF teb[t] = "mmp" THEN slot[t][ld.idx] ELSE None] \in PartialMaps(Pointer)
    BY <1>5, <2>3, SwappedTyped DEF KernelReplacesIndex
  <2> QED BY <1>0, <2>2, <2>4, <2>5
<1>6. CASE KernelRefuses
  <2>1. Cardinality(ld.data) \in Int
    BY <1>0, BlockCount
  <2> QED BY <1>0, <1>6, <2>1 DEF KernelRefuses
<1>7. CASE HookNtSetInformationProcess
  <2>1. Returned \ {None} \subseteq Blocks
    BY ReturnedTyped DEF Pointer
  <2>2. Cardinality(ld.data) - Cardinality(DOMAIN ld.new) \in Int
    BY <1>0, BlockCount, ThreadCount, ReturnedTyped
  <2>3. NoThreads \in PartialMaps(Blocks) /\ NoThreads \in PartialMaps(Pointer)
    BY DEF NoThreads, PartialMaps
  <2> QED BY <1>0, <1>7, <2>1, <2>2, <2>3 DEF HookNtSetInformationProcess
<1>8. CASE ThreadDataFreed
  <2>1. ld' = Idle \/ ld' = [ld EXCEPT !.pc = "correct", !.toFree = {}]
    BY <1>8 DEF ThreadDataFreed, Finished
  <2>2. [ld EXCEPT !.pc = "correct", !.toFree = {}] \in LoaderState
    BY <1>0
  <2> QED BY <2>1, <2>2, IdleTyped
<1>9. CASE CountRead
  BY <1>0, <1>9 DEF CountRead, TypeOK
<1>10. CASE CountCorrected
  BY <1>0, <1>10 DEF CountCorrected
<1>11. CASE CorrectionLeft
  BY <1>11, IdleTyped DEF CorrectionLeft, Finished
<1> QED BY <1>1, <1>2, <1>3, <1>4, <1>5, <1>6, <1>7, <1>8, <1>9, <1>10, <1>11 DEF LoadStep

\* The rest of the state stays typed, too.
LEMMA LoadTyped ==
  ASSUME TypeOK, LocalsInv, LoadStep
  PROVE  TypeOK'
<1>0. ld' \in LoaderState
  BY LocalsTyped
<1>1. ld.mod \in Modules \cup {None} /\ ld.idx \in Indices \cup {None}
      /\ ld.pc \in LoaderPc /\ ld.data \in SUBSET Blocks /\ ld.missing \in Int /\ ld.seen \in Int
  BY DEF TypeOK, LoaderState
<1>2. ld.pc # "idle" => ld.mod \in Modules /\ ld.idx \in Indices
  BY DEF LocalsInv
<1> USE <1>0 DEF TypeOK, threadVars, lockVars
<1>3. CASE MmpAllocateTlsEntry
  BY <1>3, <1>2 DEF MmpAllocateTlsEntry
<1>4. CASE ThreadDataAllocated
  BY <1>4, FreshBlocks DEF ThreadDataAllocated
<1>5. CASE ThreadDataRefused
  BY <1>5 DEF ThreadDataRefused
<1>6. CASE UndoTlsEntry
  BY <1>6 DEF UndoTlsEntry, ReleaseEntry
<1>7. CASE KernelReplacesIndex
  <2>1. PICK K \in SUBSET Holders : \E f \in Injections(K, ld.data) :
          slot' = [t \in Threads |-> IF t \in K /\ teb[t] = "mmp"
                                     THEN [slot[t] EXCEPT ![ld.idx] = f[t]] ELSE slot[t]]
    BY <1>7 DEF KernelReplacesIndex
  <2>2. PICK f \in Injections(K, ld.data) :
          slot' = [t \in Threads |-> IF t \in K /\ teb[t] = "mmp"
                                     THEN [slot[t] EXCEPT ![ld.idx] = f[t]] ELSE slot[t]]
    BY <2>1
  <2>3. \A t \in K : f[t] \in Pointer
    BY <1>1, <2>2 DEF Injections, Pointer
  <2>4. slot' \in [Threads -> [Indices -> Pointer]]
    BY <2>2, <2>3
  <2> QED BY <1>7, <2>4 DEF KernelReplacesIndex
<1>8. CASE KernelRefuses
  BY <1>8, <1>2 DEF KernelRefuses
<1>9. CASE HookNtSetInformationProcess
  BY <1>9 DEF HookNtSetInformationProcess
<1>10. CASE ThreadDataFreed
  BY <1>10, <1>2 DEF ThreadDataFreed, Finished
<1>11. CASE CountRead
  BY <1>11, ThreadsAssumption DEF CountRead
<1>12. CASE CountCorrected
  BY <1>12, <1>1 DEF CountCorrected
<1>13. CASE CorrectionLeft
  BY <1>13, <1>2 DEF CorrectionLeft, Finished
<1> QED BY <1>3, <1>4, <1>5, <1>6, <1>7, <1>8, <1>9, <1>10, <1>11, <1>12, <1>13 DEF LoadStep

\* The calls that begin or end outside MmpHandleTlsData's steps.
LEMMA CallTyped ==
  ASSUME TypeOK, NEW m \in Modules,
         MmpAcquireTlsIndex(m) \/ TlsEntryRefused(m) \/ MmpReleaseTlsEntry(m)
  PROVE  TypeOK'
<1> USE DEF TypeOK, threadVars, lockVars
<1>1. CASE MmpAcquireTlsIndex(m)
  <2>1. Lowest(Indices \ bitmap) \in Indices
    <3>1. Indices \ bitmap # {} /\ Indices \ bitmap \subseteq Nat
      BY <1>1, NumbersAssumption DEF MmpAcquireTlsIndex
    <3>2. Lowest(Indices \ bitmap) \in Indices \ bitmap
      BY <3>1, LowestInSet
    <3> QED BY <3>2
  <2>2. ld' = [Idle EXCEPT !.pc = "insert", !.mod = m, !.idx = Lowest(Indices \ bitmap)]
    BY <1>1 DEF MmpAcquireTlsIndex
  <2>4. ld' \in LoaderState
    BY <2>1, <2>2, IdleTyped DEF LoaderState, LoaderPc
  <2>3. loads' \in 0 .. MaxLoads
    BY <1>1, BoundsAssumption DEF MmpAcquireTlsIndex
  <2> QED BY <1>1, <2>1, <2>4, <2>3 DEF MmpAcquireTlsIndex
<1>2. CASE TlsEntryRefused(m)
  BY <1>2, BoundsAssumption DEF TlsEntryRefused
<1>3. CASE MmpReleaseTlsEntry(m)
  BY <1>3 DEF MmpReleaseTlsEntry, ReleaseEntry
<1> QED BY <1>1, <1>2, <1>3

-----------------------------------------------------------------------------
(* The list of TLS entries, the bitmap and the loading call.               *)

LoadInv == LocalsInv /\ ListInv /\ IndexInv

\* No module is loaded yet, so there is nothing to keep straight.
LEMMA InitLoadInv == Init => LoadInv
<1> SUFFICES ASSUME Init PROVE LoadInv
  OBVIOUS
<1>1. ld = Idle /\ tlsList = {} /\ bitmap = {} /\ loaded = {} /\ stale = {}
  BY DEF Init
<1>2. ld.pc = "idle" /\ ld.mod = None /\ ld.idx = None /\ ld.new = NoThreads /\ ld.was = NoThreads
  BY <1>1 DEF Idle
<1> QED BY <1>1, <1>2 DEF LoadInv, LocalsInv, ListInv, IndexInv, IndexBelongsToOneModule, LoaderPc

\* Threads that start and exit, and the worker, leave the loading call's state alone.
LEMMA ThreadStepKeepsModules ==
  ASSUME NEW t \in Threads,
         \/ NtdllStartsThread(t) \/ StartStep(t) \/ HookLdrShutdownThread(t) \/ ExitStep(t)
         \/ Killed(t) \/ ReleasePostponedTls(t)
  PROVE  moduleVars' = moduleVars
BY DEF NtdllStartsThread, StartStep, MmpUserThreadStart, TlspRecordFound, TlspAllocationFailed,
   TlspReplaced, ListShared, EntryFilled, EntryFailed, ListDone, Counted, HookLdrShutdownThread,
   ExitStep, Uncounted, TlspLeft, MmpQueuePostponedTls, OriginLdrShutdownThread, Killed,
   ReleasePostponedTls, moduleVars

\* A step that changes neither list, indices nor locals keeps them straight.
LEMMA UnchangedKeepsLoadInv ==
  ASSUME LoadInv, moduleVars' = moduleVars
  PROVE  LoadInv'
BY DEF LoadInv, LocalsInv, ListInv, IndexInv, IndexBelongsToOneModule, moduleVars

\* The loading thread has a module and an index from its first step to its last.
LEMMA LoadStepKeepsLocalsInv ==
  ASSUME TypeOK, LocalsInv, LoadStep
  PROVE  LocalsInv'
<1>0. ld \in LoaderState
  BY DEF TypeOK
<1>i. Idle.pc = "idle" /\ Idle.mod = None /\ Idle.idx = None /\ Idle.was = Idle.new
  BY DEF Idle
<1> USE DEF LocalsInv, LoaderState
<1>1. CASE MmpAllocateTlsEntry
  BY <1>0, <1>1 DEF MmpAllocateTlsEntry
<1>2. CASE ThreadDataAllocated \/ ThreadDataRefused
  BY <1>0, <1>2 DEF ThreadDataAllocated, ThreadDataRefused
<1>3. CASE UndoTlsEntry
  BY <1>3, <1>i DEF UndoTlsEntry
<1>4. CASE KernelReplacesIndex
  <2>1. PICK K \in SUBSET Holders : \E f \in Injections(K, ld.data) :
          ld' = [ld EXCEPT !.pc = "map", !.new = f,
                   !.was = [t \in K |-> IF teb[t] = "mmp" THEN slot[t][ld.idx] ELSE None]]
    BY <1>4 DEF KernelReplacesIndex
  <2>2. PICK f \in Injections(K, ld.data) :
          ld' = [ld EXCEPT !.pc = "map", !.new = f,
                   !.was = [t \in K |-> IF teb[t] = "mmp" THEN slot[t][ld.idx] ELSE None]]
    BY <2>1
  <2>3. DOMAIN f = K
    BY <2>2 DEF Injections
  <2> QED BY <1>0, <1>4, <2>2, <2>3 DEF KernelReplacesIndex
<1>5. CASE KernelRefuses
  BY <1>0, <1>5 DEF KernelRefuses
<1>9. CASE HookNtSetInformationProcess
  <2>1. ld'.new = NoThreads /\ ld'.was = NoThreads /\ ld'.mod = ld.mod /\ ld'.idx = ld.idx
        /\ ld'.pc = "free"
    BY <1>0, <1>9 DEF HookNtSetInformationProcess
  <2> QED BY <2>1, <1>9 DEF HookNtSetInformationProcess
<1>6. CASE ThreadDataFreed
  BY <1>0, <1>6, <1>i DEF ThreadDataFreed, Finished
<1>7. CASE CountRead \/ CountCorrected
  BY <1>0, <1>7 DEF CountRead, CountCorrected
<1>8. CASE CorrectionLeft
  BY <1>8, <1>i DEF CorrectionLeft, Finished
<1> HIDE DEF LocalsInv, LoaderState
<1> QED BY <1>1, <1>2, <1>3, <1>4, <1>5, <1>6, <1>7, <1>8, <1>9 DEF LoadStep

\* A load that fails undoes its entry, but for one the kernel refused.
LEMMA LoadStepKeepsListInv ==
  ASSUME TypeOK, LocalsInv, ListInv, LoadStep
  PROVE  ListInv'
<1>0. ld \in LoaderState
  BY DEF TypeOK
<1>i. Idle.pc = "idle" /\ Idle.mod = None /\ Idle.ok
  BY DEF Idle
<1>n. None \notin Modules /\ loaded \subseteq Modules /\ stale \subseteq Modules
  BY NoneAssumption DEF TypeOK
<1>m. ld.pc # "idle" => ld.mod \in Modules
  BY DEF LocalsInv
<1> USE DEF ListInv, LoaderState, LoaderPc
<1>1. CASE MmpAllocateTlsEntry
  BY <1>0, <1>1 DEF MmpAllocateTlsEntry
<1>2. CASE ThreadDataAllocated
  BY <1>0, <1>2 DEF ThreadDataAllocated
<1>10. CASE ThreadDataRefused
  BY <1>0, <1>m, <1>10 DEF ThreadDataRefused
<1>3. CASE UndoTlsEntry
  BY <1>0, <1>3, <1>i, <1>n, <1>m DEF UndoTlsEntry, ReleaseEntry
<1>4. CASE KernelReplacesIndex
  <2>1. ld'.pc = "map" /\ ld'.mod = ld.mod /\ ld'.ok = ld.ok
    BY <1>0, <1>4 DEF KernelReplacesIndex
  <2> QED BY <1>4, <2>1 DEF KernelReplacesIndex
<1>5. CASE KernelRefuses
  BY <1>0, <1>5, <1>m DEF KernelRefuses
<1>6. CASE HookNtSetInformationProcess
  BY <1>0, <1>6 DEF HookNtSetInformationProcess
<1>7. CASE ThreadDataFreed
  <2>1. CASE Finished
    BY <1>0, <1>7, <2>1, <1>i, <1>n, <1>m DEF ThreadDataFreed, Finished
  <2>2. CASE ld' = [ld EXCEPT !.pc = "correct", !.toFree = {}] /\ UNCHANGED loaded
    BY <1>0, <1>7, <2>2 DEF ThreadDataFreed
  <2> QED BY <1>7, <2>1, <2>2 DEF ThreadDataFreed
<1>8. CASE CountRead \/ CountCorrected
  BY <1>0, <1>8 DEF CountRead, CountCorrected
<1>9. CASE CorrectionLeft
  BY <1>0, <1>9, <1>i, <1>n, <1>m DEF CorrectionLeft, Finished
<1> HIDE DEF ListInv, LoaderState, LoaderPc
<1> QED BY <1>1, <1>2, <1>3, <1>4, <1>5, <1>6, <1>7, <1>8, <1>9, <1>10 DEF LoadStep

\* Only the insertion and the undo change the list, the indices or the bitmap;
\* the other steps have to show that the locals still name the same index.
LEMMA LoadStepKeepsIndexInv ==
  ASSUME TypeOK, LocalsInv, ListInv, IndexInv, LoadStep
  PROVE  IndexInv'
<1>0. ld \in LoaderState /\ tlsList \subseteq Modules /\ index \in [Modules -> Indices \cup {None}]
      /\ bitmap \subseteq Indices
  BY DEF TypeOK
<1>i. Idle.pc = "idle" /\ Idle.mod = None /\ Idle.idx = None
  BY DEF Idle
<1>n. None \notin Modules /\ None \notin Indices
  BY NoneAssumption
<1>m. ld.pc # "idle" => ld.mod \in Modules /\ ld.idx \in Indices
  BY DEF LocalsInv
<1> USE DEF IndexInv, IndexBelongsToOneModule, LoaderState, LoaderPc
<1>1. CASE MmpAllocateTlsEntry
  <2>1. ld'.pc = "alloc" /\ ld'.mod = ld.mod /\ ld'.idx = ld.idx
    BY <1>0, <1>1 DEF MmpAllocateTlsEntry
  <2>2. tlsList' = tlsList \cup {ld.mod} /\ index' = [index EXCEPT ![ld.mod] = ld.idx]
        /\ bitmap' = bitmap /\ loaded' = loaded /\ stale' = stale
    BY <1>1 DEF MmpAllocateTlsEntry
  <2>3. ld.mod \notin tlsList /\ ld.pc = "insert"
    BY <1>1 DEF MmpAllocateTlsEntry, ListInv
  <2>4. \A m \in tlsList : index'[m] = index[m]
    BY <1>0, <2>2, <2>3
  <2>5. index'[ld.mod] = ld.idx
    BY <1>0, <1>m, <2>2, <2>3
  <2> QED BY <1>0, <1>m, <1>n, <2>1, <2>2, <2>3, <2>4, <2>5
<1>2. CASE UndoTlsEntry
  <2>1. ld' = Idle /\ ld.pc = "undo"
    BY <1>2 DEF UndoTlsEntry
  <2>2. tlsList' = tlsList \ {ld.mod} /\ index' = [index EXCEPT ![ld.mod] = None]
        /\ bitmap' = bitmap \ {index[ld.mod]} /\ loaded' = loaded /\ stale' = stale
    BY <1>2 DEF UndoTlsEntry, ReleaseEntry
  <2>3. ld.mod \in tlsList /\ index[ld.mod] = ld.idx
    BY <2>1 DEF ListInv
  <2>4. \A m \in tlsList' : index'[m] = index[m] /\ m # ld.mod
    BY <1>0, <2>2
  <2> QED BY <1>0, <1>i, <1>m, <1>n, <2>1, <2>2, <2>3, <2>4
<1>3. ASSUME ld'.idx = ld.idx, ld'.mod = ld.mod, ld.pc \notin {"idle", "insert"},
             ld'.pc \notin {"idle", "insert"},
             UNCHANGED <<tlsList, index, bitmap, loaded>>, stale \subseteq stale'
      PROVE  IndexInv'
  BY <1>3, <1>0
<1>4. ASSUME Finished, ld.pc \in {"free", "assert"}, UNCHANGED <<tlsList, index, bitmap, stale>>
      PROVE  IndexInv'
  <2>1. ld' = Idle /\ ld.mod \in tlsList /\ index[ld.mod] = ld.idx
    BY <1>4 DEF Finished, ListInv
  <2>2. ld.mod \in loaded' \cup stale' /\ loaded \subseteq loaded'
    BY <1>4 DEF Finished, ListInv
  <2> QED BY <1>4, <1>0, <1>i, <1>m, <1>n, <2>1, <2>2
<1>5. CASE ThreadDataAllocated \/ ThreadDataRefused
  BY <1>0, <1>3, <1>5 DEF ThreadDataAllocated, ThreadDataRefused
<1>6. CASE KernelReplacesIndex
  <2>1. UNCHANGED <<tlsList, index, bitmap, loaded, stale>> /\ ld.pc = "kernel"
    BY <1>6 DEF KernelReplacesIndex
  <2>2. ld'.pc = "map" /\ ld'.mod = ld.mod /\ ld'.idx = ld.idx
    BY <1>0, <1>6 DEF KernelReplacesIndex
  <2> QED BY <1>3, <2>1, <2>2
<1>7. CASE KernelRefuses \/ HookNtSetInformationProcess
  <2>1. /\ UNCHANGED <<tlsList, index, bitmap, loaded>> /\ stale \subseteq stale'
        /\ ld.pc \in {"kernel", "map"}
    BY <1>7 DEF KernelRefuses, HookNtSetInformationProcess
  <2>2. ld'.pc = "free" /\ ld'.mod = ld.mod /\ ld'.idx = ld.idx
    BY <1>0, <1>7 DEF KernelRefuses, HookNtSetInformationProcess
  <2> QED BY <1>3, <2>1, <2>2
<1>8. CASE ThreadDataFreed
  BY <1>0, <1>3, <1>4, <1>8 DEF ThreadDataFreed
<1>9. CASE CountRead \/ CountCorrected
  BY <1>0, <1>3, <1>9 DEF CountRead, CountCorrected
<1>10. CASE CorrectionLeft
  BY <1>0, <1>4, <1>10 DEF CorrectionLeft
<1> HIDE DEF IndexInv, IndexBelongsToOneModule, LoaderState, LoaderPc
<1> QED BY <1>1, <1>2, <1>5, <1>6, <1>7, <1>8, <1>9, <1>10 DEF LoadStep

\* A call takes an index whose bit was clear, is refused, or gives an index back.
LEMMA CallKeepsLoadInv ==
  ASSUME TypeOK, LoadInv, NEW m \in Modules,
         MmpAcquireTlsIndex(m) \/ TlsEntryRefused(m) \/ MmpReleaseTlsEntry(m)
  PROVE  LoadInv'
<1>0. tlsList \subseteq Modules /\ index \in [Modules -> Indices \cup {None}]
      /\ bitmap \subseteq Indices /\ loaded \subseteq Modules /\ stale \subseteq Modules
  BY DEF TypeOK
<1>n. None \notin Modules /\ None \notin Indices
  BY NoneAssumption
<1> USE DEF LoadInv, LocalsInv, ListInv, IndexInv, IndexBelongsToOneModule, LoaderPc, Loading
<1>1. CASE MmpAcquireTlsIndex(m)
  <2> DEFINE i == Lowest(Indices \ bitmap)
  <2>1. i \in Indices /\ i \notin bitmap
    <3>1. Indices \ bitmap # {} /\ Indices \ bitmap \subseteq Nat
      BY <1>1, NumbersAssumption DEF MmpAcquireTlsIndex
    <3>2. i \in Indices \ bitmap
      BY <3>1, LowestInSet
    <3> QED BY <3>2
  <2>2. /\ ld'.pc = "insert" /\ ld'.mod = m /\ ld'.idx = i /\ ld'.ok
        /\ DOMAIN ld'.was = DOMAIN ld'.new
    BY <1>1 DEF MmpAcquireTlsIndex, Idle
  <2>3. ld.pc = "idle" /\ m \notin tlsList /\ bitmap' = bitmap \cup {i}
        /\ UNCHANGED <<tlsList, index, loaded, stale>>
    BY <1>1 DEF MmpAcquireTlsIndex
  <2> HIDE DEF i
  <2> QED BY <1>0, <1>n, <2>1, <2>2, <2>3
<1>2. CASE TlsEntryRefused(m)
  BY <1>2 DEF TlsEntryRefused
<1>3. CASE MmpReleaseTlsEntry(m)
  <2>1. ld.pc = "idle" /\ ld' = ld /\ m \in loaded /\ loaded' = loaded \ {m} /\ stale' = stale
        /\ tlsList' = tlsList \ {m} /\ bitmap' = bitmap \ {index[m]}
        /\ index' = [index EXCEPT ![m] = None]
    BY <1>3 DEF MmpReleaseTlsEntry, ReleaseEntry
  <2>2. \A n \in tlsList' : index'[n] = index[n]
    BY <1>0, <2>1
  <2> QED BY <1>0, <1>n, <2>1, <2>2
<1> QED BY <1>1, <1>2, <1>3

-----------------------------------------------------------------------------
(* The theorems.                                                           *)

\* Every step keeps the invariant.
LEMMA NextIInv == IInv /\ [Next]_vars => IInv'
<1> SUFFICES ASSUME IInv, [Next]_vars PROVE IInv'
  OBVIOUS
<1>0. TypeOK /\ LocalsInv /\ ListInv /\ IndexInv /\ LoadInv
  BY DEF IInv, LoadInv
<1>1. ASSUME NEW t \in Threads,
             \/ NtdllStartsThread(t) \/ StartStep(t) \/ HookLdrShutdownThread(t) \/ ExitStep(t)
             \/ Killed(t) \/ ReleasePostponedTls(t)
      PROVE  IInv'
  <2>1. TypeOK'
    BY <1>0, <1>1, StartTyped, ExitTyped
  <2>2. LoadInv'
    BY <1>0, <1>1, ThreadStepKeepsModules, UnchangedKeepsLoadInv
  <2> QED BY <2>1, <2>2 DEF IInv, LoadInv
<1>2. ASSUME NEW m \in Modules,
             MmpAcquireTlsIndex(m) \/ TlsEntryRefused(m) \/ MmpReleaseTlsEntry(m)
      PROVE  IInv'
  BY <1>0, <1>2, CallTyped, CallKeepsLoadInv DEF IInv, LoadInv
<1>3. CASE LoadStep
  BY <1>0, <1>3, LoadTyped, LoadStepKeepsLocalsInv, LoadStepKeepsListInv,
     LoadStepKeepsIndexInv DEF IInv
<1>4. CASE UNCHANGED vars
  <2>1. TypeOK'
    BY <1>0, <1>4 DEF TypeOK, vars, threadVars, moduleVars, lockVars
  <2>2. LoadInv'
    BY <1>0, <1>4, UnchangedKeepsLoadInv DEF vars
  <2> QED BY <2>1, <2>2 DEF IInv, LoadInv
<1> QED BY <1>1, <1>2, <1>3, <1>4 DEF Next

\* The invariant holds in every state of every behaviour, whatever the host lets
\* overlap and whatever fails.
THEOREM Invariance == Spec => []IInv
<1>1. Init => IInv
  BY InitTyped, InitLoadInv DEF IInv, LoadInv
<1> QED BY <1>1, NextIInv, PTL DEF Spec

\* Every variable has its type (MmpTls.cpp:109-796).
THEOREM TypeCorrect == Spec => []TypeOK
BY Invariance, PTL DEF IInv

\* However threads start, exit and die and whichever step of a load fails, each
\* set bit of MmpTlsBitmap belongs to one listed module or to the module being
\* loaded, and only a kernel refusal leaves an entry behind (MmpTls.cpp:551-738).
THEOREM IndexTheorem == Spec => []IndexBelongsToOneModule
<1>1. IInv => IndexBelongsToOneModule
  BY DEF IInv, IndexInv
<1> QED BY <1>1, Invariance, PTL

-----------------------------------------------------------------------------
(* The two assertions about a thread's record and its TEB.                 *)

\* A record belongs to a thread past the replacement of its vector and before its
\* shutdown.  A killed thread breaks this: its record outlives it.
RecordInv ==
  \A t \in Threads : t \in record =>
    teb[t] = "mmp" /\ pc[t] \in {"list", "fill", "count", "run"}

\* While memory lasts every other thread that runs has no vector at all.
VectorInv ==
  \A t \in Threads :
    /\ pc[t] \in {"list", "fill", "count"} => t \in record
    /\ pc[t] = "run" => t \in record \/ teb[t] = "null"
    /\ pc[t] = "checkPlain" => teb[t] = "null"

\* The loading thread changes neither.
LEMMA LoadStepKeepsThreads ==
  ASSUME LoadStep \/ \E m \in Modules : MmpAcquireTlsIndex(m) \/ TlsEntryRefused(m)
                                          \/ MmpReleaseTlsEntry(m)
  PROVE  UNCHANGED <<pc, teb, record, seen>>
BY DEF LoadStep, MmpAcquireTlsIndex, TlsEntryRefused, MmpReleaseTlsEntry, MmpAllocateTlsEntry,
   ThreadDataAllocated, ThreadDataRefused, UndoTlsEntry, KernelReplacesIndex, KernelRefuses,
   HookNtSetInformationProcess, ThreadDataFreed, CountRead, CountCorrected, CorrectionLeft,
   threadVars

\* A record comes with the vector in the TEB and goes before it.
LEMMA ThreadStepKeepsRecordInv ==
  ASSUME "kill" \notin Faults, TypeOK, RecordInv, NEW t \in Threads,
         \/ NtdllStartsThread(t) \/ StartStep(t) \/ HookLdrShutdownThread(t) \/ ExitStep(t)
         \/ Killed(t) \/ ReleasePostponedTls(t)
  PROVE  RecordInv'
<1> USE DEF RecordInv, Runs
<1>0. pc \in [Threads -> ThreadPc] /\ teb \in [Threads -> {"null", "ldr", "mmp"}]
      /\ record \subseteq Threads
  BY DEF TypeOK
<1>1. CASE NtdllStartsThread(t)
  BY <1>0, <1>1 DEF NtdllStartsThread
<1>2. CASE MmpUserThreadStart(t)
  BY <1>0, <1>2 DEF MmpUserThreadStart
<1>3. CASE TlspRecordFound(t)
  BY <1>0, <1>3 DEF TlspRecordFound
<1>4. CASE TlspAllocationFailed(t)
  BY <1>0, <1>4 DEF TlspAllocationFailed
<1>5. CASE TlspReplaced(t)
  BY <1>0, <1>5 DEF TlspReplaced
<1>6. CASE ListShared(t)
  BY <1>0, <1>6 DEF ListShared
<1>7. ASSUME NEW m \in Modules, EntryFilled(t, m) PROVE RecordInv'
  BY <1>0, <1>7 DEF EntryFilled
<1>8. ASSUME NEW m \in Modules, EntryFailed(t, m) PROVE RecordInv'
  BY <1>0, <1>8 DEF EntryFailed
<1>9. CASE ListDone(t)
  BY <1>0, <1>9 DEF ListDone
<1>10. CASE Counted(t)
  BY <1>0, <1>10 DEF Counted
<1>11. CASE HookLdrShutdownThread(t)
  BY <1>0, <1>11 DEF HookLdrShutdownThread
<1>12. CASE Uncounted(t)
  BY <1>0, <1>12 DEF Uncounted
<1>13. CASE TlspLeft(t)
  BY <1>0, <1>13 DEF TlspLeft
<1>14. CASE MmpQueuePostponedTls(t)
  BY <1>0, <1>14 DEF MmpQueuePostponedTls
<1>15. CASE OriginLdrShutdownThread(t)
  BY <1>0, <1>15 DEF OriginLdrShutdownThread
<1>16. CASE Killed(t)
  BY <1>16 DEF Killed
<1>17. CASE ReleasePostponedTls(t)
  BY <1>0, <1>17 DEF ReleasePostponedTls
<1> HIDE DEF RecordInv, Runs
<1> QED BY <1>1, <1>2, <1>3, <1>4, <1>5, <1>6, <1>7, <1>8, <1>9, <1>10, <1>11, <1>12, <1>13,
           <1>14, <1>15, <1>16, <1>17 DEF StartStep, ExitStep

\* A start that memory does not fail ends with a record.
LEMMA ThreadStepKeepsVectorInv ==
  ASSUME "kill" \notin Faults, "oom" \notin Faults, TypeOK, RecordInv, VectorInv,
         NEW t \in Threads,
         \/ NtdllStartsThread(t) \/ StartStep(t) \/ HookLdrShutdownThread(t) \/ ExitStep(t)
         \/ Killed(t) \/ ReleasePostponedTls(t)
  PROVE  VectorInv'
<1> USE DEF VectorInv, Runs
<1>0. pc \in [Threads -> ThreadPc] /\ teb \in [Threads -> {"null", "ldr", "mmp"}]
      /\ record \subseteq Threads
  BY DEF TypeOK
<1>1. CASE NtdllStartsThread(t)
  BY <1>0, <1>1 DEF NtdllStartsThread
<1>2. CASE MmpUserThreadStart(t)
  BY <1>0, <1>2 DEF MmpUserThreadStart
<1>3. CASE TlspRecordFound(t)
  BY <1>0, <1>3 DEF TlspRecordFound
<1>4. CASE TlspAllocationFailed(t)
  BY <1>4 DEF TlspAllocationFailed
<1>5. CASE TlspReplaced(t)
  BY <1>0, <1>5 DEF TlspReplaced
<1>6. CASE ListShared(t)
  BY <1>0, <1>6 DEF ListShared
<1>7. ASSUME NEW m \in Modules, EntryFilled(t, m) PROVE VectorInv'
  BY <1>0, <1>7 DEF EntryFilled
<1>8. ASSUME NEW m \in Modules, EntryFailed(t, m) PROVE VectorInv'
  BY <1>0, <1>8 DEF EntryFailed
<1>9. CASE ListDone(t)
  BY <1>0, <1>9 DEF ListDone
<1>10. CASE Counted(t)
  BY <1>0, <1>10 DEF Counted
<1>11. CASE HookLdrShutdownThread(t)
  BY <1>0, <1>11 DEF HookLdrShutdownThread
<1>12. CASE Uncounted(t)
  BY <1>0, <1>12 DEF Uncounted
<1>13. CASE TlspLeft(t)
  BY <1>0, <1>13 DEF TlspLeft
<1>14. CASE MmpQueuePostponedTls(t)
  BY <1>0, <1>14 DEF MmpQueuePostponedTls
<1>15. CASE OriginLdrShutdownThread(t)
  BY <1>0, <1>15 DEF OriginLdrShutdownThread
<1>16. CASE Killed(t)
  BY <1>16 DEF Killed
<1>17. CASE ReleasePostponedTls(t)
  BY <1>0, <1>17 DEF ReleasePostponedTls
<1> HIDE DEF VectorInv, Runs
<1> QED BY <1>1, <1>2, <1>3, <1>4, <1>5, <1>6, <1>7, <1>8, <1>9, <1>10, <1>11, <1>12, <1>13,
           <1>14, <1>15, <1>16, <1>17 DEF StartStep, ExitStep

\* A thread that looks its record up finds the vector its TEB points to
\* (assert at MmpTls.cpp:118), for every overlap of starts, exits and loads and for
\* every failure of memory or the kernel, if no thread is terminated from outside.
THEOREM RecordTheorem ==
  ASSUME "kill" \notin Faults
  PROVE  Spec => []RecordMatchesTeb
<1>1. Init => RecordInv
  BY ThreadsAssumption DEF Init, RecordInv
<1>2. TypeOK /\ RecordInv /\ [Next]_vars => RecordInv'
  <2> SUFFICES ASSUME TypeOK, RecordInv, [Next]_vars PROVE RecordInv'
    OBVIOUS
  <2>1. CASE UNCHANGED <<pc, teb, record>>
    BY <2>1 DEF RecordInv
  <2>2. CASE UNCHANGED vars
    BY <2>1, <2>2 DEF vars, threadVars
  <2> QED BY <2>1, <2>2, LoadStepKeepsThreads, ThreadStepKeepsRecordInv DEF Next
<1>3. TypeOK /\ RecordInv => RecordMatchesTeb
  BY DEF TypeOK, RecordInv, RecordMatchesTeb
<1> QED BY <1>1, <1>2, <1>3, TypeCorrect, PTL DEF Spec

\* A thread that exits without a record has no vector (assert at MmpTls.cpp:320),
\* if memory lasts and no thread is terminated from outside.  Without the first
\* assumption the property fails.
THEOREM UnrecordedTheorem ==
  ASSUME "kill" \notin Faults, "oom" \notin Faults
  PROVE  Spec => []UnrecordedHasNoVector
<1>1. Init => RecordInv /\ VectorInv
  BY ThreadsAssumption DEF Init, RecordInv, VectorInv
<1>2. TypeOK /\ RecordInv /\ VectorInv /\ [Next]_vars => RecordInv' /\ VectorInv'
  <2> SUFFICES ASSUME TypeOK, RecordInv, VectorInv, [Next]_vars PROVE RecordInv' /\ VectorInv'
    OBVIOUS
  <2>1. CASE UNCHANGED <<pc, teb, record>>
    BY <2>1 DEF RecordInv, VectorInv
  <2>2. CASE UNCHANGED vars
    BY <2>1, <2>2 DEF vars, threadVars
  <2> QED BY <2>1, <2>2, LoadStepKeepsThreads, ThreadStepKeepsRecordInv,
             ThreadStepKeepsVectorInv DEF Next
<1>3. VectorInv => UnrecordedHasNoVector
  BY DEF VectorInv, UnrecordedHasNoVector
<1> QED BY <1>1, <1>2, <1>3, TypeCorrect, PTL DEF Spec

-----------------------------------------------------------------------------
(* What the host keeps apart.                                              *)

\* A step of a thread that is neither its beginning nor the beginning of its end.
Inside(t) ==
  StartStep(t) \/ ExitStep(t) \/ Killed(t) \/ ReleasePostponedTls(t)

\* Such a step moves one thread along, and never back into starting or exiting.
LEMMA InsideMoves ==
  ASSUME TypeOK, NEW t \in Threads, Inside(t)
  PROVE  /\ \A u \in Threads : u # t => pc'[u] = pc[u]
         /\ pc'[t] \in StartPc => pc[t] \in StartPc
         /\ pc'[t] \in ExitPc => pc[t] \in ExitPc
         /\ moduleVars' = moduleVars
<1> USE DEF StartPc, ExitPc, Runs
<1>0. pc \in [Threads -> ThreadPc]
  BY DEF TypeOK
<1>1. CASE MmpUserThreadStart(t)
  BY <1>0, <1>1 DEF MmpUserThreadStart
<1>2. CASE TlspRecordFound(t) \/ TlspAllocationFailed(t)
  BY <1>0, <1>2 DEF TlspRecordFound, TlspAllocationFailed
<1>3. CASE TlspReplaced(t)
  BY <1>0, <1>3 DEF TlspReplaced
<1>4. CASE ListShared(t)
  BY <1>0, <1>4 DEF ListShared
<1>5. ASSUME NEW m \in Modules, EntryFilled(t, m) \/ EntryFailed(t, m)
      PROVE  /\ \A u \in Threads : u # t => pc'[u] = pc[u]
             /\ pc'[t] \in StartPc => pc[t] \in StartPc
             /\ pc'[t] \in ExitPc => pc[t] \in ExitPc
             /\ moduleVars' = moduleVars
  BY <1>0, <1>5 DEF EntryFilled, EntryFailed
<1>6. CASE ListDone(t)
  BY <1>0, <1>6 DEF ListDone
<1>7. CASE Counted(t)
  BY <1>0, <1>7 DEF Counted
<1>8. CASE Uncounted(t)
  BY <1>0, <1>8 DEF Uncounted
<1>9. CASE TlspLeft(t)
  BY <1>0, <1>9 DEF TlspLeft
<1>10. CASE MmpQueuePostponedTls(t)
  BY <1>0, <1>10 DEF MmpQueuePostponedTls
<1>11. CASE OriginLdrShutdownThread(t)
  BY <1>0, <1>11 DEF OriginLdrShutdownThread
<1>12. CASE Killed(t)
  BY <1>0, <1>12 DEF Killed
<1>13. CASE ReleasePostponedTls(t)
  BY <1>0, <1>13 DEF ReleasePostponedTls
<1> HIDE DEF StartPc, ExitPc, Runs
<1> QED BY <1>1, <1>2, <1>3, <1>4, <1>5, <1>6, <1>7, <1>8, <1>9, <1>10, <1>11, <1>12, <1>13
        DEF Inside, StartStep, ExitStep

\* A step begins at most one of the three, and only when the host lets it.
LEMMA OneBegins ==
  ASSUME TypeOK, LocalsInv, [Next]_vars
  PROVE  /\ Starting' => Starting \/ (MayStart /\ UNCHANGED ld /\ (Exiting' => Exiting))
         /\ Exiting'  => Exiting  \/ (MayExit /\ UNCHANGED ld /\ (Starting' => Starting))
         /\ Loading'  => Loading  \/ (MayLoad /\ UNCHANGED pc)
<1>0. pc \in [Threads -> ThreadPc]
  BY DEF TypeOK
<1>1. ASSUME NEW t \in Threads, NtdllStartsThread(t)
      PROVE  MayStart /\ UNCHANGED ld /\ (Exiting' => Exiting)
  BY <1>0, <1>1 DEF NtdllStartsThread, Exiting, ExitPc, moduleVars
<1>2. ASSUME NEW t \in Threads, HookLdrShutdownThread(t)
      PROVE  MayExit /\ UNCHANGED ld /\ (Starting' => Starting)
  BY <1>0, <1>2 DEF HookLdrShutdownThread, Starting, StartPc, moduleVars
<1>3. ASSUME NEW t \in Threads, Inside(t)
      PROVE  UNCHANGED ld /\ (Exiting' => Exiting) /\ (Starting' => Starting)
  BY <1>3, InsideMoves DEF Exiting, Starting, moduleVars
<1>4. ASSUME NEW m \in Modules, MmpAcquireTlsIndex(m) \/ TlsEntryRefused(m) \/ MmpReleaseTlsEntry(m)
      PROVE  UNCHANGED pc /\ (MayLoad \/ UNCHANGED ld)
  BY <1>4 DEF MmpAcquireTlsIndex, TlsEntryRefused, MmpReleaseTlsEntry, threadVars
<1>5. CASE LoadStep
  <2>1. UNCHANGED pc
    BY <1>5, LoadStepKeepsThreads
  <2>2. Loading
    BY <1>5 DEF LoadStep, MmpAllocateTlsEntry, ThreadDataAllocated, ThreadDataRefused,
       UndoTlsEntry, KernelReplacesIndex, KernelRefuses, HookNtSetInformationProcess,
       ThreadDataFreed, CountRead, CountCorrected, CorrectionLeft, Loading
  <2> QED BY <2>1, <2>2 DEF Starting, Exiting
<1>6. CASE UNCHANGED vars
  BY <1>6 DEF vars, threadVars, moduleVars, Starting, Exiting, Loading
<1> QED BY <1>1, <1>2, <1>3, <1>4, <1>5, <1>6 DEF Next, Inside, Starting, Exiting, Loading

\* What the host keeps apart stays apart.
LEMMA ApartKept ==
  ASSUME TypeOK, LocalsInv, [Next]_vars
  PROVE  /\ "start_load" \notin Overlap /\ ~(Starting /\ Loading) => ~(Starting /\ Loading)'
         /\ "exit_load" \notin Overlap /\ ~(Exiting /\ Loading) => ~(Exiting /\ Loading)'
         /\ "start_exit" \notin Overlap /\ ~(Starting /\ Exiting) => ~(Starting /\ Exiting)'
<1>1. UNCHANGED ld => (Loading' <=> Loading)
  BY DEF Loading
<1>2. UNCHANGED pc => (Starting' <=> Starting) /\ (Exiting' <=> Exiting)
  BY DEF Starting, Exiting
<1> QED BY <1>1, <1>2, OneBegins DEF MayStart, MayExit, MayLoad

\* At first nothing is under way.
LEMMA InitApart == Init => ~Starting /\ ~Exiting /\ ~Loading
BY DEF Init, Starting, Exiting, Loading, StartPc, ExitPc, Idle

\* Only a thread that is about to get its vector has ntdll's; one that is gone has none.
ShortInv ==
  \A t \in Threads :
    /\ teb[t] = "ldr" => pc[t] \in {"born", "start"}
    /\ pc[t] \in {"none", "dead"} => teb[t] = "null"

\* ntdll's vector leaves the TEB at the first step that matters.
LEMMA ThreadStepKeepsShortInv ==
  ASSUME "kill" \notin Faults, "oom" \notin Faults, TypeOK, RecordInv, ShortInv, NEW t \in Threads,
         NtdllStartsThread(t) \/ HookLdrShutdownThread(t) \/ Inside(t)
  PROVE  ShortInv'
<1> USE DEF ShortInv, Runs
<1>0. pc \in [Threads -> ThreadPc] /\ teb \in [Threads -> {"null", "ldr", "mmp"}]
      /\ record \subseteq Threads
  BY DEF TypeOK
<1>1. CASE NtdllStartsThread(t)
  BY <1>0, <1>1 DEF NtdllStartsThread
<1>2. CASE HookLdrShutdownThread(t)
  BY <1>0, <1>2 DEF HookLdrShutdownThread
<1>3. CASE MmpUserThreadStart(t)
  BY <1>0, <1>3 DEF MmpUserThreadStart
<1>4. CASE TlspRecordFound(t)
  BY <1>0, <1>4 DEF TlspRecordFound, RecordInv
<1>5. CASE TlspAllocationFailed(t)
  BY <1>5 DEF TlspAllocationFailed
<1>6. CASE TlspReplaced(t)
  BY <1>0, <1>6 DEF TlspReplaced
<1>7. CASE ListShared(t)
  BY <1>0, <1>7 DEF ListShared
<1>8. ASSUME NEW m \in Modules, EntryFilled(t, m) \/ EntryFailed(t, m) PROVE ShortInv'
  BY <1>0, <1>8 DEF EntryFilled, EntryFailed
<1>9. CASE ListDone(t)
  BY <1>0, <1>9 DEF ListDone
<1>10. CASE Counted(t)
  BY <1>0, <1>10 DEF Counted
<1>11. CASE Uncounted(t)
  BY <1>0, <1>11 DEF Uncounted
<1>12. CASE TlspLeft(t)
  BY <1>0, <1>12 DEF TlspLeft
<1>13. CASE MmpQueuePostponedTls(t)
  BY <1>0, <1>13 DEF MmpQueuePostponedTls
<1>14. CASE OriginLdrShutdownThread(t)
  BY <1>0, <1>14 DEF OriginLdrShutdownThread
<1>15. CASE Killed(t)
  BY <1>15 DEF Killed
<1>16. CASE ReleasePostponedTls(t)
  BY <1>0, <1>16 DEF ReleasePostponedTls
<1> HIDE DEF ShortInv, Runs
<1> QED BY <1>1, <1>2, <1>3, <1>4, <1>5, <1>6, <1>7, <1>8, <1>9, <1>10, <1>11, <1>12, <1>13,
           <1>14, <1>15, <1>16 DEF Inside, StartStep, ExitStep

\* The vectors of the threads: who has one, and which.
ThreadsInv == RecordInv /\ VectorInv /\ ShortInv

\* Every step keeps the three, the loading thread's because they leave them alone.
LEMMA NextThreadsInv ==
  ASSUME "kill" \notin Faults, "oom" \notin Faults, TypeOK, ThreadsInv, [Next]_vars
  PROVE  ThreadsInv'
<1>1. CASE UNCHANGED <<pc, teb, record>>
  BY <1>1 DEF ThreadsInv, RecordInv, VectorInv, ShortInv
<1>2. CASE UNCHANGED vars
  BY <1>1, <1>2 DEF vars, threadVars
<1>3. ASSUME NEW t \in Threads, NtdllStartsThread(t) \/ HookLdrShutdownThread(t) \/ Inside(t)
      PROVE  ThreadsInv'
  BY <1>3, ThreadStepKeepsRecordInv, ThreadStepKeepsVectorInv, ThreadStepKeepsShortInv
     DEF ThreadsInv, Inside
<1> QED BY <1>1, <1>2, <1>3, LoadStepKeepsThreads DEF Next, Inside

\* The initial threads have been given vectors and records.
LEMMA InitThreadsInv == Init => ThreadsInv
BY ThreadsAssumption DEF Init, ThreadsInv, RecordInv, VectorInv, ShortInv

\* Neither a start nor a load swaps a pointer into ntdll's own vector
\* (MmpTls.cpp:463-517), if threads are not started while a module is loaded, memory lasts and
\* no thread is terminated from outside; exits may overlap both.
THEOREM NtdllVectorTheorem ==
  ASSUME "start_load" \notin Overlap, "kill" \notin Faults, "oom" \notin Faults
  PROVE  Spec => []NtdllVectorUntouched
<1> DEFINE Inv == ThreadsInv /\ ~(Starting /\ Loading) /\ ~wild
<1>1. Init => Inv
  BY InitThreadsInv, InitApart DEF Init
<1>2. IInv /\ Inv /\ [Next]_vars => Inv'
  <2> SUFFICES ASSUME IInv, Inv, [Next]_vars PROVE Inv'
    OBVIOUS
  <2>0. TypeOK /\ LocalsInv
    BY DEF IInv
  <2>1. ThreadsInv' /\ ~(Starting /\ Loading)'
    BY <2>0, NextThreadsInv, ApartKept
  <2>2. CASE KernelReplacesIndex
    <3>1. \A t \in Threads : teb[t] # "ldr"
      BY <2>2 DEF KernelReplacesIndex, Loading, Starting, StartPc, ThreadsInv, ShortInv
    <3>2. Holders \subseteq Threads
      BY DEF Holders
    <3>3. PICK K \in SUBSET Holders : wild' = (wild \/ \E t \in K : teb[t] = "ldr")
      BY <2>2 DEF KernelReplacesIndex
    <3> QED BY <2>1, <3>1, <3>2, <3>3
  <2>3. CASE ~KernelReplacesIndex
    <3>1. ASSUME NEW t \in Threads, NtdllStartsThread(t) \/ HookLdrShutdownThread(t) \/ Inside(t)
          PROVE  UNCHANGED wild
      BY <3>1 DEF Inside, NtdllStartsThread, StartStep, MmpUserThreadStart, TlspRecordFound,
         TlspAllocationFailed, TlspReplaced, ListShared, EntryFilled, EntryFailed, ListDone,
         Counted, HookLdrShutdownThread, ExitStep, Uncounted, TlspLeft, MmpQueuePostponedTls,
         OriginLdrShutdownThread, Killed, ReleasePostponedTls
    <3>2. ASSUME NEW m \in Modules,
                 MmpAcquireTlsIndex(m) \/ TlsEntryRefused(m) \/ MmpReleaseTlsEntry(m)
          PROVE  UNCHANGED wild
      BY <3>2 DEF MmpAcquireTlsIndex, TlsEntryRefused, MmpReleaseTlsEntry
    <3>3. LoadStep => UNCHANGED wild
      BY <2>3 DEF LoadStep, MmpAllocateTlsEntry, ThreadDataAllocated, ThreadDataRefused,
         UndoTlsEntry, KernelRefuses, HookNtSetInformationProcess, ThreadDataFreed, CountRead,
         CountCorrected, CorrectionLeft
    <3>4. UNCHANGED wild
      BY <3>1, <3>2, <3>3 DEF Next, Inside, vars
    <3> QED BY <2>1, <3>4
  <2> QED BY <2>2, <2>3
<1>3. Inv => NtdllVectorUntouched
  BY DEF NtdllVectorUntouched
<1> HIDE DEF Inv
<1> QED BY <1>1, <1>2, <1>3, Invariance, PTL DEF Spec

-----------------------------------------------------------------------------
(* The count, when the host keeps loads, starts and exits apart and nothing *)
(* fails.                                                                   *)

ApartInv == ~(Starting /\ Loading) /\ ~(Exiting /\ Loading) /\ ~(Starting /\ Exiting)

\* The threads that the count stands for: an exiting one until the decrement is written.
CountedThreads == { t \in Threads : (t \in record /\ pc[t] = "run") \/ pc[t] = "dec" }

\* The lock makes the decrement, a read and a write, one step.
CountInv ==
  /\ count = Cardinality(CountedThreads)
  /\ \A t \in Threads : pc[t] \in {"dec", "check", "checkPlain"} => tlspLock = t
  /\ \A t \in Threads : pc[t] = "dec" => seen[t] = count

\* A load has as many blocks as there are threads, and each thread takes one.
EnoughInv ==
  /\ ld.pc \notin {"correct", "subtract", "assert"}
  /\ ld.pc = "kernel" => Cardinality(ld.data) = count
  /\ ld.pc = "map" => Cardinality(DOMAIN ld.new) = Cardinality(ld.data)
  /\ ld.pc = "free" => ld.missing = 0

\* The n lowest members of a finite set of numbers are n.
Below(F, b) == { c \in F : c < b }
First(F, n) == { b \in F : Cardinality(Below(F, b)) < n }

\* By the least n that would be wrong: its predecessor is right, and the next
\* higher member of F is the only one added.
LEMMA FirstCount ==
  ASSUME NEW F, F \subseteq Nat, IsFiniteSet(F), NEW n \in Nat, n <= Cardinality(F)
  PROVE  Cardinality(First(F, n)) = n
<1> DEFINE Wrong == { k \in Nat : k <= Cardinality(F) /\ Cardinality(First(F, k)) # k }
<1>1. Cardinality(F) \in Nat
  BY FS_CardinalityType
<1>2. \A b \in F : Below(F, b) \subseteq F /\ IsFiniteSet(Below(F, b))
                     /\ Cardinality(Below(F, b)) \in Nat
  <2>1. \A b \in F : Below(F, b) \subseteq F
    BY DEF Below
  <2> QED BY <2>1, FS_Subset, FS_CardinalityType
<1>3. \A k \in Nat : First(F, k) \subseteq F /\ IsFiniteSet(First(F, k))
                       /\ Cardinality(First(F, k)) \in Nat
  <2>1. \A k \in Nat : First(F, k) \subseteq F
    BY DEF First
  <2> QED BY <2>1, FS_Subset, FS_CardinalityType
<1>4. SUFFICES ASSUME Wrong # {} PROVE FALSE
  OBVIOUS
<1>5. PICK k \in Wrong : \A j \in Wrong : k <= j
  BY <1>4, LowestInSet
<1>6. k \in Nat /\ k <= Cardinality(F) /\ Cardinality(First(F, k)) # k
  BY <1>5
<1>7. k # 0
  <2>1. First(F, 0) = {}
    <3>1. ASSUME NEW b \in F PROVE ~(Cardinality(Below(F, b)) < 0)
      <4>1. Cardinality(Below(F, b)) \in Nat
        BY <1>2
      <4> QED BY <4>1
    <3> QED BY <3>1 DEF First
  <2> QED BY <1>6, <2>1, FS_EmptySet
<1>8. k - 1 \in Nat /\ Cardinality(First(F, k - 1)) = k - 1
  BY <1>1, <1>5, <1>6, <1>7
<1> HIDE DEF Wrong
<1>9. PICK P : P = First(F, k - 1)
  OBVIOUS
<1>10. P \subseteq F /\ IsFiniteSet(P) /\ Cardinality(P) = k - 1
  BY <1>3, <1>8, <1>9
<1>11. F \ P # {}
  <2>1. SUFFICES ASSUME F \subseteq P PROVE FALSE
    OBVIOUS
  <2>2. F = P
    BY <1>10, <2>1
  <2> QED BY <1>1, <1>6, <1>8, <1>10, <2>2
<1>12. PICK x \in F \ P : \A y \in F \ P : x <= y
  <2>1. F \ P \subseteq Nat
    OBVIOUS
  <2> QED BY <1>11, <2>1, LowestInSet
<1>x. x \in F /\ x \notin P /\ x \in Nat
  BY <1>12
<1>y. \A y \in F : y \in P \/ x <= y
  BY <1>12
<1>13. ASSUME NEW e \in P PROVE e < x
  <2>1. SUFFICES ASSUME x < e PROVE FALSE
    BY <1>10, <1>12
  <2>2. Below(F, x) \subseteq Below(F, e)
    <3>1. SUFFICES ASSUME NEW c \in F, c < x PROVE c < e
      BY DEF Below
    <3>2. c \in Nat /\ e \in Nat
      BY <1>10
    <3> QED BY <1>x, <2>1, <3>1, <3>2
  <2>3. Cardinality(Below(F, x)) <= Cardinality(Below(F, e))
    BY <1>2, <1>10, <2>2, FS_Subset
  <2>4. Cardinality(Below(F, e)) < k - 1
    BY <1>9, <1>13 DEF First
  <2>5. ~(Cardinality(Below(F, x)) < k - 1)
    BY <1>9, <1>12 DEF First
  <2> QED BY <1>2, <1>8, <1>10, <1>12, <2>3, <2>4, <2>5
<1>14. Below(F, x) = P
  <2>1. \A c \in F : c < x <=> c \in P
    BY <1>10, <1>x, <1>y, <1>13
  <2> QED BY <1>10, <2>1 DEF Below
<1>15. First(F, k) = P \cup {x}
  <2>1. x \in First(F, k)
    <3>1. Cardinality(Below(F, x)) < k
      BY <1>6, <1>10, <1>14
    <3> QED BY <1>12, <3>1 DEF First
  <2>2. ASSUME NEW e \in P PROVE e \in First(F, k)
    <3>1. e \in F /\ Cardinality(Below(F, e)) < k - 1
      BY <1>9, <2>2 DEF First
    <3>2. Cardinality(Below(F, e)) < k
      BY <1>2, <1>6, <3>1
    <3> QED BY <3>1, <3>2 DEF First
  <2>3. ASSUME NEW y \in First(F, k), y \notin P, y # x PROVE FALSE
    <3>1. y \in F /\ Cardinality(Below(F, y)) < k
      BY <2>3 DEF First
    <3>2. x < y
      BY <1>12, <2>3, <3>1
    <3>3. P \cup {x} \subseteq Below(F, y)
      BY <1>10, <1>12, <1>13, <3>1, <3>2 DEF Below
    <3>4. Cardinality(P \cup {x}) <= Cardinality(Below(F, y))
      BY <1>2, <3>1, <3>3, FS_Subset
    <3>5. Cardinality(P \cup {x}) = k
      <4>1. Cardinality(P \cup {x}) = Cardinality(P) + 1
        BY <1>10, <1>x, FS_AddElement
      <4> QED BY <1>6, <1>10, <4>1
    <3> QED BY <1>2, <1>6, <3>1, <3>4, <3>5
  <2> QED BY <2>1, <2>2, <2>3
<1>16. Cardinality(First(F, k)) = k
  <2>1. Cardinality(P \cup {x}) = Cardinality(P) + 1
    BY <1>10, <1>x, FS_AddElement
  <2> QED BY <1>6, <1>10, <1>15, <2>1
<1> QED BY <1>6, <1>16

\* The heap hands out as many blocks as it is asked for while it has them.
LEMMA FreshCount ==
  ASSUME NEW n \in Nat, n <= FreeBlocks
  PROVE  Cardinality(Fresh(n)) = n
<1>1. Blocks \ live \subseteq Nat /\ IsFiniteSet(Blocks \ live)
  BY NumbersAssumption, FiniteAssumption, FS_Subset
<1>2. Fresh(n) = First(Blocks \ live, n)
  BY DEF Fresh, First, Below
<1> QED BY <1>1, <1>2, FirstCount DEF FreeBlocks

\* The count is a number.
LEMMA CountTyped ==
  ASSUME CountInv
  PROVE  IsFiniteSet(CountedThreads) /\ count \in Nat
BY ThreadCount DEF CountInv, CountedThreads

\* A step that does not move the threads the count stands for.
LEMMA CountKept ==
  ASSUME CountInv, UNCHANGED <<count, tlspLock>>,
         \A u \in Threads :
           /\ (u \in record' /\ pc'[u] = "run") <=> (u \in record /\ pc[u] = "run")
           /\ pc'[u] = "dec" <=> pc[u] = "dec"
           /\ pc'[u] \in {"check", "checkPlain"} => pc[u] \in {"check", "checkPlain"}
           /\ seen'[u] = seen[u]
  PROVE  CountInv'
<1>1. CountedThreads' = CountedThreads
  BY DEF CountedThreads
<1> QED BY <1>1 DEF CountInv

\* A step that leaves the threads, the count and the lock alone keeps them in step.
LEMMA CountStill ==
  ASSUME CountInv, count' = count, tlspLock' = tlspLock, pc' = pc, record' = record, seen' = seen
  PROVE  CountInv'
BY DEF CountInv, CountedThreads

\* The count follows the threads: a start adds its thread at its last step, an exit
\* unlinks the record first and writes the decrement under the lock it still holds.
LEMMA ThreadStepKeepsCountInv ==
  ASSUME Faults = {}, ZeroLength = {}, TypeOK, ThreadsInv, ~(Starting /\ Exiting), CountInv,
         NEW t \in Threads,
         NtdllStartsThread(t) \/ HookLdrShutdownThread(t) \/ Inside(t)
  PROVE  CountInv'
<1>0. /\ pc \in [Threads -> ThreadPc] /\ record \subseteq Threads /\ seen \in [Threads -> Int]
      /\ RecordInv /\ VectorInv
  BY DEF TypeOK, ThreadsInv
<1>1. CASE NtdllStartsThread(t)
  BY <1>0, <1>1, CountKept DEF NtdllStartsThread, lockVars
<1>2. CASE MmpUserThreadStart(t)
  BY <1>0, <1>2, CountKept DEF MmpUserThreadStart, RecordInv
<1>3. CASE TlspRecordFound(t)
  BY <1>0, <1>3 DEF TlspRecordFound, RecordInv
<1>4. CASE TlspReplaced(t)
  BY <1>0, <1>4, CountKept DEF TlspReplaced, lockVars
<1>5. CASE ListShared(t) \/ ListDone(t)
  BY <1>0, <1>5, CountKept DEF ListShared, ListDone
<1>6. ASSUME NEW m \in Modules, EntryFilled(t, m) PROVE CountInv'
  BY <1>0, <1>6, CountKept DEF EntryFilled, lockVars
<1>7. CASE Counted(t)
  <2>1. /\ pc' = [pc EXCEPT ![t] = "run"] /\ count' = count + 1
        /\ UNCHANGED <<record, seen, tlspLock>> /\ pc[t] = "count" /\ t \in record
    BY <1>0, <1>7 DEF Counted, Runs, VectorInv
  <2>2. \A u \in Threads : pc[u] \notin {"dec", "check", "checkPlain"}
    BY <2>1 DEF Starting, Exiting, StartPc, ExitPc
  <2>3. CountedThreads' = CountedThreads \cup {t} /\ t \notin CountedThreads
    BY <1>0, <2>1 DEF CountedThreads
  <2>4. count' = Cardinality(CountedThreads')
    BY <2>1, <2>3, CountTyped, FS_AddElement DEF CountInv
  <2> QED BY <1>0, <2>1, <2>2, <2>4 DEF CountInv
<1>8. CASE HookLdrShutdownThread(t)
  <2>1. /\ pc[t] = "run" /\ tlspLock = None /\ tlspLock' = t /\ UNCHANGED count
        /\ record' = record \ {t}
        /\ \A u \in Threads : u # t => pc'[u] = pc[u] /\ seen'[u] = seen[u]
        /\ IF t \in record THEN pc'[t] = "dec" /\ seen'[t] = count ELSE pc'[t] = "checkPlain"
    BY <1>0, <1>8 DEF HookLdrShutdownThread
  <2>2. \A u \in Threads : pc[u] \notin {"dec", "check", "checkPlain"}
    BY <2>1, NoneAssumption DEF CountInv
  <2>3. CountedThreads' = CountedThreads
    BY <2>1 DEF CountedThreads
  <2> QED BY <2>1, <2>2, <2>3 DEF CountInv
<1>9. CASE Uncounted(t)
  <2>1. /\ pc[t] = "dec" /\ count' = count - 1 /\ UNCHANGED <<record, tlspLock>>
        /\ pc' = [pc EXCEPT ![t] = "check"] /\ tlspLock = t
    BY <1>0, <1>9 DEF Uncounted, CountInv, lockVars
  <2>2. \A u \in Threads : u # t => pc[u] \notin {"dec", "check", "checkPlain"}
    BY <2>1 DEF CountInv
  <2>3. CountedThreads' = CountedThreads \ {t} /\ t \in CountedThreads
    BY <1>0, <2>1 DEF CountedThreads
  <2>4. count' = Cardinality(CountedThreads')
    BY <2>1, <2>3, CountTyped, FS_RemoveElement DEF CountInv
  <2> QED BY <1>0, <2>1, <2>2, <2>4 DEF CountInv
<1>10. CASE TlspLeft(t)
  <2>1. /\ pc[t] \in {"check", "checkPlain"} /\ UNCHANGED <<count, record, seen>>
        /\ pc'[t] \in {"queue", "orig"} /\ \A u \in Threads : u # t => pc'[u] = pc[u]
    BY <1>0, <1>10 DEF TlspLeft
  <2>2. \A u \in Threads : u # t => pc[u] \notin {"dec", "check", "checkPlain"}
    BY <2>1 DEF CountInv
  <2>3. CountedThreads' = CountedThreads
    BY <2>1 DEF CountedThreads
  <2> QED BY <2>1, <2>2, <2>3 DEF CountInv
<1>11. CASE MmpQueuePostponedTls(t)
  BY <1>0, <1>11, CountKept DEF MmpQueuePostponedTls, lockVars
<1>12. CASE OriginLdrShutdownThread(t)
  BY <1>0, <1>12, CountKept DEF OriginLdrShutdownThread, lockVars
<1>13. CASE ReleasePostponedTls(t)
  BY <1>0, <1>13, CountKept DEF ReleasePostponedTls, lockVars
<1>14. \A m \in Modules : ~EntryFailed(t, m)
  BY DEF EntryFailed
<1>15. ~TlspAllocationFailed(t) /\ ~Killed(t)
  BY DEF TlspAllocationFailed, Killed
<1> QED BY <1>1, <1>2, <1>3, <1>4, <1>5, <1>6, <1>7, <1>8, <1>9, <1>10, <1>11, <1>12, <1>13,
           <1>14, <1>15 DEF Inside, StartStep, ExitStep

\* Nothing changes the count while a load is under way.
LEMMA CountStandsStill ==
  ASSUME Faults = {}, TypeOK, NEW t \in Threads,
         NtdllStartsThread(t) \/ HookLdrShutdownThread(t) \/ Inside(t),
         ~Starting, ~Exiting
  PROVE  UNCHANGED count
<1>1. ~StartStep(t) \/ UNCHANGED count
  BY DEF StartStep, MmpUserThreadStart, TlspRecordFound, TlspAllocationFailed, TlspReplaced,
     ListShared, EntryFilled, EntryFailed, ListDone, Counted, Starting, StartPc
<1>2. ~ExitStep(t) \/ UNCHANGED count
  BY DEF ExitStep, Uncounted, TlspLeft, MmpQueuePostponedTls, OriginLdrShutdownThread,
     Exiting, ExitPc
<1> QED BY <1>1, <1>2 DEF Inside, NtdllStartsThread, HookLdrShutdownThread, Killed,
           ReleasePostponedTls

\* While nobody starts or exits, the threads with a vector are those with a record.
LEMMA HoldersAreRecorded ==
  ASSUME TypeOK, ThreadsInv, ~Starting, ~Exiting
  PROVE  Holders = record /\ CountedThreads = record
<1>1. \A t \in Threads : pc[t] \in {"none", "run", "dead"}
  BY DEF TypeOK, ThreadPc, Starting, Exiting
<1>2. \A t \in Threads : t \in record <=> pc[t] = "run" /\ teb[t] # "null"
  BY <1>1 DEF ThreadsInv, RecordInv, VectorInv
<1>3. \A t \in Threads : teb[t] # "null" => pc[t] = "run"
  BY <1>1 DEF ThreadsInv, ShortInv
<1> QED BY <1>1, <1>2, <1>3 DEF Holders, CountedThreads, TypeOK

\* A load neither changes the count nor comes to correct it.
LEMMA LoadStepKeepsEnoughInv ==
  ASSUME Faults = {}, TypeOK, ThreadsInv, ApartInv, CountInv, EnoughInv, LoadStep
  PROVE  EnoughInv' /\ count' = count /\ tlspLock' = tlspLock
<1>0. ld \in LoaderState /\ Idle.pc = "idle"
  BY DEF TypeOK, Idle
<1> USE DEF EnoughInv, LoaderState, lockVars
<1>1. CASE MmpAllocateTlsEntry
  BY <1>0, <1>1 DEF MmpAllocateTlsEntry
<1>2. CASE ThreadDataAllocated
  <2>1. count \in Nat /\ Cardinality(Fresh(count)) = count
    BY <1>2, CountTyped, FreshCount DEF ThreadDataAllocated
  <2> QED BY <1>0, <1>2, <2>1 DEF ThreadDataAllocated
<1>3. CASE ThreadDataRefused
  BY <1>0, <1>3 DEF ThreadDataRefused
<1>4. CASE UndoTlsEntry
  BY <1>0, <1>4 DEF UndoTlsEntry
<1>5. CASE KernelReplacesIndex
  <2>1. ~Starting /\ ~Exiting /\ ld.pc = "kernel"
    BY <1>5 DEF KernelReplacesIndex, ApartInv, Loading
  <2>2. Cardinality(Holders) = Cardinality(ld.data)
    BY <2>1, HoldersAreRecorded DEF CountInv
  <2>3. PICK K \in SUBSET Holders :
          /\ K = Holders \/ Cardinality(K) = Cardinality(ld.data)
          /\ \E f \in Injections(K, ld.data) :
               ld' = [ld EXCEPT !.pc = "map", !.new = f,
                        !.was = [t \in K |-> IF teb[t] = "mmp" THEN slot[t][ld.idx] ELSE None]]
    BY <1>5 DEF KernelReplacesIndex
  <2>4. PICK f \in Injections(K, ld.data) :
          ld' = [ld EXCEPT !.pc = "map", !.new = f,
                   !.was = [t \in K |-> IF teb[t] = "mmp" THEN slot[t][ld.idx] ELSE None]]
    BY <2>3
  <2>5. DOMAIN f = K /\ ld'.pc = "map" /\ ld'.new = f /\ ld'.data = ld.data
    BY <1>0, <2>4 DEF Injections
  <2>6. UNCHANGED <<count, tlspLock>>
    BY <1>5 DEF KernelReplacesIndex
  <2> QED BY <2>2, <2>3, <2>5, <2>6
<1>6. CASE HookNtSetInformationProcess
  <2>1. Cardinality(ld.data) \in Int
    BY <1>0, BlockCount
  <2> QED BY <1>0, <1>6, <2>1 DEF HookNtSetInformationProcess
<1>7. CASE ThreadDataFreed
  BY <1>0, <1>7 DEF ThreadDataFreed, Finished
<1>8. ~KernelRefuses /\ ~CountRead /\ ~CountCorrected /\ ~CorrectionLeft
  BY DEF KernelRefuses, CountRead, CountCorrected, CorrectionLeft
<1> QED BY <1>1, <1>2, <1>3, <1>4, <1>5, <1>6, <1>7, <1>8 DEF LoadStep

\* What the theorems below assume of the host: loads, starts and exits of threads apart,
\* nothing that fails, and no directory without raw data.
Quiet == Overlap = {} /\ Faults = {} /\ ZeroLength = {}

QuietInv == IInv /\ ThreadsInv /\ ApartInv /\ CountInv /\ EnoughInv

\* The initial state is quiet.
LEMMA InitQuietInv == Init => QuietInv
<1> SUFFICES ASSUME Init PROVE QuietInv
  OBVIOUS
<1>1. IInv /\ ThreadsInv
  BY InitTyped, InitLoadInv, InitThreadsInv DEF IInv, LoadInv
<1>2. ApartInv
  BY InitApart DEF ApartInv
<1>3. CountedThreads = Initial
  BY ThreadsAssumption DEF Init, CountedThreads
<1>4. CountInv
  BY <1>3 DEF Init, CountInv
<1>5. EnoughInv
  BY DEF Init, EnoughInv, Idle
<1> QED BY <1>1, <1>2, <1>4, <1>5 DEF QuietInv

\* Every step keeps the parts that are not in IInv.
LEMMA NextQuietInv ==
  ASSUME Quiet, QuietInv, [Next]_vars
  PROVE  ThreadsInv' /\ ApartInv' /\ CountInv' /\ EnoughInv'
<1>0. /\ TypeOK /\ LocalsInv /\ ThreadsInv /\ ApartInv /\ CountInv /\ EnoughInv
      /\ Overlap = {} /\ Faults = {} /\ ZeroLength = {}
  BY DEF QuietInv, IInv, Quiet
<1>1. ThreadsInv' /\ ApartInv'
  BY <1>0, NextThreadsInv, ApartKept DEF ApartInv
<1>2. ASSUME NEW t \in Threads, NtdllStartsThread(t) \/ HookLdrShutdownThread(t) \/ Inside(t)
      PROVE  CountInv' /\ EnoughInv'
  <2>1. CountInv'
    BY <1>0, <1>2, ThreadStepKeepsCountInv DEF ApartInv
  <2>2. UNCHANGED ld
    BY <1>0, <1>2, InsideMoves DEF NtdllStartsThread, HookLdrShutdownThread, moduleVars
  <2>3. ld.pc = "kernel" => UNCHANGED count
    BY <1>0, <1>2, CountStandsStill DEF ApartInv, Loading
  <2> QED BY <1>0, <2>1, <2>2, <2>3 DEF EnoughInv
<1>3. ASSUME NEW m \in Modules, MmpAcquireTlsIndex(m) \/ TlsEntryRefused(m) \/ MmpReleaseTlsEntry(m)
      PROVE  CountInv' /\ EnoughInv'
  <2>1. UNCHANGED <<count, tlspLock, pc, record, seen>>
    BY <1>3 DEF MmpAcquireTlsIndex, TlsEntryRefused, MmpReleaseTlsEntry, threadVars, lockVars
  <2>2. CountInv'
    BY <1>0, <2>1, CountStill
  <2>3. EnoughInv'
    <3>1. UNCHANGED ld \/ ld'.pc = "insert"
      BY <1>3 DEF MmpAcquireTlsIndex, TlsEntryRefused, MmpReleaseTlsEntry, Idle
    <3> QED BY <1>0, <2>1, <3>1 DEF EnoughInv
  <2> QED BY <2>2, <2>3
<1>4. ASSUME LoadStep PROVE CountInv' /\ EnoughInv'
  <2>1. EnoughInv' /\ count' = count /\ tlspLock' = tlspLock
    BY <1>0, <1>4, LoadStepKeepsEnoughInv
  <2>2. pc' = pc /\ record' = record /\ seen' = seen
    BY <1>4, LoadStepKeepsThreads
  <2>3. CountInv'
    BY <1>0, <2>1, <2>2, CountStill
  <2> QED BY <2>1, <2>3
<1>5. ASSUME UNCHANGED vars PROVE CountInv' /\ EnoughInv'
  <2>1. /\ count' = count /\ tlspLock' = tlspLock /\ pc' = pc /\ record' = record
        /\ seen' = seen /\ ld' = ld
    BY <1>5 DEF vars, threadVars, moduleVars, lockVars
  <2>2. EnoughInv'
    BY <1>0, <2>1 DEF EnoughInv
  <2>3. CountInv'
    BY <1>0, <2>1, CountStill
  <2> QED BY <2>2, <2>3
<1>6. CountInv' /\ EnoughInv'
  BY <1>2, <1>3, <1>4, <1>5 DEF Next, Inside
<1> QED BY <1>1, <1>6

\* When the host keeps loads, starts and exits apart and nothing fails, the count follows the
\* threads through every start and exit (MmpTls.cpp:139-217 and 297-322), and a load finds a
\* block for each of them (MmpTls.cpp:673-733).
THEOREM QuietInvariance ==
  ASSUME Quiet
  PROVE  Spec => []QuietInv
<1>1. QuietInv /\ [Next]_vars => QuietInv'
  BY NextIInv, NextQuietInv DEF QuietInv
<1> QED BY <1>1, InitQuietInv, PTL DEF Spec

\* Between operations the count is the number of threads that have a vector of the loader's
\* and so need a copy of a module's data (MmpTls.cpp:217, 304, 673 and 733).
THEOREM CountTheorem ==
  ASSUME Quiet
  PROVE  Spec => []CountIsExact
<1>1. QuietInv => CountIsExact
  <2> SUFFICES ASSUME QuietInv, ~Starting, ~Exiting
               PROVE  count = Cardinality({ t \in Threads : pc[t] = "run" /\ teb[t] = "mmp" })
    BY DEF CountIsExact
  <2>0. TypeOK /\ ThreadsInv /\ CountInv
    BY DEF QuietInv, IInv
  <2>1. CountedThreads = record
    BY <2>0, HoldersAreRecorded
  <2>2. { t \in Threads : pc[t] = "run" /\ teb[t] = "mmp" } = record
    <3>1. \A t \in Threads : t \in record => pc[t] = "run" /\ teb[t] = "mmp"
      BY <2>0 DEF TypeOK, ThreadPc, Starting, Exiting, StartPc, ExitPc, ThreadsInv, RecordInv
    <3>2. \A t \in Threads : pc[t] = "run" /\ teb[t] = "mmp" => t \in record
      BY <2>0 DEF ThreadsInv, VectorInv
    <3> QED BY <2>0, <3>1, <3>2 DEF TypeOK
  <2> QED BY <2>0, <2>1, <2>2 DEF CountInv
<1> QED BY <1>1, QuietInvariance, PTL

-----------------------------------------------------------------------------
(* The data.                                                               *)

\* No vector points to b.
Unowned(b) == \A t \in Threads, i \in Indices : Owned(t)[i] # b

\* A block is in one slot of one vector, and it is allocated.
OwnedInv ==
  /\ \A t, u \in Threads, i, j \in Indices :
       Owned(t)[i] # None /\ Owned(t)[i] = Owned(u)[j] => t = u /\ i = j
  /\ \A t \in Threads, i \in Indices : Owned(t)[i] \in live \cup {None}

\* The copy in the postponed list is the vector of a thread that has just made it or of
\* one that is gone; a thread without a vector of ours owns nothing.
CopyInv ==
  \A t \in Threads :
    /\ t \in postponed => pc[t] \in {"orig", "dead"}
    /\ t \in postponed /\ pc[t] = "orig" => old[t] = slot[t]
    /\ pc[t] \in {"none", "dead", "born", "start"} => slot[t] = Empty

\* What the loading thread holds is allocated and in no vector, but for what the kernel
\* has put into them.
HeldInv ==
  /\ ld.pc = "kernel" => \A b \in ld.data : b \in live /\ Unowned(b)
  /\ ld.pc = "map" =>
       /\ DOMAIN ld.new = record
       /\ \A t \in record : slot[t][ld.idx] = ld.new[t] /\ ld.new[t] \in live
       /\ \A t \in record : ld.was[t] # None => ld.was[t] \in live /\ Unowned(ld.was[t])
       /\ \A b \in ld.data \ { ld.new[t] : t \in record } : b \in live /\ Unowned(b)
  /\ ld.pc = "free" => \A b \in ld.toFree : b \in live /\ Unowned(b)
  /\ ld.pc \in {"idle", "insert", "alloc", "kernel", "map", "undo"} => ld.toFree = {}

\* A starting thread has its data from the entry it has handled on; the module being
\* loaded gives its data to every thread at once.
DataInv ==
  \A t \in Threads :
    /\ filled[t] \subseteq tlsList /\ (pc[t] # "fill" => filled[t] = {})
    /\ pc[t] = "fill" => t \in sharers /\ \A m \in filled[t] : slot[t][index[m]] \in live
    /\ pc[t] = "count" => \A m \in tlsList : slot[t][index[m]] \in live
    /\ pc[t] \in {"run"} \cup ExitPc /\ teb[t] = "mmp" =>
         /\ \A m \in loaded : slot[t][index[m]] \in live
         /\ ld.pc \in {"map", "free"} => slot[t][ld.idx] \in live

\* Until a thread is gone its vector is the one somebody will free the data of.
LEMMA OwnedVector ==
  ASSUME CopyInv, NEW t \in Threads, pc[t] # "dead"
  PROVE  Owned(t) = slot[t]
BY DEF CopyInv, Owned

\* A vector holds pointers, and the null pointer is no block.
LEMMA OwnedTyped ==
  ASSUME TypeOK, NEW t \in Threads
  PROVE  Owned(t) \in [Indices -> Pointer] /\ None \notin live
BY NoneAssumption DEF TypeOK, Owned

\* Who owns a block is read off the vectors and the postponed copies.
LEMMA OwnedStill ==
  ASSUME UNCHANGED <<slot, old, postponed>>
  PROVE  \A t \in Threads : Owned(t)' = Owned(t)
BY DEF Owned

\* Ownership that does not change stays single while no block goes.
LEMMA OwnedKept ==
  ASSUME OwnedInv, live \subseteq live', \A t \in Threads : Owned(t)' = Owned(t)
  PROVE  OwnedInv'
BY DEF OwnedInv

\* The copy is made in the step that queues the thread, and ntdll empties the vector after it.
LEMMA ThreadStepKeepsCopyInv ==
  ASSUME Quiet, TypeOK, ThreadsInv, CopyInv, NEW t \in Threads,
         NtdllStartsThread(t) \/ HookLdrShutdownThread(t) \/ Inside(t)
  PROVE  CopyInv'
<1> USE DEF CopyInv, Runs
<1>0. pc \in [Threads -> ThreadPc] /\ slot \in [Threads -> [Indices -> Pointer]]
      /\ old \in [Threads -> [Indices -> Pointer]] /\ postponed \subseteq Threads
  BY DEF TypeOK
<1>1. CASE NtdllStartsThread(t)
  BY <1>0, <1>1 DEF NtdllStartsThread
<1>2. CASE HookLdrShutdownThread(t)
  BY <1>0, <1>2 DEF HookLdrShutdownThread
<1>3. CASE MmpUserThreadStart(t)
  BY <1>0, <1>3 DEF MmpUserThreadStart
<1>4. CASE TlspRecordFound(t)
  BY <1>0, <1>4 DEF TlspRecordFound
<1>5. CASE TlspReplaced(t)
  BY <1>0, <1>5 DEF TlspReplaced
<1>6. CASE ListShared(t)
  BY <1>0, <1>6 DEF ListShared
<1>7. ASSUME NEW m \in Modules, EntryFilled(t, m) PROVE CopyInv'
  <2>1. /\ pc[t] = "fill" /\ UNCHANGED <<pc, old, postponed>>
        /\ \A u \in Threads : u # t => slot'[u] = slot[u]
    BY <1>0, <1>7 DEF EntryFilled
  <2> QED BY <2>1
<1>8. CASE ListDone(t)
  BY <1>0, <1>8 DEF ListDone
<1>9. CASE Counted(t)
  BY <1>0, <1>9 DEF Counted
<1>10. CASE Uncounted(t)
  BY <1>0, <1>10 DEF Uncounted
<1>11. CASE TlspLeft(t)
  BY <1>0, <1>11 DEF TlspLeft
<1>12. CASE MmpQueuePostponedTls(t)
  BY <1>0, <1>12 DEF MmpQueuePostponedTls
<1>13. CASE OriginLdrShutdownThread(t)
  BY <1>0, <1>13 DEF OriginLdrShutdownThread
<1>14. CASE ReleasePostponedTls(t)
  BY <1>0, <1>14 DEF ReleasePostponedTls
<1>15. \A m \in Modules : ~EntryFailed(t, m)
  BY DEF EntryFailed, Quiet
<1>16. ~TlspAllocationFailed(t) /\ ~Killed(t)
  BY DEF TlspAllocationFailed, Killed, Quiet
<1> HIDE DEF CopyInv, Runs
<1> QED BY <1>1, <1>2, <1>3, <1>4, <1>5, <1>6, <1>7, <1>8, <1>9, <1>10, <1>11, <1>12, <1>13,
           <1>14, <1>15, <1>16 DEF Inside, StartStep, ExitStep

\* A new block is in no vector yet.
LEMMA FillKeepsOwnedInv ==
  ASSUME TypeOK, IndexInv, CopyInv, OwnedInv, NEW t \in Threads, NEW m \in Modules,
         EntryFilled(t, m)
  PROVE  OwnedInv'
<1>1. PICK b \in Fresh(1) : live' = live \cup {b} /\ slot' = [slot EXCEPT ![t][index[m]] = b]
  BY DEF EntryFilled
<1>2. b \in Blocks /\ b \notin live /\ b # None
  BY <1>1, NoneAssumption DEF Fresh
<1>3. index[m] \in Indices
  BY DEF EntryFilled, IndexInv
<1>4. UNCHANGED <<old, postponed>> /\ pc[t] = "fill" /\ t \notin postponed
  BY DEF EntryFilled, CopyInv
<1>5. \A u \in Threads : u # t => Owned(u)' = Owned(u)
  BY <1>1, <1>4 DEF Owned, TypeOK
<1>6. Owned(t)' = slot'[t] /\ Owned(t) = slot[t]
  BY <1>4 DEF Owned
<1>7. slot'[t] = [slot[t] EXCEPT ![index[m]] = b] /\ slot[t] \in [Indices -> Pointer]
  BY <1>1, <1>3 DEF TypeOK
<1>8. Owned(t)'[index[m]] = b /\ \A i \in Indices : i # index[m] => Owned(t)'[i] = Owned(t)[i]
  BY <1>3, <1>6, <1>7
<1>9. \A u \in Threads, i \in Indices : Owned(u)[i] # b
  BY <1>2 DEF OwnedInv
<1>10. \A u \in Threads, i \in Indices :
         Owned(u)'[i] = IF u = t /\ i = index[m] THEN b ELSE Owned(u)[i]
  BY <1>5, <1>8
<1> HIDE DEF OwnedInv
<1>11. \A u, v \in Threads, i, j \in Indices :
         Owned(u)'[i] # None /\ Owned(u)'[i] = Owned(v)'[j] => u = v /\ i = j
  BY <1>9, <1>10 DEF OwnedInv
<1>12. \A u \in Threads, i \in Indices : Owned(u)'[i] \in live' \cup {None}
  BY <1>1, <1>10 DEF OwnedInv
<1> QED BY <1>11, <1>12 DEF OwnedInv

\* The worker frees what only the dead thread's copy pointed to.
LEMMA ReleaseFreesItsOwn ==
  ASSUME TypeOK, IndexInv, CopyInv, OwnedInv, NEW t \in Threads, ReleasePostponedTls(t)
  PROVE  /\ \A u \in Threads : u # t => Owned(u)' = Owned(u)
         /\ \A i \in Indices : Owned(t)'[i] = None
         /\ \A b \in live : (\A i \in Indices : Owned(t)[i] # b) => b \in live'
         /\ \A u \in Threads, i \in Indices : u # t /\ Owned(u)[i] \in live => Owned(u)[i] \in live'
<1>1. /\ t \in postponed /\ pc[t] = "dead"
      /\ live' = live \ { old[t][index[m]] : m \in tlsList }
      /\ postponed' = postponed \ {t} /\ old' = [old EXCEPT ![t] = Empty] /\ slot' = slot
  BY DEF ReleasePostponedTls
<1>2. Owned(t) = old[t] /\ slot[t] = Empty
  BY <1>1 DEF Owned, CopyInv
<1>3. \A u \in Threads : u # t => Owned(u)' = Owned(u)
  BY <1>1 DEF Owned, TypeOK
<1>4. Owned(t)' = Empty
  BY <1>1, <1>2 DEF Owned
<1>5. \A i \in Indices : Owned(t)'[i] = None
  BY <1>4 DEF Empty
<1>6. \A b \in live : (\A i \in Indices : Owned(t)[i] # b) => b \in live'
  BY <1>1, <1>2 DEF IndexInv
<1>7. ASSUME NEW u \in Threads, NEW i \in Indices, u # t, Owned(u)[i] \in live
      PROVE  Owned(u)[i] \in live'
  <2>1. Owned(u)[i] # None
    BY <1>7, OwnedTyped
  <2>2. \A j \in Indices : Owned(t)[j] # Owned(u)[i]
    BY <1>7, <2>1 DEF OwnedInv
  <2> QED BY <1>6, <1>7, <2>2
<1> QED BY <1>3, <1>5, <1>6, <1>7

\* So what the others own stays allocated.
LEMMA ReleaseKeepsOwnedInv ==
  ASSUME TypeOK, IndexInv, CopyInv, OwnedInv, NEW t \in Threads, ReleasePostponedTls(t)
  PROVE  OwnedInv'
<1>1. \A u \in Threads, i \in Indices : Owned(u)'[i] = IF u = t THEN None ELSE Owned(u)[i]
  BY ReleaseFreesItsOwn
<1>2. \A u, v \in Threads, i, j \in Indices :
        Owned(u)'[i] # None /\ Owned(u)'[i] = Owned(v)'[j] => u = v /\ i = j
  BY <1>1 DEF OwnedInv
<1>3. \A u \in Threads, i \in Indices : Owned(u)'[i] \in live' \cup {None}
  BY <1>1, ReleaseFreesItsOwn DEF OwnedInv
<1> QED BY <1>2, <1>3 DEF OwnedInv

\* A thread that fills its vector takes new blocks; one that is queued hands its own on.
LEMMA ThreadStepKeepsOwnedInv ==
  ASSUME Quiet, TypeOK, IndexInv, CopyInv, OwnedInv, NEW t \in Threads,
         NtdllStartsThread(t) \/ HookLdrShutdownThread(t) \/ Inside(t)
  PROVE  OwnedInv'
<1>1. ASSUME UNCHANGED <<slot, old, postponed, live>> PROVE OwnedInv'
  BY <1>1, OwnedStill, OwnedKept
<1>2. CASE NtdllStartsThread(t) \/ HookLdrShutdownThread(t)
  BY <1>1, <1>2 DEF NtdllStartsThread, HookLdrShutdownThread
<1>3. CASE MmpUserThreadStart(t) \/ TlspRecordFound(t) \/ ListShared(t) \/ ListDone(t) \/ Counted(t)
  BY <1>1, <1>3 DEF MmpUserThreadStart, TlspRecordFound, ListShared, ListDone, Counted
<1>4. CASE TlspReplaced(t)
  <2>1. slot' = slot
    BY <1>4 DEF TlspReplaced, CopyInv, TypeOK
  <2> QED BY <1>1, <1>4, <2>1 DEF TlspReplaced
<1>5. ASSUME NEW m \in Modules, EntryFilled(t, m) PROVE OwnedInv'
  BY <1>5, FillKeepsOwnedInv
<1>6. CASE Uncounted(t) \/ TlspLeft(t)
  BY <1>1, <1>6 DEF Uncounted, TlspLeft
<1>7. CASE MmpQueuePostponedTls(t)
  <2>1. /\ pc[t] = "queue" /\ postponed' = postponed \cup {t} /\ UNCHANGED <<slot, live>>
        /\ old' = [old EXCEPT ![t] = slot[t]]
    BY <1>7 DEF MmpQueuePostponedTls
  <2>2. Owned(t) = slot[t] /\ Owned(t)' = slot[t]
    BY <2>1 DEF Owned, CopyInv, TypeOK
  <2>3. \A u \in Threads : u # t => Owned(u)' = Owned(u)
    BY <2>1 DEF Owned, TypeOK
  <2> QED BY <2>1, <2>2, <2>3, OwnedKept
<1>8. CASE OriginLdrShutdownThread(t)
  <2>1. UNCHANGED <<old, postponed, live>> /\ slot' = [slot EXCEPT ![t] = Empty]
    BY <1>8 DEF OriginLdrShutdownThread
  <2>2. \A u \in Threads : Owned(u)' = Owned(u) \/ Owned(u)' = Empty
    BY <2>1 DEF Owned, TypeOK
  <2>3. \A u \in Threads, i \in Indices : Owned(u)'[i] = Owned(u)[i] \/ Owned(u)'[i] = None
    BY <2>2 DEF Empty
  <2>4. \A u, v \in Threads, i, j \in Indices :
          Owned(u)'[i] # None /\ Owned(u)'[i] = Owned(v)'[j] => u = v /\ i = j
    BY <2>3 DEF OwnedInv
  <2>5. \A u \in Threads, i \in Indices : Owned(u)'[i] \in live' \cup {None}
    BY <2>1, <2>3 DEF OwnedInv
  <2> QED BY <2>4, <2>5 DEF OwnedInv
<1>9. CASE ReleasePostponedTls(t)
  BY <1>9, ReleaseKeepsOwnedInv
<1>10. \A m \in Modules : ~EntryFailed(t, m)
  BY DEF EntryFailed, Quiet
<1>11. ~TlspAllocationFailed(t) /\ ~Killed(t)
  BY DEF TlspAllocationFailed, Killed, Quiet
<1> QED BY <1>2, <1>3, <1>4, <1>5, <1>6, <1>7, <1>8, <1>9, <1>10, <1>11
        DEF Inside, StartStep, ExitStep

\* Of the steps of threads only the worker's falls into a load.
LEMMA ThreadStepKeepsHeldInv ==
  ASSUME Quiet, TypeOK, LocalsInv, IndexInv, ThreadsInv, ApartInv, CopyInv, OwnedInv, HeldInv,
         NEW t \in Threads, NtdllStartsThread(t) \/ HookLdrShutdownThread(t) \/ Inside(t)
  PROVE  HeldInv'
<1>1. UNCHANGED ld
  BY InsideMoves DEF NtdllStartsThread, HookLdrShutdownThread, moduleVars
<1>2. CASE ~Loading
  BY <1>1, <1>2 DEF HeldInv, Loading
<1>3. CASE ReleasePostponedTls(t)
  <2>1. /\ pc[t] = "dead" /\ UNCHANGED <<slot, record, ld>>
    BY <1>1, <1>3 DEF ReleasePostponedTls
  <2>2. ASSUME NEW b \in live, Unowned(b) PROVE b \in live' /\ Unowned(b)'
    <3>1. b # None
      BY OwnedTyped
    <3> QED BY <1>3, <2>2, <3>1, ReleaseFreesItsOwn DEF Unowned
  <2>3. ASSUME NEW u \in record, NEW i \in Indices, slot[u][i] \in live PROVE slot[u][i] \in live'
    <3>1. u \in Threads /\ pc[u] # "dead"
      BY <2>3 DEF TypeOK, ThreadsInv, RecordInv
    <3>2. Owned(u) = slot[u] /\ u # t
      BY <2>1, <3>1, OwnedVector
    <3> QED BY <1>3, <2>3, <3>1, <3>2, ReleaseFreesItsOwn
  <2>4. CASE ld.pc = "map"
    <3>1. ld.idx \in Indices
      BY <2>4 DEF LocalsInv
    <3>2. \A u \in record : slot'[u][ld.idx] = ld.new[u] /\ ld.new[u] \in live'
      BY <2>1, <2>3, <2>4, <3>1 DEF HeldInv
    <3>3. \A u \in record : ld.was[u] # None => ld.was[u] \in live' /\ Unowned(ld.was[u])'
      BY <2>1, <2>2, <2>4 DEF HeldInv, Unowned
    <3>4. \A b \in ld.data \ { ld.new[u] : u \in record } : b \in live' /\ Unowned(b)'
      BY <2>2, <2>4 DEF HeldInv
    <3> QED BY <2>1, <2>4, <3>2, <3>3, <3>4 DEF HeldInv
  <2> QED BY <2>1, <2>2, <2>4 DEF HeldInv
<1>4. ASSUME Loading, ~ReleasePostponedTls(t) PROVE FALSE
  <2>1. ~Starting /\ ~Exiting
    BY <1>4 DEF ApartInv
  <2>2. ~NtdllStartsThread(t) /\ ~HookLdrShutdownThread(t) /\ ~Killed(t)
    BY <1>4 DEF NtdllStartsThread, HookLdrShutdownThread, Killed, MayStart, MayExit, Quiet
  <2>3. ~StartStep(t)
    BY <2>1 DEF StartStep, MmpUserThreadStart, TlspRecordFound, TlspAllocationFailed,
       TlspReplaced, ListShared, EntryFilled, EntryFailed, ListDone, Counted, Starting, StartPc
  <2>4. ~ExitStep(t)
    BY <2>1 DEF ExitStep, Uncounted, TlspLeft, MmpQueuePostponedTls, OriginLdrShutdownThread,
       Exiting, ExitPc
  <2> QED BY <1>4, <2>2, <2>3, <2>4 DEF Inside
<1> QED BY <1>2, <1>3, <1>4

\* What a thread other than the one that moves has stays there while no block goes.
LEMMA ThreadStepKeepsDataInv ==
  ASSUME Quiet, TypeOK, LocalsInv, ListInv, IndexInv, ThreadsInv, ApartInv, CopyInv, OwnedInv,
         DataInv, NEW t \in Threads,
         NtdllStartsThread(t) \/ HookLdrShutdownThread(t) \/ Inside(t)
  PROVE  DataInv'
<1>0. /\ pc \in [Threads -> ThreadPc] /\ slot \in [Threads -> [Indices -> Pointer]]
      /\ filled \in [Threads -> SUBSET Modules] /\ teb \in [Threads -> {"null", "ldr", "mmp"}]
      /\ \A m \in tlsList : index[m] \in Indices
  BY DEF TypeOK, IndexInv
<1>l. UNCHANGED <<tlsList, index, loaded, ld>>
  BY InsideMoves DEF NtdllStartsThread, HookLdrShutdownThread, moduleVars
<1>u. ASSUME UNCHANGED <<slot, live>>,
             \A u \in Threads : u # t => /\ pc'[u] = pc[u] /\ filled'[u] = filled[u]
                                         /\ (u \in sharers => u \in sharers')
                                         /\ teb'[u] = teb[u],
             filled'[t] = {}, pc'[t] # "fill",
             pc'[t] = "count" => \A m \in tlsList : slot[t][index[m]] \in live,
             pc'[t] \in {"run"} \cup ExitPc /\ teb'[t] = "mmp" =>
               /\ \A m \in loaded : slot[t][index[m]] \in live
               /\ ld.pc \in {"map", "free"} => slot[t][ld.idx] \in live
      PROVE  DataInv'
  BY <1>u, <1>l DEF DataInv
<1>1. CASE NtdllStartsThread(t)
  <2>1. /\ pc[t] = "none" /\ pc'[t] = "born" /\ UNCHANGED <<slot, live, filled, sharers>>
        /\ \A u \in Threads : u # t => pc'[u] = pc[u] /\ teb'[u] = teb[u]
    BY <1>0, <1>1 DEF NtdllStartsThread, lockVars
  <2> QED BY <1>u, <2>1 DEF DataInv, ExitPc
<1>2. CASE HookLdrShutdownThread(t)
  <2>1. /\ pc[t] = "run" /\ pc'[t] \in {"dec", "checkPlain"}
        /\ UNCHANGED <<slot, live, filled, sharers, teb>>
        /\ \A u \in Threads : u # t => pc'[u] = pc[u]
    BY <1>0, <1>2 DEF HookLdrShutdownThread
  <2> QED BY <1>u, <2>1 DEF DataInv
<1>3. CASE MmpUserThreadStart(t)
  <2>1. /\ pc[t] = "born" /\ (pc'[t] = "start" \/ (pc'[t] = "run" /\ teb[t] = "null"))
        /\ UNCHANGED <<slot, live, filled, sharers, teb>>
        /\ \A u \in Threads : u # t => pc'[u] = pc[u]
    BY <1>0, <1>3 DEF MmpUserThreadStart
  <2> QED BY <1>u, <2>1 DEF DataInv, ExitPc
<1>4. ~TlspRecordFound(t)
  BY DEF TlspRecordFound, ThreadsInv, RecordInv
<1>5. CASE TlspReplaced(t)
  <2>1. slot' = slot
    BY <1>5 DEF TlspReplaced, CopyInv, TypeOK
  <2>2. /\ pc[t] = "start" /\ pc'[t] = "list" /\ UNCHANGED <<live, filled, sharers>>
        /\ \A u \in Threads : u # t => pc'[u] = pc[u] /\ teb'[u] = teb[u]
    BY <1>0, <1>5 DEF TlspReplaced, lockVars
  <2> QED BY <1>u, <2>1, <2>2 DEF DataInv, ExitPc
<1>6. CASE ListShared(t)
  <2>1. /\ pc[t] = "list" /\ pc'[t] = "fill" /\ UNCHANGED <<slot, live, filled, teb>>
        /\ sharers' = sharers \cup {t} /\ \A u \in Threads : u # t => pc'[u] = pc[u]
    BY <1>0, <1>6 DEF ListShared
  <2>2. filled'[t] = {}
    BY <2>1 DEF DataInv
  <2> QED BY <1>l, <2>1, <2>2 DEF DataInv, ExitPc
<1>7. ASSUME NEW m \in Modules, EntryFilled(t, m) PROVE DataInv'
  <2>1. PICK b \in Fresh(1) : live' = live \cup {b} /\ slot' = [slot EXCEPT ![t][index[m]] = b]
    BY <1>7 DEF EntryFilled
  <2>2. /\ pc[t] = "fill" /\ m \in tlsList /\ m \notin filled[t]
        /\ filled' = [filled EXCEPT ![t] = @ \cup {m}] /\ UNCHANGED <<pc, teb, sharers>>
    BY <1>7 DEF EntryFilled, lockVars
  <2>3. \A u \in Threads : u # t => slot'[u] = slot[u] /\ filled'[u] = filled[u]
    BY <1>0, <2>1, <2>2
  <2>4. slot'[t][index[m]] = b
    BY <1>0, <2>1, <2>2
  <2>5. \A n \in filled[t] : slot'[t][index[n]] = slot[t][index[n]]
    <3>1. \A n \in filled[t] : n \in tlsList /\ index[n] # index[m]
      BY <2>2 DEF DataInv, IndexInv, IndexBelongsToOneModule
    <3> QED BY <1>0, <2>1, <2>2, <3>1
  <2>6. \A n \in filled'[t] : n \in tlsList /\ slot'[t][index[n]] \in live'
    BY <1>0, <2>1, <2>2, <2>4, <2>5 DEF DataInv
  <2>7. \A u \in Threads : u # t =>
          /\ filled'[u] \subseteq tlsList /\ (pc[u] # "fill" => filled'[u] = {})
          /\ pc[u] = "fill" => u \in sharers /\ \A n \in filled'[u] : slot'[u][index[n]] \in live'
          /\ pc[u] = "count" => \A n \in tlsList : slot'[u][index[n]] \in live'
          /\ pc[u] \in {"run"} \cup ExitPc /\ teb[u] = "mmp" =>
               /\ \A n \in loaded : slot'[u][index[n]] \in live'
               /\ ld.pc \in {"map", "free"} => slot'[u][ld.idx] \in live'
    BY <2>1, <2>3 DEF DataInv
  <2>8. t \in sharers
    BY <2>2 DEF DataInv
  <2> QED BY <1>l, <2>2, <2>6, <2>7, <2>8 DEF DataInv, ExitPc
<1>8. CASE ListDone(t)
  <2>1. /\ pc[t] = "fill" /\ pc'[t] = "count" /\ UNCHANGED <<slot, live, teb>>
        /\ sharers' = sharers \ {t} /\ tlsList \subseteq filled[t] /\ filled'[t] = {}
        /\ \A u \in Threads : u # t => pc'[u] = pc[u] /\ filled'[u] = filled[u]
    BY <1>0, <1>8 DEF ListDone
  <2> QED BY <1>u, <2>1 DEF DataInv, ExitPc
<1>9. CASE Counted(t)
  <2>1. /\ pc[t] = "count" /\ pc'[t] = "run" /\ UNCHANGED <<slot, live, filled, sharers, teb>>
        /\ \A u \in Threads : u # t => pc'[u] = pc[u]
    BY <1>0, <1>9 DEF Counted, Runs
  <2>2. ~Loading
    BY <2>1 DEF ApartInv, Starting, StartPc
  <2>3. loaded \subseteq tlsList
    BY DEF ListInv
  <2> QED BY <1>u, <2>1, <2>2, <2>3 DEF DataInv, Loading
<1>10. CASE Uncounted(t)
  <2>1. /\ pc[t] = "dec" /\ pc'[t] = "check" /\ UNCHANGED <<slot, live, filled, sharers, teb>>
        /\ \A u \in Threads : u # t => pc'[u] = pc[u]
    BY <1>0, <1>10 DEF Uncounted, lockVars
  <2> QED BY <1>u, <2>1 DEF DataInv, ExitPc
<1>11. CASE TlspLeft(t)
  <2>1. /\ pc[t] \in {"check", "checkPlain"} /\ pc'[t] \in {"queue", "orig"}
        /\ UNCHANGED <<slot, live, filled, sharers, teb>>
        /\ \A u \in Threads : u # t => pc'[u] = pc[u]
    BY <1>0, <1>11 DEF TlspLeft
  <2> QED BY <1>u, <2>1 DEF DataInv, ExitPc
<1>12. CASE MmpQueuePostponedTls(t)
  <2>1. /\ pc[t] = "queue" /\ pc'[t] = "orig" /\ UNCHANGED <<slot, live, filled, sharers, teb>>
        /\ \A u \in Threads : u # t => pc'[u] = pc[u]
    BY <1>0, <1>12 DEF MmpQueuePostponedTls, lockVars
  <2> QED BY <1>u, <2>1 DEF DataInv, ExitPc
<1>13. CASE OriginLdrShutdownThread(t)
  <2>1. /\ pc[t] = "orig" /\ pc'[t] \in {"dead", "none"} /\ UNCHANGED <<live, filled, sharers>>
        /\ \A u \in Threads : u # t => pc'[u] = pc[u] /\ slot'[u] = slot[u] /\ teb'[u] = teb[u]
    BY <1>0, <1>13 DEF OriginLdrShutdownThread, lockVars
  <2>2. \A u \in Threads : u # t =>
          /\ filled[u] \subseteq tlsList /\ (pc'[u] # "fill" => filled[u] = {})
          /\ pc'[u] = "fill" => u \in sharers /\ \A n \in filled[u] : slot'[u][index[n]] \in live
          /\ pc'[u] = "count" => \A n \in tlsList : slot'[u][index[n]] \in live
          /\ pc'[u] \in {"run"} \cup ExitPc /\ teb'[u] = "mmp" =>
               /\ \A n \in loaded : slot'[u][index[n]] \in live
               /\ ld.pc \in {"map", "free"} => slot'[u][ld.idx] \in live
    BY <2>1 DEF DataInv
  <2>3. filled[t] = {}
    BY <2>1 DEF DataInv
  <2> QED BY <1>l, <2>1, <2>2, <2>3 DEF DataInv, ExitPc
<1>14. CASE ReleasePostponedTls(t)
  <2>1. /\ pc[t] = "dead" /\ pc'[t] = "none" /\ UNCHANGED <<slot, filled, sharers, teb>>
        /\ \A u \in Threads : u # t => pc'[u] = pc[u]
    BY <1>0, <1>14 DEF ReleasePostponedTls, lockVars
  <2>2. ASSUME NEW u \in Threads, u # t, pc[u] # "dead", NEW i \in Indices, slot[u][i] \in live
        PROVE  slot[u][i] \in live'
    BY <1>14, <2>2, OwnedVector, ReleaseFreesItsOwn
  <2>3. loaded \subseteq tlsList /\ (ld.pc \in {"map", "free"} => ld.idx \in Indices)
    BY DEF ListInv, LocalsInv
  <2>4. \A u \in Threads : u # t =>
          /\ pc[u] = "fill" => \A n \in filled[u] : slot[u][index[n]] \in live'
          /\ pc[u] = "count" => \A n \in tlsList : slot[u][index[n]] \in live'
          /\ pc[u] \in {"run"} \cup ExitPc /\ teb[u] = "mmp" =>
               /\ \A n \in loaded : slot[u][index[n]] \in live'
               /\ ld.pc \in {"map", "free"} => slot[u][ld.idx] \in live'
    BY <1>0, <2>2, <2>3 DEF DataInv, ExitPc
  <2> QED BY <1>l, <2>1, <2>4 DEF DataInv, ExitPc
<1>15. \A m \in Modules : ~EntryFailed(t, m)
  BY DEF EntryFailed, Quiet
<1>16. ~TlspAllocationFailed(t) /\ ~Killed(t)
  BY DEF TlspAllocationFailed, Killed, Quiet
<1> QED BY <1>1, <1>2, <1>3, <1>4, <1>5, <1>6, <1>7, <1>8, <1>9, <1>10, <1>11, <1>12, <1>13,
           <1>14, <1>15, <1>16 DEF Inside, StartStep, ExitStep

\* A call takes an index, is refused, or takes an entry out of the list.
LEMMA CallKeepsData ==
  ASSUME TypeOK, ListInv, OwnedInv, CopyInv, HeldInv, DataInv, NEW m \in Modules,
         MmpAcquireTlsIndex(m) \/ TlsEntryRefused(m) \/ MmpReleaseTlsEntry(m)
  PROVE  OwnedInv' /\ CopyInv' /\ HeldInv' /\ DataInv'
<1>0. UNCHANGED <<pc, teb, slot, record, filled, postponed, old, sharers, live>>
  BY DEF MmpAcquireTlsIndex, TlsEntryRefused, MmpReleaseTlsEntry, threadVars, lockVars
<1>1. OwnedInv' /\ CopyInv'
  <2>1. OwnedInv'
    BY <1>0, OwnedStill, OwnedKept
  <2>2. CopyInv'
    BY <1>0 DEF CopyInv
  <2> QED BY <2>1, <2>2
<1>2. CASE MmpAcquireTlsIndex(m)
  <2>1. ld'.pc = "insert" /\ ld'.toFree = {} /\ UNCHANGED <<tlsList, index, loaded>>
    BY <1>2 DEF MmpAcquireTlsIndex, Idle
  <2>2. HeldInv'
    BY <2>1 DEF HeldInv
  <2>3. DataInv'
    BY <1>0, <2>1 DEF DataInv
  <2> QED BY <1>1, <2>2, <2>3
<1>3. CASE TlsEntryRefused(m)
  <2>1. UNCHANGED <<ld, tlsList, index, loaded>> /\ ld.pc = "idle"
    BY <1>3 DEF TlsEntryRefused, Loading
  <2>2. HeldInv'
    BY <2>1 DEF HeldInv
  <2>3. DataInv'
    BY <1>0, <2>1 DEF DataInv
  <2> QED BY <1>1, <2>2, <2>3
<1>4. CASE MmpReleaseTlsEntry(m)
  <2>1. /\ ld.pc = "idle" /\ ld' = ld /\ sharers = {}
        /\ tlsList' = tlsList \ {m} /\ loaded' = loaded \ {m}
        /\ \A n \in Modules : n # m => index'[n] = index[n]
    BY <1>4 DEF MmpReleaseTlsEntry, ReleaseEntry, Loading, TypeOK
  <2>2. HeldInv'
    BY <2>1 DEF HeldInv
  <2>3. \A t \in Threads : pc[t] # "fill" /\ filled[t] = {}
    BY <2>1 DEF DataInv
  <2>4. tlsList \subseteq Modules /\ loaded \subseteq Modules
    BY DEF TypeOK
  <2>5. DataInv'
    BY <1>0, <2>1, <2>3, <2>4 DEF DataInv
  <2> QED BY <1>1, <2>2, <2>5
<1> QED BY <1>2, <1>3, <1>4

\* The kernel reaches every thread: there are as many blocks as vectors.
LEMMA KernelReachesAll ==
  ASSUME TypeOK, ThreadsInv, ApartInv, CountInv, EnoughInv, KernelReplacesIndex
  PROVE  /\ ~Starting /\ ~Exiting
         /\ \E f \in Injections(record, ld.data) :
              /\ slot' = [t \in Threads |-> IF t \in record THEN [slot[t] EXCEPT ![ld.idx] = f[t]]
                                            ELSE slot[t]]
              /\ ld' = [ld EXCEPT !.pc = "map", !.new = f,
                          !.was = [t \in record |-> slot[t][ld.idx]]]
<1>1. ~Starting /\ ~Exiting /\ ld.pc = "kernel"
  BY DEF KernelReplacesIndex, ApartInv, Loading
<1>2. Holders = record /\ Cardinality(record) = Cardinality(ld.data) /\ IsFiniteSet(record)
  <2>1. record \subseteq Threads
    BY DEF TypeOK
  <2> QED BY <1>1, <2>1, HoldersAreRecorded, ThreadCount DEF CountInv, EnoughInv
<1>3. PICK K \in SUBSET Holders :
        /\ K = Holders \/ Cardinality(K) = Cardinality(ld.data)
        /\ \E f \in Injections(K, ld.data) :
             /\ slot' = [t \in Threads |->
                           IF t \in K /\ teb[t] = "mmp"
                           THEN [slot[t] EXCEPT ![ld.idx] = f[t]] ELSE slot[t]]
             /\ ld' = [ld EXCEPT !.pc = "map", !.new = f,
                         !.was = [t \in K |-> IF teb[t] = "mmp" THEN slot[t][ld.idx] ELSE None]]
  BY DEF KernelReplacesIndex
<1>4. K = record
  BY <1>2, <1>3, FS_Subset
<1>5. PICK f \in Injections(K, ld.data) :
        /\ slot' = [t \in Threads |->
                      IF t \in K /\ teb[t] = "mmp"
                      THEN [slot[t] EXCEPT ![ld.idx] = f[t]] ELSE slot[t]]
        /\ ld' = [ld EXCEPT !.pc = "map", !.new = f,
                    !.was = [t \in K |-> IF teb[t] = "mmp" THEN slot[t][ld.idx] ELSE None]]
  BY <1>3
<1>6. \A t \in record : teb[t] = "mmp"
  BY DEF ThreadsInv, RecordInv, TypeOK
<1>7. [t \in record |-> IF teb[t] = "mmp" THEN slot[t][ld.idx] ELSE None]
        = [t \in record |-> slot[t][ld.idx]]
  BY <1>6
<1>8. slot' = [t \in Threads |-> IF t \in record THEN [slot[t] EXCEPT ![ld.idx] = f[t]]
                                 ELSE slot[t]]
  BY <1>4, <1>5, <1>6
<1>9. ld' = [ld EXCEPT !.pc = "map", !.new = f, !.was = [t \in record |-> slot[t][ld.idx]]]
  BY <1>4, <1>5, <1>7
<1> QED BY <1>1, <1>4, <1>5, <1>8, <1>9

\* The swap puts one unowned block into each vector and takes out what was there.
LEMMA KernelKeepsData ==
  ASSUME TypeOK, LocalsInv, ListInv, IndexInv, ThreadsInv, ApartInv, CountInv, EnoughInv,
         OwnedInv, CopyInv, HeldInv, DataInv, KernelReplacesIndex
  PROVE  OwnedInv' /\ CopyInv' /\ HeldInv' /\ DataInv'
<1>a. UNCHANGED <<pc, teb, record, filled, postponed, old, sharers, live, tlsList, index, loaded>>
  BY DEF KernelReplacesIndex, lockVars
<1>0. /\ ld \in LoaderState /\ ld.pc = "kernel" /\ ld.idx \in Indices /\ record \subseteq Threads
      /\ slot \in [Threads -> [Indices -> Pointer]]
      /\ UNCHANGED <<pc, teb, record, filled, postponed, old, sharers, live, tlsList, index,
                     loaded>>
  BY <1>a DEF TypeOK, LocalsInv, KernelReplacesIndex
<1> DEFINE i0 == ld.idx
<1>1. PICK f \in Injections(record, ld.data) :
        /\ slot' = [t \in Threads |-> IF t \in record THEN [slot[t] EXCEPT ![i0] = f[t]]
                                      ELSE slot[t]]
        /\ ld' = [ld EXCEPT !.pc = "map", !.new = f, !.was = [t \in record |-> slot[t][i0]]]
  BY KernelReachesAll
<1>2. /\ ld'.pc = "map" /\ ld'.new = f /\ ld'.was = [t \in record |-> slot[t][i0]]
      /\ ld'.idx = i0 /\ ld'.data = ld.data /\ ld'.toFree = ld.toFree
  BY <1>0, <1>1 DEF LoaderState
<1>3. /\ DOMAIN f = record
      /\ \A t \in record : f[t] \in ld.data /\ f[t] \in live /\ Unowned(f[t]) /\ f[t] # None
      /\ \A t, u \in record : f[t] = f[u] => t = u
  <2>1. f \in [record -> ld.data] /\ \A t, u \in record : f[t] = f[u] => t = u
    BY <1>1 DEF Injections
  <2>2. \A b \in ld.data : b \in live /\ Unowned(b)
    BY <1>0 DEF HeldInv
  <2>3. None \notin live
    BY NoneAssumption DEF TypeOK
  <2> QED BY <2>1, <2>2, <2>3
<1>4. \A t \in record : pc[t] = "run" /\ t \notin postponed
  BY <1>0, KernelReachesAll DEF ThreadsInv, RecordInv, CopyInv, Starting, StartPc
<1>5. \A t \in Threads, i \in Indices :
        slot'[t][i] = IF t \in record /\ i = i0 THEN f[t] ELSE slot[t][i]
  BY <1>0, <1>1
<1>6. \A t \in Threads, i \in Indices :
        Owned(t)'[i] = IF t \in record /\ i = i0 THEN f[t] ELSE Owned(t)[i]
  <2>1. ASSUME NEW t \in Threads, t \in postponed, NEW i \in Indices
        PROVE  Owned(t)'[i] = Owned(t)[i] /\ t \notin record
    BY <1>0, <1>4, <2>1 DEF Owned
  <2>2. ASSUME NEW t \in Threads, t \notin postponed
        PROVE  Owned(t)' = slot'[t] /\ Owned(t) = slot[t]
    BY <1>0, <2>2 DEF Owned
  <2> QED BY <1>5, <2>1, <2>2
<1>7. \A t \in record : \A u \in Threads, i \in Indices : Owned(u)[i] # f[t]
  BY <1>3 DEF Unowned
<1>8. OwnedInv'
  <2>1. \A t, u \in Threads, i, j \in Indices :
          Owned(t)'[i] # None /\ Owned(t)'[i] = Owned(u)'[j] => t = u /\ i = j
    BY <1>3, <1>6, <1>7 DEF OwnedInv
  <2>2. \A t \in Threads, i \in Indices : Owned(t)'[i] \in live \cup {None}
    BY <1>3, <1>6 DEF OwnedInv
  <2> QED BY <1>0, <2>1, <2>2 DEF OwnedInv
<1>9. CopyInv'
  <2>1. \A t \in Threads : t \notin record => slot'[t] = slot[t]
    BY <1>1
  <2>2. \A t \in record : pc[t] = "run" /\ t \notin postponed
    BY <1>4
  <2> QED BY <1>0, <2>1, <2>2 DEF CopyInv
<1>10. HeldInv'
  <2>1. \A t \in record : slot'[t][i0] = f[t]
    BY <1>0, <1>5
  <2>2. ASSUME NEW b, b \in live, b # None, \A t \in record : f[t] # b,
               \A t \in Threads, i \in Indices : Owned(t)[i] = b => t \in record /\ i = i0
        PROVE  \A t \in Threads, i \in Indices : Owned(t)'[i] # b
    BY <1>6, <2>2
  <2>3. ASSUME NEW t \in record, slot[t][i0] # None
        PROVE  slot[t][i0] \in live /\ \A u \in Threads, i \in Indices : Owned(u)'[i] # slot[t][i0]
    <3>1. Owned(t)[i0] = slot[t][i0]
      BY <1>4 DEF Owned
    <3>2. slot[t][i0] \in live
      BY <1>0, <2>3, <3>1 DEF OwnedInv
    <3>3. \A u \in Threads, i \in Indices : Owned(u)[i] = slot[t][i0] => u = t /\ i = i0
      BY <1>0, <2>3, <3>1 DEF OwnedInv
    <3>4. \A u \in record : f[u] # slot[t][i0]
      BY <1>0, <1>7, <3>1
    <3> QED BY <2>2, <2>3, <3>2, <3>3, <3>4
  <2>4. ASSUME NEW b \in ld.data \ { f[t] : t \in record }
        PROVE  b \in live /\ \A u \in Threads, i \in Indices : Owned(u)'[i] # b
    <3>1. b \in live /\ Unowned(b) /\ b # None
      BY <1>0, OwnedTyped, NoneAssumption DEF HeldInv, TypeOK
    <3> QED BY <2>2, <3>1 DEF Unowned
  <2>5. ld.toFree = {}
    BY <1>0 DEF HeldInv
  <2> HIDE DEF i0
  <2>6. \A t \in record : slot'[t][ld'.idx] = ld'.new[t] /\ ld'.new[t] \in live'
    BY <1>0, <1>2, <1>3, <2>1
  <2>7. \A t \in record : ld'.was[t] # None => ld'.was[t] \in live' /\ Unowned(ld.was[t])'
    BY <1>0, <1>2, <2>3 DEF Unowned
  <2>8. \A b \in ld'.data \ { ld'.new[t] : t \in record } : b \in live' /\ Unowned(b)'
    BY <1>0, <1>2, <2>4 DEF Unowned
  <2> QED BY <1>0, <1>2, <1>3, <2>5, <2>6, <2>7, <2>8 DEF HeldInv
<1>11. DataInv'
  <2>1. \A m \in loaded : index[m] \in Indices /\ index[m] # i0
    BY <1>0 DEF ListInv, IndexInv, IndexBelongsToOneModule, LoaderPc
  <2>2. \A t \in Threads : pc[t] \notin StartPc
    BY KernelReachesAll DEF Starting
  <2>3. \A t \in Threads : teb[t] = "mmp" /\ pc[t] \in {"run"} \cup ExitPc => t \in record
    BY KernelReachesAll DEF ThreadsInv, VectorInv, Exiting
  <2>4. \A t \in Threads, m \in loaded : slot'[t][index[m]] = slot[t][index[m]]
    BY <1>5, <2>1
  <2>5. \A t \in record : slot'[t][i0] \in live
    BY <1>0, <1>3, <1>5
  <2> QED BY <1>0, <1>2, <2>2, <2>3, <2>4, <2>5 DEF DataInv, StartPc
<1> QED BY <1>8, <1>9, <1>10, <1>11

\* The other steps of a load: the vectors stay as they are.
LEMMA LoadStepKeepsData ==
  ASSUME Quiet, TypeOK, LocalsInv, ListInv, IndexInv, ThreadsInv, ApartInv, CountInv, EnoughInv,
         OwnedInv, CopyInv, HeldInv, DataInv, LoadStep
  PROVE  OwnedInv' /\ CopyInv' /\ HeldInv' /\ DataInv'
<1>0. /\ ld \in LoaderState /\ Idle.pc = "idle" /\ Idle.toFree = {}
      /\ tlsList \subseteq Modules /\ index \in [Modules -> Indices \cup {None}]
      /\ \A m \in loaded : m \in tlsList
  BY DEF TypeOK, Idle, ListInv
<1>p. UNCHANGED <<pc, teb, record>>
  BY LoadStepKeepsThreads
<1>s. \A t \in Threads : pc[t] \notin StartPc /\ pc[t] \notin ExitPc
  <2>1. Loading
    BY DEF LoadStep, MmpAllocateTlsEntry, ThreadDataAllocated, ThreadDataRefused,
       UndoTlsEntry, KernelReplacesIndex, KernelRefuses, HookNtSetInformationProcess,
       ThreadDataFreed, CountRead, CountCorrected, CorrectionLeft, Loading
  <2> QED BY <2>1 DEF ApartInv, Starting, Exiting
<1>f. \A t \in Threads : filled[t] = {}
  BY <1>s DEF DataInv, StartPc
<1>c. ASSUME UNCHANGED <<slot, postponed, old>> PROVE CopyInv'
  BY <1>c, <1>p DEF CopyInv
<1>o. ASSUME UNCHANGED <<slot, postponed, old>>, live \subseteq live' PROVE OwnedInv'
  BY <1>o, OwnedStill, OwnedKept
<1>d. ASSUME UNCHANGED <<slot, filled>>,
             \A t \in Threads : pc[t] = "run" /\ teb[t] = "mmp" =>
               /\ \A m \in loaded' : slot[t][index'[m]] \in live'
               /\ ld'.pc \in {"map", "free"} => slot[t][ld'.idx] \in live'
      PROVE  DataInv'
  BY <1>d, <1>f, <1>p, <1>s DEF DataInv, StartPc
<1>1. CASE MmpAllocateTlsEntry
  <2>1. /\ ld'.pc = "alloc" /\ ld'.toFree = {}
        /\ UNCHANGED <<slot, postponed, old, filled, live, loaded>>
    BY <1>0, <1>1 DEF MmpAllocateTlsEntry, LoaderState, threadVars, HeldInv
  <2>2. \A m \in loaded : index'[m] = index[m]
    BY <1>0, <1>1 DEF MmpAllocateTlsEntry, ListInv, TypeOK
  <2>3. HeldInv'
    BY <2>1 DEF HeldInv
  <2>4. DataInv'
    BY <1>d, <2>1, <2>2 DEF DataInv
  <2> QED BY <1>c, <1>o, <2>1, <2>3, <2>4
<1>2. CASE ThreadDataAllocated
  <2>1. /\ ld'.pc = "kernel" /\ ld'.toFree = {} /\ ld'.data = Fresh(count)
        /\ live' = live \cup Fresh(count)
        /\ UNCHANGED <<slot, postponed, old, filled, loaded, index>>
    BY <1>0, <1>2 DEF ThreadDataAllocated, LoaderState, threadVars, HeldInv
  <2>2. ASSUME NEW b \in Fresh(count) PROVE \A t \in Threads, i \in Indices : Owned(t)[i] # b
    <3>1. b \notin live /\ b # None
      BY NoneAssumption DEF Fresh
    <3> QED BY <3>1 DEF OwnedInv
  <2>3. \A t \in Threads : Owned(t)' = Owned(t)
    BY <2>1, OwnedStill
  <2>4. HeldInv'
    BY <2>1, <2>2, <2>3 DEF HeldInv, Unowned
  <2>5. DataInv'
    BY <1>d, <2>1 DEF DataInv
  <2> QED BY <1>c, <1>o, <2>1, <2>4, <2>5
<1>3. CASE ThreadDataRefused
  <2>1. /\ ld'.pc = "undo" /\ ld'.toFree = {}
        /\ UNCHANGED <<slot, postponed, old, filled, live, loaded, index>>
    BY <1>0, <1>3 DEF ThreadDataRefused, LoaderState, threadVars, HeldInv
  <2>2. HeldInv'
    BY <2>1 DEF HeldInv
  <2>3. DataInv'
    BY <1>d, <2>1 DEF DataInv
  <2> QED BY <1>c, <1>o, <2>1, <2>2, <2>3
<1>4. CASE UndoTlsEntry
  <2>1. /\ ld' = Idle /\ UNCHANGED <<slot, postponed, old, filled, live, loaded>>
    BY <1>4 DEF UndoTlsEntry, threadVars
  <2>2. \A m \in loaded : index'[m] = index[m]
    BY <1>0, <1>4 DEF UndoTlsEntry, ReleaseEntry, ListInv
  <2>3. HeldInv'
    BY <1>0, <2>1 DEF HeldInv
  <2>4. DataInv'
    BY <1>0, <1>d, <2>1, <2>2 DEF DataInv
  <2> QED BY <1>c, <1>o, <2>1, <2>3, <2>4
<1>5. CASE KernelReplacesIndex
  BY <1>5, KernelKeepsData
<1>6. CASE HookNtSetInformationProcess
  <2>1. /\ ld.pc = "map" /\ ld'.pc = "free" /\ ld'.toFree = Returned \ {None} /\ ld'.idx = ld.idx
        /\ UNCHANGED <<slot, postponed, old, filled, live, loaded, index>>
    BY <1>0, <1>6 DEF HookNtSetInformationProcess, LoaderState, threadVars
  <2>2. ASSUME NEW b \in Returned, b # None PROVE b \in live /\ Unowned(b)
    <3>1. \A t \in record : Recorded(t)
      BY <2>1 DEF HeldInv, Recorded
    <3>2. (\E t \in record : b = ld.was[t]) \/ b \in ld.data \ { ld.new[t] : t \in record }
      BY <2>1, <2>2, <3>1 DEF HeldInv, Returned
    <3> QED BY <2>1, <2>2, <3>2 DEF HeldInv
  <2>3. HeldInv'
    BY <2>1, <2>2, OwnedStill DEF HeldInv, Unowned
  <2>4. DataInv'
    BY <1>d, <2>1 DEF DataInv
  <2> QED BY <1>c, <1>o, <2>1, <2>3, <2>4
<1>7. CASE ThreadDataFreed
  <2>1. /\ ld.pc = "free" /\ ld' = Idle /\ live' = live \ ld.toFree
        /\ loaded' \subseteq loaded \cup {ld.mod}
        /\ UNCHANGED <<slot, postponed, old, filled, index>>
    BY <1>7 DEF ThreadDataFreed, Finished, EnoughInv, threadVars
  <2>2. \A t \in Threads, i \in Indices : Owned(t)[i] \notin ld.toFree
    BY <2>1 DEF HeldInv, Unowned
  <2>3. \A t \in Threads : Owned(t)' = Owned(t)
    BY <2>1, OwnedStill
  <2>4. OwnedInv'
    BY <2>1, <2>2, <2>3 DEF OwnedInv
  <2>5. HeldInv'
    BY <1>0, <2>1 DEF HeldInv
  <2>6. ASSUME NEW t \in Threads, pc[t] = "run", NEW i \in Indices, slot[t][i] \in live
        PROVE  slot[t][i] \in live'
    BY <2>1, <2>2, <2>6, OwnedVector
  <2>7. /\ ld.idx \in Indices /\ index[ld.mod] = ld.idx
        /\ \A m \in loaded : index[m] \in Indices
    BY <1>0, <2>1 DEF LocalsInv, IndexInv, LoaderPc
  <2>8. ASSUME NEW t \in Threads, pc[t] = "run", teb[t] = "mmp", NEW m \in loaded'
        PROVE  slot[t][index[m]] \in live'
    <3>1. m = ld.mod \/ m \in loaded
      BY <2>1
    <3>2. slot[t][ld.idx] \in live /\ \A n \in loaded : slot[t][index[n]] \in live
      BY <2>1, <2>8 DEF DataInv
    <3> QED BY <2>6, <2>7, <2>8, <3>1, <3>2
  <2>9. DataInv'
    BY <1>0, <1>d, <2>1, <2>8
  <2> QED BY <1>c, <2>1, <2>4, <2>5, <2>9
<1>8. ~KernelRefuses /\ ~CountRead /\ ~CountCorrected /\ ~CorrectionLeft
  BY DEF KernelRefuses, CountRead, CountCorrected, CorrectionLeft, EnoughInv, Quiet
<1> QED BY <1>1, <1>2, <1>3, <1>4, <1>5, <1>6, <1>7, <1>8 DEF LoadStep

DataInvs == OwnedInv /\ CopyInv /\ HeldInv /\ DataInv

\* There is no data yet.
LEMMA InitDataInvs == Init => DataInvs
<1> SUFFICES ASSUME Init PROVE DataInvs
  OBVIOUS
<1>1. \A t \in Threads : Owned(t) = Empty
  BY DEF Init, Owned
<1>2. OwnedInv
  BY <1>1 DEF OwnedInv, Empty
<1>3. CopyInv
  BY DEF Init, CopyInv
<1>4. HeldInv
  BY DEF Init, HeldInv, Idle
<1>5. DataInv
  BY DEF Init, DataInv, Idle
<1> QED BY <1>2, <1>3, <1>4, <1>5 DEF DataInvs

\* Every step keeps the four together.
LEMMA NextDataInvs ==
  ASSUME Quiet, QuietInv, DataInvs, [Next]_vars
  PROVE  DataInvs'
<1>0. /\ TypeOK /\ LocalsInv /\ ListInv /\ IndexInv /\ ThreadsInv /\ ApartInv /\ CountInv
      /\ EnoughInv /\ OwnedInv /\ CopyInv /\ HeldInv /\ DataInv
  BY DEF QuietInv, IInv, DataInvs
<1>1. ASSUME NEW t \in Threads, NtdllStartsThread(t) \/ HookLdrShutdownThread(t) \/ Inside(t)
      PROVE  DataInvs'
  BY <1>0, <1>1, ThreadStepKeepsOwnedInv, ThreadStepKeepsCopyInv, ThreadStepKeepsHeldInv,
     ThreadStepKeepsDataInv DEF DataInvs
<1>2. ASSUME NEW m \in Modules, MmpAcquireTlsIndex(m) \/ TlsEntryRefused(m) \/ MmpReleaseTlsEntry(m)
      PROVE  DataInvs'
  BY <1>0, <1>2, CallKeepsData DEF DataInvs
<1>3. CASE LoadStep
  BY <1>0, <1>3, LoadStepKeepsData DEF DataInvs
<1>4. CASE UNCHANGED vars
  <2>1. /\ UNCHANGED <<pc, teb, slot, record, filled, postponed, old, tlsList, index, ld>>
        /\ UNCHANGED <<loaded, sharers, live>>
    BY <1>4 DEF vars, threadVars, moduleVars, lockVars
  <2>2. OwnedInv' /\ \A t \in Threads : Owned(t)' = Owned(t)
    BY <1>0, <2>1, OwnedStill, OwnedKept
  <2>3. CopyInv'
    BY <1>0, <2>1 DEF CopyInv
  <2>4. HeldInv'
    BY <1>0, <2>1, <2>2 DEF HeldInv, Unowned
  <2>5. DataInv'
    BY <1>0, <2>1 DEF DataInv
  <2> QED BY <2>2, <2>3, <2>4, <2>5 DEF DataInvs
<1> QED BY <1>1, <1>2, <1>3, <1>4 DEF Next, Inside

\* The data follows the threads: through starts, exits, the worker's releases, loads and
\* unloads each block has one owner and each thread its blocks (MmpTls.cpp:139-322, 463-541
\* and 600-796, MmpTlsFiber.cpp:49).
THEOREM DataInvariance ==
  ASSUME Quiet
  PROVE  Spec => [](QuietInv /\ DataInvs)
<1>1. QuietInv /\ DataInvs /\ [Next]_vars => DataInvs'
  BY NextDataInvs
<1> QED BY <1>1, InitDataInvs, QuietInvariance, PTL DEF Spec

\* Each running thread reaches its own copy of the data of each loaded module, from the moment
\* its own code runs to ntdll's part of its shutdown (MmpTls.cpp:183-208, 484-541, 722-729).
THEOREM EveryThreadTheorem ==
  ASSUME Quiet
  PROVE  Spec => []EveryThreadHasItsData
<1>1. DataInv => EveryThreadHasItsData
  BY DEF DataInv, EveryThreadHasItsData
<1> QED BY <1>1, DataInvariance, PTL DEF DataInvs

\* No block of TLS data is in two vectors, and none that a vector, the loading thread or the
\* worker will free is free already (MmpTls.cpp:728, MmpTlsFiber.cpp:49).
THEOREM OwnedOnceTheorem ==
  ASSUME Quiet
  PROVE  Spec => []DataOwnedOnce
<1>1. QuietInv /\ DataInvs => DataOwnedOnce
  <2> SUFFICES ASSUME QuietInv, DataInvs PROVE DataOwnedOnce
    OBVIOUS
  <2>0. TypeOK /\ IndexInv /\ EnoughInv /\ OwnedInv /\ HeldInv
    BY DEF QuietInv, IInv, DataInvs
  <2>1. \A t \in Threads, m \in tlsList : Owned(t)[index[m]] \in live \cup {None}
    BY <2>0 DEF OwnedInv, IndexInv
  <2>2. ld.toFree = {} \/ ld.pc = "free"
    BY <2>0 DEF TypeOK, LoaderState, LoaderPc, HeldInv, EnoughInv
  <2>3. ld.toFree \subseteq live /\ \A t \in Threads, i \in Indices : Owned(t)[i] \notin ld.toFree
    BY <2>0, <2>2 DEF HeldInv, Unowned
  <2> QED BY <2>0, <2>1, <2>3 DEF OwnedInv, DataOwnedOnce
<1> QED BY <1>1, DataInvariance, PTL
=============================================================================
