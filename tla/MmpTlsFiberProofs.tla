------------------------- MODULE MmpTlsFiberProofs -------------------------
(***************************************************************************)
(* Proofs about MmpTlsFiber for every set of threads: types, no lost       *)
(* wake-up, and, when OpenThread succeeds, that the worker keeps the       *)
(* promise of PostponedTls.                                                *)
(***************************************************************************)
EXTENDS MmpTlsFiber, SequenceTheorems, TLAPS

-----------------------------------------------------------------------------
(* The vector's erase.                                                     *)

LEMMA EraseItem ==
  ASSUME NEW S, NEW s \in Seq(S), NEW i \in 1 .. Len(s)
  PROVE  /\ RemoveAt(s, i) \in Seq(S)
         /\ Len(RemoveAt(s, i)) = Len(s) - 1
         /\ \A j \in 1 .. Len(s) - 1 :
              RemoveAt(s, i)[j] = IF j < i THEN s[j] ELSE s[j + 1]
<1> DEFINE front == SubSeq(s, 1, i - 1)
           back  == SubSeq(s, i + 1, Len(s))
<1>1. Len(s) \in Nat /\ i \in Nat /\ 1 <= i /\ i <= Len(s)
  OBVIOUS
<1>2. front \in Seq(S) /\ Len(front) = i - 1 /\ \A j \in 1 .. i - 1 : front[j] = s[j]
  BY <1>1
<1>3. back \in Seq(S) /\ Len(back) = Len(s) - i
        /\ \A j \in 1 .. Len(s) - i : back[j] = s[j + i]
  BY <1>1
<1>4. RemoveAt(s, i) = front \o back
  BY DEF RemoveAt
<1> HIDE DEF front, back
<1>5. front \o back \in Seq(S) /\ Len(front \o back) = Len(s) - 1
  <2>1. front \o back \in Seq(S) /\ Len(front \o back) = Len(front) + Len(back)
    BY <1>2, <1>3, ConcatProperties
  <2> QED BY <2>1, <1>1, <1>2, <1>3
<1>6. ASSUME NEW j \in 1 .. Len(s) - 1
      PROVE  (front \o back)[j] = IF j < i THEN s[j] ELSE s[j + 1]
  <2>1. CASE j < i
    BY <2>1, <1>1, <1>2, <1>3
  <2>2. CASE ~(j < i)
    <3>1. (front \o back)[j] = back[j - (i - 1)]
      BY <2>2, <1>1, <1>2, <1>3
    <3>2. j - (i - 1) \in 1 .. Len(s) - i /\ (j - (i - 1)) + i = j + 1
      BY <2>2, <1>1
    <3> QED BY <3>1, <3>2, <1>3, <2>2
  <2> QED BY <2>1, <2>2
<1> QED BY <1>4, <1>5, <1>6

-----------------------------------------------------------------------------
(* The inductive invariant.                                                *)

\* A listed item is of a thread that pushed, once, and that nothing was freed of;
\* an exit code other than STILL_ACTIVE means that the thread is gone.
ListInv ==
  /\ \A i, j \in 1 .. Len(list) : list[i].thread = list[j].thread => i = j
  /\ \A i \in 1 .. Len(list) : list[i].thread \in handed /\ freed[list[i].thread] = 0
  /\ \A t \in Threads : pc[t] \in {"run", "push"} => t \notin handed
  /\ \A t \in Threads : t \notin handed => freed[t] = 0
  /\ \A t \in Threads : exitCode[t] = "other" => pc[t] = "gone"
  /\ ~open => list = <<>> /\ wpc # "scan"

\* Without failures of OpenThread an item's handle is its thread's.
HandleInv ==
  "open" \notin Faults =>
    /\ \A t \in Threads : pc[t] = "push" => handle[t] = t
    /\ \A i \in 1 .. Len(list) : list[i].hThread = list[i].thread

IInv == TypeOK /\ NoLostWakeup /\ ListInv /\ HandleInv

LEMMA Initial == Init => IInv
<1> SUFFICES ASSUME Init PROVE IInv
  OBVIOUS
<1> USE DEF Init
<1>1. TypeOK
  <2>1. list \in Seq(Items)
    BY EmptySeq
  <2>2. /\ pc \in [Threads -> {"run", "push", "shutdown", "gone"}]
        /\ exitCode \in [Threads -> Codes]
        /\ handle \in [Threads -> Threads \cup {None}]
        /\ freed \in [Threads -> Nat]
    BY DEF Codes
  <2>3. /\ open \in BOOLEAN /\ event \in BOOLEAN
        /\ wpc \in {"call", "wait", "enter", "scan", "done"}
        /\ waitTime \in {"INFINITE", "1000"}
    OBVIOUS
  <2>4. iter \in Nat \ {0} /\ code \in Codes
    OBVIOUS
  <2>5. handed \subseteq Threads
    OBVIOUS
  <2> QED BY <2>1, <2>2, <2>3, <2>4, <2>5 DEF TypeOK
<1>2. NoLostWakeup
  BY DEF NoLostWakeup
<1>3. ListInv
  BY DEF ListInv
<1>4. HandleInv
  BY DEF HandleInv
<1> QED BY <1>1, <1>2, <1>3, <1>4 DEF IInv

\* A push appends an item of a thread that has none.
LEMMA PushKeeps ==
  ASSUME IInv, NEW t \in Threads, Pushed(t)
  PROVE  IInv'
<1> DEFINE item == [thread |-> t, hThread |-> handle[t]]
<1> USE DEF IInv, Pushed
<1>1. item \in Items /\ list \in Seq(Items) /\ Len(list) \in Nat
  BY DEF TypeOK, Items
<1>2. /\ list' \in Seq(Items) /\ Len(list') = Len(list) + 1
      /\ list'[Len(list) + 1] = item
      /\ \A i \in 1 .. Len(list) : list'[i] = list[i]
  BY <1>1
<1>3. TypeOK'
  BY <1>2 DEF TypeOK, threadVars, workerVars
<1>4. NoLostWakeup'
  BY DEF NoLostWakeup
<1>5. t \notin handed /\ freed[t] = 0
  BY DEF ListInv
<1>6. \A i \in 1 .. Len(list) : list[i].thread # t
  BY <1>5 DEF ListInv
<1>7. ListInv'
  <2>1. \A i, j \in 1 .. Len(list') : list'[i].thread = list'[j].thread => i = j
    BY <1>1, <1>2, <1>6 DEF ListInv
  <2>2. \A i \in 1 .. Len(list') :
          list'[i].thread \in handed' /\ freed'[list'[i].thread] = 0
    BY <1>1, <1>2, <1>5 DEF ListInv
  <2>3. (\A u \in Threads : pc[u] \in {"run", "push"} => u \notin handed)'
    BY DEF ListInv, TypeOK
  <2>4. (\A u \in Threads : u \notin handed => freed[u] = 0)'
    BY DEF ListInv
  <2>5. (\A u \in Threads : exitCode[u] = "other" => pc[u] = "gone")'
    BY DEF ListInv, TypeOK
  <2>6. (~open => list = <<>> /\ wpc # "scan")'
    OBVIOUS
  <2> QED BY <2>1, <2>2, <2>3, <2>4, <2>5, <2>6 DEF ListInv
<1>8. HandleInv'
  <2>1. SUFFICES ASSUME "open" \notin Faults PROVE HandleInv'
    BY DEF HandleInv
  <2>2. \A i \in 1 .. Len(list') : list'[i].hThread = list'[i].thread
    BY <2>1, <1>1, <1>2 DEF HandleInv
  <2>3. (\A u \in Threads : pc[u] = "push" => handle[u] = u)'
    BY <2>1 DEF HandleInv, TypeOK
  <2> QED BY <2>2, <2>3 DEF HandleInv
<1> QED BY <1>3, <1>4, <1>7, <1>8

\* The worker frees an item and erases it from the list.
LEMMA FreeKeeps ==
  ASSUME IInv, Freed
  PROVE  IInv'
<1> DEFINE t == list[iter].thread
<1> USE DEF IInv, Freed
<1>1. list \in Seq(Items) /\ iter \in 1 .. Len(list) /\ Len(list) \in Nat
  BY DEF TypeOK
<1>2. /\ list' \in Seq(Items) /\ Len(list') = Len(list) - 1
      /\ \A j \in 1 .. Len(list) - 1 :
           list'[j] = IF j < iter THEN list[j] ELSE list[j + 1]
  BY <1>1, EraseItem
<1>3. list[iter] \in Items /\ t \in Threads /\ freed' = [freed EXCEPT ![t] = @ + 1]
  <2>1. list[iter] \in Items
    BY <1>1
  <2> QED BY <2>1 DEF Items
<1>4. TypeOK'
  <2>1. code' \in Codes
    BY <1>1, <1>3 DEF CodeOf, TypeOK, Items
  <2> QED BY <1>2, <1>3, <2>1 DEF TypeOK, threadVars
<1>5. NoLostWakeup'
  BY DEF NoLostWakeup, threadVars
<1>6. \A j \in 1 .. Len(list') : \E i \in 1 .. Len(list) :
        /\ i # iter /\ list'[j] = list[i]
        /\ i = IF j < iter THEN j ELSE j + 1
  BY <1>1, <1>2
<1>7. \A j \in 1 .. Len(list') : list'[j].thread # t
  BY <1>6, <1>1 DEF ListInv
<1>8. ListInv'
  <2>1. \A i, j \in 1 .. Len(list') : list'[i].thread = list'[j].thread => i = j
    <3> SUFFICES ASSUME NEW i \in 1 .. Len(list'), NEW j \in 1 .. Len(list'),
                        list'[i].thread = list'[j].thread
                 PROVE  i = j
      OBVIOUS
    <3>1. PICK k \in 1 .. Len(list) :
            list'[i] = list[k] /\ k = IF i < iter THEN i ELSE i + 1
      BY <1>6
    <3>2. PICK l \in 1 .. Len(list) :
            list'[j] = list[l] /\ l = IF j < iter THEN j ELSE j + 1
      BY <1>6
    <3>3. k = l
      BY <3>1, <3>2 DEF ListInv
    <3>4. i \in Nat /\ j \in Nat /\ iter \in Nat
      BY <1>1, <1>2
    <3> QED BY <3>1, <3>2, <3>3, <3>4
  <2>2. \A i \in 1 .. Len(list') :
          list'[i].thread \in handed' /\ freed'[list'[i].thread] = 0
    BY <1>6, <1>7, <1>3 DEF ListInv, TypeOK, Items
  <2>3. \A u \in Threads : u \notin handed' => freed'[u] = 0
    BY <1>1, <1>3 DEF ListInv, TypeOK
  <2>4. open
    BY DEF ListInv
  <2> QED BY <2>1, <2>2, <2>3, <2>4 DEF ListInv, threadVars
<1>9. HandleInv'
  BY <1>6 DEF HandleInv, threadVars
<1> QED BY <1>4, <1>5, <1>8, <1>9

\* The other steps of the threads leave the list alone.
LEMMA ThreadKeeps ==
  ASSUME IInv, NEW t \in Threads, OpenThread(t) \/ Dropped(t) \/ Ends(t)
  PROVE  IInv'
<1> USE DEF IInv
<1>1. CASE OpenThread(t)
  <2>1. TypeOK'
    BY <1>1 DEF OpenThread, TypeOK, workerVars
  <2>2. NoLostWakeup'
    BY <1>1 DEF OpenThread, NoLostWakeup, workerVars
  <2>3. ListInv'
    BY <1>1 DEF OpenThread, ListInv, TypeOK, workerVars
  <2>4. HandleInv'
    BY <1>1 DEF OpenThread, HandleInv, TypeOK
  <2> QED BY <2>1, <2>2, <2>3, <2>4
<1>2. CASE Dropped(t)
  <2>1. TypeOK'
    BY <1>2 DEF Dropped, TypeOK, workerVars
  <2>2. NoLostWakeup'
    BY <1>2 DEF Dropped, NoLostWakeup, workerVars
  <2>3. ListInv'
    BY <1>2 DEF Dropped, ListInv, TypeOK, workerVars
  <2>4. HandleInv'
    BY <1>2 DEF Dropped, HandleInv, TypeOK
  <2> QED BY <2>1, <2>2, <2>3, <2>4
<1>3. CASE Ends(t)
  <2>1. TypeOK'
    BY <1>3 DEF Ends, TypeOK, Codes, workerVars
  <2>2. NoLostWakeup'
    BY <1>3 DEF Ends, NoLostWakeup, workerVars
  <2>3. ListInv'
    BY <1>3 DEF Ends, ListInv, TypeOK, workerVars
  <2>4. HandleInv'
    BY <1>3 DEF Ends, HandleInv, TypeOK
  <2> QED BY <2>1, <2>2, <2>3, <2>4
<1> QED BY <1>1, <1>2, <1>3

\* So do the other steps of the worker; OnExit empties it.
LEMMA WorkerKeeps ==
  ASSUME IInv,
         Waits \/ Wakes \/ TimesOut \/ Begins \/ Kept \/ Scanned \/ Returns \/ OnExit
  PROVE  IInv'
<1> USE DEF IInv, threadVars, workerVars
<1>1. CASE Waits
  BY <1>1 DEF Waits, TypeOK, NoLostWakeup, ListInv, HandleInv
<1>2. CASE Wakes
  BY <1>2 DEF Wakes, TypeOK, NoLostWakeup, ListInv, HandleInv
<1>3. CASE TimesOut
  BY <1>3 DEF TimesOut, TypeOK, NoLostWakeup, ListInv, HandleInv
<1>4. CASE Begins
  BY <1>4 DEF Begins, TypeOK, NoLostWakeup, ListInv, HandleInv
<1>5. CASE Kept
  BY <1>5 DEF Kept, TypeOK, Codes, NoLostWakeup, ListInv, HandleInv
<1>6. CASE Scanned
  BY <1>6 DEF Scanned, TypeOK, NoLostWakeup, ListInv, HandleInv
<1>7. CASE Returns
  BY <1>7 DEF Returns, TypeOK, NoLostWakeup, ListInv, HandleInv
<1>8. CASE OnExit
  <2>1. list' \in Seq(Items) /\ Len(list') = 0
    BY <1>8, EmptySeq DEF OnExit
  <2>2. TypeOK'
    BY <1>8, <2>1 DEF OnExit, TypeOK
  <2>3. NoLostWakeup' /\ ListInv' /\ HandleInv'
    BY <1>8, <2>1 DEF OnExit, Locked, NoLostWakeup, ListInv, HandleInv
  <2> QED BY <2>2, <2>3
<1> QED BY <1>1, <1>2, <1>3, <1>4, <1>5, <1>6, <1>7, <1>8

LEMMA StepKeeps == IInv /\ [Next]_vars => IInv'
<1> SUFFICES ASSUME IInv, [Next]_vars PROVE IInv'
  OBVIOUS
<1>1. ASSUME NEW t \in Threads, ThreadStep(t) PROVE IInv'
  BY <1>1, PushKeeps, ThreadKeeps DEF ThreadStep
<1>2. CASE MmpReleasePostponedTlsWorker
  BY <1>2, FreeKeeps, WorkerKeeps DEF MmpReleasePostponedTlsWorker
<1>3. CASE OnExit
  BY <1>3, WorkerKeeps
<1>4. CASE UNCHANGED vars
  BY <1>4 DEF vars, threadVars, workerVars, IInv, TypeOK, NoLostWakeup, ListInv, HandleInv
<1> QED BY <1>1, <1>2, <1>3, <1>4 DEF Next

\* The inductive invariant: the list holds each pushed thread once with nothing
\* freed of it, and a sleeping worker with work has a signal to come.
THEOREM Invariance == Spec => []IInv
<1>1. Init => IInv
  BY Initial
<1>2. IInv /\ [Next]_vars => IInv'
  BY StepKeeps
<1> QED BY <1>1, <1>2, PTL DEF Spec

\* Every variable has its type (MmpTlsFiber.cpp:15-18).
THEOREM TypeCorrect == Spec => []TypeOK
<1>1. IInv => TypeOK
  BY DEF IInv
<1> QED BY <1>1, Invariance, PTL

\* The worker never sleeps without limit on listed data, for every number of
\* threads and even when OpenThread fails (MmpTlsFiber.cpp:67 and 110).
THEOREM NoLostWakeupTheorem == Spec => []NoLostWakeup
<1>1. IInv => NoLostWakeup
  BY DEF IInv
<1> QED BY <1>1, Invariance, PTL

-----------------------------------------------------------------------------
(* The refinement.                                                         *)

Alive == { t \in Threads : pc[t] # "gone" }

LEMMA PromiseInit == Init => Promise!Init
BY DEF Init, Promise!Init

\* Each step of a thread, the worker or OnExit is a step of the promise or none.
LEMMA PromiseStep ==
  ASSUME "open" \notin Faults, IInv, [Next]_vars
  PROVE  [Promise!Next]_(Promise!vars)
<1> USE DEF Promise!vars
<1>1. ASSUME NEW t \in Threads, OpenThread(t) PROVE UNCHANGED Promise!vars
  BY <1>1 DEF OpenThread, IInv, TypeOK
<1>2. ASSUME NEW t \in Threads, Pushed(t) PROVE Promise!HandOver(t)
  <2>1. t \notin handed
    BY <1>2 DEF Pushed, IInv, ListInv
  <2>2. Alive' = Alive /\ t \in Alive
    BY <1>2 DEF Pushed, IInv, TypeOK, Alive
  <2> QED BY <1>2, <2>1, <2>2 DEF Pushed, Promise!HandOver, Alive
<1>3. ASSUME NEW t \in Threads, Dropped(t) PROVE UNCHANGED Promise!vars
  BY <1>3 DEF Dropped, IInv, TypeOK
<1>4. ASSUME NEW t \in Threads, Ends(t) PROVE Promise!End(t)
  <2>1. Alive' = Alive \ {t} /\ t \in Alive
    BY <1>4 DEF Ends, IInv, TypeOK, Alive
  <2> QED BY <1>4, <2>1 DEF Ends, Promise!End, Alive
<1>5. ASSUME Freed PROVE \E t \in Threads : Promise!Free(t)
  <2> DEFINE t == list[iter].thread
  <2>1. iter \in 1 .. Len(list) /\ list[iter] \in Items
    BY <1>5 DEF Freed, IInv, TypeOK
  <2>2. t \in Threads /\ list[iter].hThread = t /\ t # None
    BY <2>1, NoneIsNoThread DEF IInv, HandleInv, Items
  <2>3. exitCode[t] = "other" /\ pc[t] = "gone"
    BY <1>5, <2>2 DEF Freed, CodeOf, IInv, TypeOK, Codes, ListInv
  <2>4. open /\ t \in handed /\ freed[t] = 0
    BY <1>5, <2>1 DEF Freed, IInv, ListInv
  <2>5. freed' = [freed EXCEPT ![t] = 1]
    BY <1>5, <2>2, <2>4 DEF Freed, IInv, TypeOK
  <2>6. Promise!Free(t)
    BY <1>5, <2>2, <2>3, <2>4, <2>5 DEF Freed, Promise!Free, threadVars
  <2> QED BY <2>2, <2>6
<1>6. ASSUME Waits \/ Wakes \/ TimesOut \/ Begins \/ Kept \/ Scanned \/ Returns
      PROVE UNCHANGED Promise!vars
  BY <1>6 DEF Waits, Wakes, TimesOut, Begins, Kept, Scanned, Returns, threadVars
<1>7. ASSUME OnExit PROVE Promise!Close
  BY <1>7 DEF OnExit, Promise!Close, threadVars
<1>8. ASSUME UNCHANGED vars PROVE UNCHANGED Promise!vars
  BY <1>8 DEF vars, threadVars
<1> QED BY <1>1, <1>2, <1>3, <1>4, <1>5, <1>6, <1>7, <1>8
        DEF Next, ThreadStep, MmpReleasePostponedTlsWorker, Promise!Next

\* The worker keeps the promise: data is freed at most once, and never before its
\* thread is gone, if OpenThread succeeds (MmpTlsFiber.cpp:38-63).
THEOREM PromiseTheorem == "open" \notin Faults => (Spec => KeepsPromise)
<1> SUFFICES ASSUME "open" \notin Faults PROVE Spec => KeepsPromise
  OBVIOUS
<1>1. Init => Promise!Init
  BY PromiseInit
<1>2. IInv /\ [Next]_vars => [Promise!Next]_(Promise!vars)
  BY PromiseStep
<1> QED BY <1>1, <1>2, Invariance, PTL DEF Spec, KeepsPromise, Promise!Spec
=============================================================================
