---------------------------- MODULE MmpTlsFiber ----------------------------
(***************************************************************************)
(* The worker that frees the TLS data of threads that are gone             *)
(* (src/loader/MmpTlsFiber.cpp).  Exiting threads push a copy of their     *)
(* vector under MmpPostponedTlsLock and signal an auto-reset event; the    *)
(* worker waits for the event, without limit while the list is empty and a *)
(* second otherwise, and polls the exit code of each listed thread.        *)
(* OnExit runs when the library is unloaded while the process lives on.    *)
(*                                                                         *)
(* MmpPostponedTlsLock is held from step to step only by the worker, while *)
(* it is at "scan"; the critical sections of the others are one step.      *)
(***************************************************************************)
EXTENDS Naturals, SequencesExt

CONSTANTS
  Threads,    \* threads that exit and have a record, one member per life
  None,       \* the null handle
  Faults      \* "open": OpenThread may fail; "259": a thread may exit with 259

ASSUME NoneIsNoThread == None \notin Threads

VARIABLES
  pc,        \* where each thread is: run, push, shutdown, gone
  exitCode,  \* what GetExitCodeThread says of it
  handle,    \* hThread of the item that a thread is about to push
  list,      \* MmpPostponedTlsList
  open,      \* the list is not null
  event,     \* MmpPostponedTlsEvent is signalled
  wpc,       \* where the worker is: call, wait, enter, scan, done
  waitTime,  \* "INFINITE" or "1000"
  iter, code,  \* the worker's position in the list and its last exit code
  handed, freed  \* history: data pushed, and how often it was freed

threadVars == <<pc, exitCode, handle>>
workerVars == <<wpc, waitTime, iter, code>>
vars == <<threadVars, workerVars, list, open, event, handed, freed>>

Codes == {"STILL_ACTIVE", "other"}
Items == [thread : Threads, hThread : Threads \cup {None}]

Locked == wpc = "scan"

-----------------------------------------------------------------------------
(* A thread that exits.                                                    *)

\* MmpQueuePostponedTls up to the lock: the thread opens itself and copies its
\* vector.  When there is no memory for the copy the thread writes through a null
\* pointer and the process ends (line 101); there is nothing after that to model.
OpenThread(t) ==
  /\ pc[t] = "run"
  /\ pc' = [pc EXCEPT ![t] = "push"]
  /\ \E h \in {t} \cup (IF "open" \in Faults THEN {None} ELSE {}) :
       handle' = [handle EXCEPT ![t] = h]
  /\ UNCHANGED <<exitCode, workerVars, list, open, event, handed, freed>>

\* Mutant: no SetEvent.
PushedSilently(t) ==
  /\ pc[t] = "push" /\ ~Locked
  /\ open
  /\ list' = Append(list, [thread |-> t, hThread |-> handle[t]])
  /\ handed' = handed \cup {t}
  /\ pc' = [pc EXCEPT ![t] = "shutdown"]
  /\ UNCHANGED <<exitCode, handle, workerVars, open, event, freed>>

\* Its critical section.
Pushed(t) ==
  /\ pc[t] = "push" /\ ~Locked
  /\ open
  /\ list' = Append(list, [thread |-> t, hThread |-> handle[t]])
  /\ event' = TRUE
  /\ handed' = handed \cup {t}
  /\ pc' = [pc EXCEPT ![t] = "shutdown"]
  /\ UNCHANGED <<exitCode, handle, workerVars, open, freed>>

\* After OnExit only the copy goes; the record and the handle stay.
Dropped(t) ==
  /\ pc[t] = "push" /\ ~Locked
  /\ ~open
  /\ pc' = [pc EXCEPT ![t] = "shutdown"]
  /\ UNCHANGED <<exitCode, handle, workerVars, list, open, event, handed, freed>>

\* ntdll ends the thread after the hook.  Until then its exit code is
\* STILL_ACTIVE, and so it is for a thread that exits with 259.
Ends(t) ==
  /\ pc[t] = "shutdown"
  /\ pc' = [pc EXCEPT ![t] = "gone"]
  /\ \E c \in {"other"} \cup (IF "259" \in Faults THEN {"STILL_ACTIVE"} ELSE {}) :
       exitCode' = [exitCode EXCEPT ![t] = c]
  /\ UNCHANGED <<handle, workerVars, list, open, event, handed, freed>>

-----------------------------------------------------------------------------
(* MmpReleasePostponedTlsWorker.                                           *)

\* WaitForSingleObject begins; on a closed handle it fails at once.
Waits ==
  /\ wpc = "call"
  /\ wpc' = IF open THEN "wait" ELSE "enter"
  /\ UNCHANGED <<threadVars, waitTime, iter, code, list, open, event, handed, freed>>

Wakes ==
  /\ wpc = "wait" /\ event
  /\ event' = FALSE
  /\ wpc' = "enter"
  /\ UNCHANGED <<threadVars, waitTime, iter, code, list, open, handed, freed>>

TimesOut ==
  /\ wpc = "wait" /\ waitTime = "1000"
  /\ wpc' = "enter"
  /\ UNCHANGED <<threadVars, waitTime, iter, code, list, open, event, handed, freed>>

Begins ==
  /\ wpc = "enter" /\ open
  /\ wpc' = "scan" /\ iter' = 1
  /\ UNCHANGED <<threadVars, waitTime, code, list, open, event, handed, freed>>

\* GetExitCodeThread leaves code alone when the handle is null.
CodeOf(item) == IF item.hThread = None THEN code ELSE exitCode[item.hThread]

Kept ==
  /\ wpc = "scan" /\ iter <= Len(list)
  /\ CodeOf(list[iter]) = "STILL_ACTIVE"
  /\ code' = "STILL_ACTIVE"
  /\ iter' = iter + 1
  /\ UNCHANGED <<threadVars, wpc, waitTime, list, open, event, handed, freed>>

\* Mutant: the exit code is not looked at.
FreedUnasked ==
  /\ wpc = "scan" /\ iter <= Len(list)
  /\ code' = CodeOf(list[iter])
  /\ freed' = [freed EXCEPT ![list[iter].thread] = @ + 1]
  /\ list' = RemoveAt(list, iter)
  /\ UNCHANGED <<threadVars, wpc, waitTime, iter, open, event, handed>>

\* The data, the record and the copy are freed under MmpTlsListLock, which no
\* thread keeps; the handle is closed and the item erased.
Freed ==
  /\ wpc = "scan" /\ iter <= Len(list)
  /\ CodeOf(list[iter]) # "STILL_ACTIVE"
  /\ code' = CodeOf(list[iter])
  /\ freed' = [freed EXCEPT ![list[iter].thread] = @ + 1]
  /\ list' = RemoveAt(list, iter)
  /\ UNCHANGED <<threadVars, wpc, waitTime, iter, open, event, handed>>

\* Mutant: the wait has no limit although threads are listed that still run.
ScannedThenWaits ==
  /\ wpc = "scan" /\ iter > Len(list)
  /\ waitTime' = "INFINITE"
  /\ wpc' = "call"
  /\ UNCHANGED <<threadVars, iter, code, list, open, event, handed, freed>>

Scanned ==
  /\ wpc = "scan" /\ iter > Len(list)
  /\ waitTime' = IF list = <<>> THEN "INFINITE" ELSE "1000"
  /\ wpc' = "call"
  /\ UNCHANGED <<threadVars, iter, code, list, open, event, handed, freed>>

\* Mutant: a null list is not the end.
WaitsAgain ==
  /\ wpc = "enter" /\ ~open
  /\ wpc' = "call"
  /\ UNCHANGED <<threadVars, waitTime, iter, code, list, open, event, handed, freed>>

Returns ==
  /\ wpc = "enter" /\ ~open
  /\ wpc' = "done"
  /\ UNCHANGED <<threadVars, waitTime, iter, code, list, open, event, handed, freed>>

\* The list is destroyed, the pointer nulled and the event closed.  A wait that
\* has begun goes on.
OnExit ==
  /\ open /\ ~Locked
  /\ open' = FALSE
  /\ list' = <<>>
  /\ UNCHANGED <<threadVars, workerVars, event, handed, freed>>

-----------------------------------------------------------------------------
\* MmpTlsFiberInitialize; code is a local without a value.
Init ==
  /\ pc = [t \in Threads |-> "run"]
  /\ exitCode = [t \in Threads |-> "STILL_ACTIVE"]
  /\ handle = [t \in Threads |-> None]
  /\ list = <<>> /\ open = TRUE /\ event = FALSE
  /\ wpc = "call" /\ waitTime = "INFINITE" /\ iter = 1
  /\ code \in Codes
  /\ handed = {} /\ freed = [t \in Threads |-> 0]

ThreadStep(t) == OpenThread(t) \/ Pushed(t) \/ Dropped(t) \/ Ends(t)

MmpReleasePostponedTlsWorker ==
  Waits \/ Wakes \/ TimesOut \/ Begins \/ Kept \/ Freed \/ Scanned \/ Returns

Next == (\E t \in Threads : ThreadStep(t)) \/ MmpReleasePostponedTlsWorker \/ OnExit

Spec == Init /\ [][Next]_vars

\* Windows schedules the worker, and a wait with a limit ends.
FairSpec == Spec /\ WF_vars(MmpReleasePostponedTlsWorker)

-----------------------------------------------------------------------------
TypeOK ==
  /\ pc \in [Threads -> {"run", "push", "shutdown", "gone"}]
  /\ exitCode \in [Threads -> Codes]
  /\ handle \in [Threads -> Threads \cup {None}]
  /\ list \in Seq(Items)
  /\ open \in BOOLEAN /\ event \in BOOLEAN
  /\ wpc \in {"call", "wait", "enter", "scan", "done"}
  /\ waitTime \in {"INFINITE", "1000"}
  /\ iter \in Nat \ {0} /\ code \in Codes
  /\ handed \subseteq Threads /\ freed \in [Threads -> Nat]

\* A worker that waits, or is about to wait, without limit while data is listed
\* has a signal to come: no push falls between its look at the list and its wait
\* (MmpTlsFiber.cpp:67 and 110).
NoLostWakeup ==
  list # <<>> /\ wpc \in {"call", "wait"} /\ waitTime = "INFINITE" => event

\* The steps above implement the promise of PostponedTls: data is freed once, and
\* only when its thread is gone, through any order of pushes, ends and scans.  It
\* needs OpenThread to succeed: a null handle is judged by the exit code of the
\* item before it (MmpTlsFiber.cpp:38-45).
Promise == INSTANCE PostponedTls WITH
  alive <- { t \in Threads : pc[t] # "gone" }

KeepsPromise == Promise!Spec

\* The data of a thread that is gone is freed at last, unless the library goes
\* first or the thread's exit code was 259 (MmpTlsFiber.cpp:28 and 67).
FreedEventually ==
  \A t \in Threads :
    t \in handed /\ exitCode[t] # "STILL_ACTIVE" ~> freed[t] > 0 \/ ~open

\* After OnExit the worker returns, unless it had begun to wait without limit on
\* the event that OnExit closes without a signal (MmpTlsFiber.cpp:28 and 127).
WorkerReturns ==
  ~open /\ ~(wpc = "wait" /\ waitTime = "INFINITE" /\ ~event) ~> wpc = "done"
=============================================================================
