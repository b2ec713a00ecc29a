---------------------------- MODULE PostponedTls ----------------------------
(***************************************************************************)
(* What the postponed release of TLS data promises (src/loader/            *)
(* MmpTlsFiber.cpp): the data that a thread hands over while it runs is    *)
(* freed once, and not before the thread is gone.                          *)
(***************************************************************************)
EXTENDS Naturals

CONSTANT Threads

VARIABLES
  alive,   \* the threads that still exist
  handed,  \* those that handed their data over
  freed,   \* how often the data of each thread has been freed
  open     \* FALSE after the library's exit handler: what is left is given up

vars == <<alive, handed, freed, open>>

Init ==
  /\ alive = Threads
  /\ handed = {}
  /\ freed = [t \in Threads |-> 0]
  /\ open = TRUE

HandOver(t) ==
  /\ open /\ t \in alive \ handed
  /\ handed' = handed \cup {t}
  /\ UNCHANGED <<alive, freed, open>>

End(t) ==
  /\ t \in alive
  /\ alive' = alive \ {t}
  /\ UNCHANGED <<handed, freed, open>>

Free(t) ==
  /\ open /\ t \in handed \ alive
  /\ freed[t] = 0
  /\ freed' = [freed EXCEPT ![t] = 1]
  /\ UNCHANGED <<alive, handed, open>>

Close ==
  /\ open
  /\ open' = FALSE
  /\ UNCHANGED <<alive, handed, freed>>

Next == (\E t \in Threads : HandOver(t) \/ End(t) \/ Free(t)) \/ Close

Spec == Init /\ [][Next]_vars
=============================================================================
