------------------------------ MODULE Waiters ------------------------------
(***************************************************************************)
(* What the objects of threadapi.c with one monitor have in common: the    *)
(* threads that use the object, the wait list of its monitor, and who has  *)
(* been handed the monitor.  Semaphores, Barriers and SyncVars build on it.*)
(***************************************************************************)
EXTENDS WaitLists

CONSTANT
    Threads         \* the threads that share the object

VARIABLES
    queue,          \* the wait list of the monitor of the object
    acquired,       \* acquired[t]: TLS(acquiredMonitor) of t is not NULL
    pc              \* "blocked" inside WaitForMonitor; the other labels are the object's

(* The threads between the wait and the return of WaitForMonitor.          *)
Blocked == {t \in Threads : pc[t] = "blocked"}
=============================================================================
