---------------------------- MODULE MonitorSpec ----------------------------
(***************************************************************************)
(* What a monitor of src/src/hpc/threadapi.c promises its users: a mutex,  *)
(* a first-come list of waiters, a wait that gives the mutex up and gets   *)
(* it back only after a signal, and a signal that goes to the first waiter *)
(* that has none yet.  Semaphores, channels, barriers and synchronisation  *)
(* variables are modelled on top of these five steps.                      *)
(***************************************************************************)
EXTENDS WaitLists

CONSTANTS Threads, Nobody

VARIABLES owner, queue, acquired

(* The type invariant of the abstract monitor: one owner at most, one node per *)
(* thread in the list that AddWaitList and RemoveWaitList maintain.            *)
TypeOK ==
    /\ owner \in Threads \cup {Nobody}
    /\ IsWaitList(queue, Threads)
    /\ acquired \in [Threads -> BOOLEAN]

Init ==
    /\ owner = Nobody
    /\ queue = <<>>
    /\ acquired = [t \in Threads |-> FALSE]

Acquire(t) ==
    /\ owner = Nobody
    /\ t \notin Listed(queue)
    /\ owner' = t
    /\ UNCHANGED <<queue, acquired>>

Release(t) ==
    /\ owner = t
    /\ owner' = Nobody
    /\ UNCHANGED <<queue, acquired>>

(* The wait begins: the caller is listed and gives the mutex up at once.   *)
Wait(t) ==
    /\ owner = t
    /\ queue' = AddWaitList(queue, t)
    /\ owner' = Nobody
    /\ UNCHANGED acquired

(* The wait ends: a signalled waiter has the mutex again.                  *)
Resume(t) ==
    /\ owner = Nobody
    /\ acquired[t]
    /\ queue' = RemoveWaitList(queue, t)
    /\ acquired' = [acquired EXCEPT ![t] = FALSE]
    /\ owner' = t

Signal(t) ==
    /\ owner = t
    /\ acquired' = SignalMonitor(queue, acquired)
    /\ UNCHANGED <<owner, queue>>

Next ==
    \E t \in Threads :
        Acquire(t) \/ Release(t) \/ Wait(t) \/ Resume(t) \/ Signal(t)

Spec == Init /\ [][Next]_<<owner, queue, acquired>>
=============================================================================
