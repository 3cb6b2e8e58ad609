------------------------------ MODULE SendLock ------------------------------
(***************************************************************************)
(* A semaphore used as a lock, as the message layer of distributed HPC-GAP *)
(* does (src/hpcgap/lib/distributed/locomm.g): MPISendSem is created with  *)
(* count 1, and SendMessagePickle and SendMessageSerialize bracket the MPI *)
(* call with WaitSemaphore and SignalSemaphore.  The module composes       *)
(* Semaphores with these clients; the contents of messages are left out.   *)
(***************************************************************************)
EXTENDS Semaphores

VARIABLE sending    \* the threads between WaitSemaphore and SignalSemaphore

lockVars == <<vars, sending>>

(* MPISendSem := CreateSemaphore(1); TryWaitSemaphore is not used on it.   *)
ASSUME SendSemAssumption == InitCount = 1 /\ MaxTries = 0

LockInit == Init /\ sending = {}

(* WaitSemaphore(MPISendSem), up to its return or its first wait.          *)
BeginSend(t) ==
    /\ t \notin sending
    /\ \/ WaitSemaphoreAtOnce(t) /\ sending' = sending \cup {t}
       \/ WaitSemaphoreBlock(t) /\ UNCHANGED sending

(* A woken sender returns from WaitSemaphore, or waits again.              *)
ResumeSend(t) ==
    \/ WaitSemaphoreReturn(t) /\ sending' = sending \cup {t}
    \/ WaitSemaphoreAgain(t) /\ UNCHANGED sending

(* The MPI call is over: SignalSemaphore(MPISendSem).                      *)
EndSend(t) ==
    /\ t \in sending
    /\ SignalSemaphore(t)
    /\ sending' = sending \ {t}

LockNext == \E t \in Threads : BeginSend(t) \/ ResumeSend(t) \/ EndSend(t)

(* A sender that holds the lock finishes its MPI call, and a woken thread  *)
(* runs.  Nothing obliges a thread to send another message.                *)
LockSpec ==
    /\ LockInit /\ [][LockNext]_lockVars
    /\ \A t \in Threads : WF_lockVars(ResumeSend(t)) /\ WF_lockVars(EndSend(t))

-----------------------------------------------------------------------------
(* "WaitSemaphore is then equivalent to a lock operation": two threads     *)
(* never make an MPI call at the same time, and the counter says whether   *)
(* the lock is free.                                                       *)
MutualExclusion ==
    /\ \A t, u \in sending : t = u
    /\ count = 1 <=> sending = {}

(* The lock does not stay free while threads wait for it.                  *)
FreeLockIsTaken == (sending = {} /\ queue # <<>>) ~> (sending # {})
=============================================================================
