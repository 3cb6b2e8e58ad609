----------------------------- MODULE Semaphores -----------------------------
(***************************************************************************)
(* One semaphore (struct Semaphore of src/src/hpc/threadapi.c) and the     *)
(* threads that call SignalSemaphore, WaitSemaphore and TryWaitSemaphore   *)
(* on it, each as often as it likes.                                       *)
(*                                                                         *)
(* Every access to the semaphore happens under the mutex of its monitor,   *)
(* so a call is one action, except WaitSemaphore, which gives the mutex up *)
(* inside WaitForMonitor: entering the wait and each return from it are    *)
(* actions of their own.  Module Monitors models WaitForMonitor and        *)
(* SignalMonitor at the granularity of the pthread calls and shows that    *)
(* they are the atomic steps used here.                                    *)
(***************************************************************************)
EXTENDS Integers, FiniteSets, Waiters

CONSTANTS
    InitCount,      \* the argument of CreateSemaphore
    MaxSignals,     \* bound: calls of SignalSemaphore
    MaxTries        \* bound: calls of TryWaitSemaphore

ASSUME ThreadsAssumption == IsFiniteSet(Threads)
ASSUME BoundsAssumption == InitCount \in Nat /\ MaxSignals \in Nat /\ MaxTries \in Nat

VARIABLES
    count,          \* sem->count
    waiting,        \* sem->waiting, a signed int in the code
    signalled,      \* history: SignalSemaphore calls so far
    granted,        \* history: successful (Try)WaitSemaphore calls so far
    tried           \* history: TryWaitSemaphore calls so far

vars == <<count, waiting, queue, acquired, pc, signalled, granted, tried>>

(* CreateSemaphore(InitCount).                                             *)
Init ==
    /\ count = InitCount
    /\ waiting = 0
    /\ queue = <<>>
    /\ acquired = [t \in Threads |-> FALSE]
    /\ pc = [t \in Threads |-> "ready"]
    /\ signalled = 0
    /\ granted = 0
    /\ tried = 0

-----------------------------------------------------------------------------
(* Faulty variants of the definitions below, used to test the properties.  *)

(* SignalSemaphore waking a waiter only when the count was zero.           *)
SignalSemaphoreFromZero(t) ==
    /\ pc[t] = "ready"
    /\ signalled < MaxSignals
    /\ count' = count + 1
    /\ acquired' = IF waiting # 0 /\ count = 0 THEN SignalMonitor(queue, acquired)
                                               ELSE acquired
    /\ signalled' = signalled + 1
    /\ UNCHANGED <<waiting, queue, pc, granted, tried>>

(* SignalSemaphore without SignalMonitor.                                  *)
SignalSemaphoreSilent(t) ==
    /\ pc[t] = "ready"
    /\ signalled < MaxSignals
    /\ count' = count + 1
    /\ signalled' = signalled + 1
    /\ UNCHANGED <<acquired, waiting, queue, pc, granted, tried>>

(* "if" for "while" in WaitSemaphore: the count is not looked at again.    *)
WaitSemaphoreReturnUnchecked(t) ==
    /\ pc[t] = "blocked"
    /\ acquired[t]
    /\ count' = count - 1
    /\ waiting' = waiting - 1
    /\ queue' = RemoveWaitList(queue, t)
    /\ acquired' = [acquired EXCEPT ![t] = FALSE]
    /\ pc' = [pc EXCEPT ![t] = "ready"]
    /\ granted' = granted + 1
    /\ UNCHANGED <<signalled, tried>>

(* WaitForMonitor without "TLS(acquiredMonitor) = NULL", and WaitSemaphore *)
(* without "sem->waiting--".                                               *)
WaitSemaphoreReturnDirty(t) ==
    /\ pc[t] = "blocked"
    /\ acquired[t]
    /\ count > 0
    /\ count' = count - 1
    /\ queue' = RemoveWaitList(queue, t)
    /\ pc' = [pc EXCEPT ![t] = "ready"]
    /\ granted' = granted + 1
    /\ UNCHANGED <<waiting, acquired, signalled, tried>>

(* TryWaitSemaphore reporting success without "sem->count--".              *)
TryWaitSemaphoreFree(t) ==
    /\ pc[t] = "ready"
    /\ tried < MaxTries
    /\ granted' = IF count > 0 THEN granted + 1 ELSE granted
    /\ waiting' = waiting - 1
    /\ tried' = tried + 1
    /\ UNCHANGED <<count, acquired, queue, pc, signalled>>

-----------------------------------------------------------------------------
(* "if (sem->waiting && sem->count > 0) SignalMonitor(...)": the chain of  *)
(* wake-ups by which one waiter passes what is left to the next.           *)
PassOn(w, c, q, a) == IF w # 0 /\ c > 0 THEN SignalMonitor(q, a) ELSE a

SignalSemaphore(t) ==
    /\ pc[t] = "ready"
    /\ signalled < MaxSignals
    /\ count' = count + 1
    /\ acquired' = IF waiting # 0 THEN SignalMonitor(queue, acquired) ELSE acquired
    /\ signalled' = signalled + 1
    /\ UNCHANGED <<waiting, queue, pc, granted, tried>>

(* WaitSemaphore finding a positive count: waiting++ and waiting-- cancel  *)
(* out before the test that decides about passing the rest on.             *)
WaitSemaphoreAtOnce(t) ==
    /\ pc[t] = "ready"
    /\ count > 0
    /\ count' = count - 1
    /\ acquired' = PassOn(waiting, count - 1, queue, acquired)
    /\ granted' = granted + 1
    /\ UNCHANGED <<waiting, queue, pc, signalled, tried>>

(* WaitSemaphore finding zero: the thread enters WaitForMonitor.           *)
WaitSemaphoreBlock(t) ==
    /\ pc[t] = "ready"
    /\ count = 0
    /\ waiting' = waiting + 1
    /\ queue' = AddWaitList(queue, t)
    /\ pc' = [pc EXCEPT ![t] = "blocked"]
    /\ UNCHANGED <<count, acquired, signalled, granted, tried>>

(* WaitForMonitor returns and the loop condition fails: the thread takes   *)
(* its token and leaves WaitSemaphore.                                     *)
WaitSemaphoreReturn(t) ==
    /\ pc[t] = "blocked"
    /\ acquired[t]
    /\ count > 0
    /\ count' = count - 1
    /\ waiting' = waiting - 1
    /\ queue' = RemoveWaitList(queue, t)
    /\ acquired' = PassOn(waiting - 1, count - 1, RemoveWaitList(queue, t),
                          [acquired EXCEPT ![t] = FALSE])
    /\ pc' = [pc EXCEPT ![t] = "ready"]
    /\ granted' = granted + 1
    /\ UNCHANGED <<signalled, tried>>

(* WaitForMonitor returns but another thread was faster: round the loop,   *)
(* to the end of the wait list.                                            *)
WaitSemaphoreAgain(t) ==
    /\ pc[t] = "blocked"
    /\ acquired[t]
    /\ count = 0
    /\ queue' = AddWaitList(RemoveWaitList(queue, t), t)
    /\ acquired' = [acquired EXCEPT ![t] = FALSE]
    /\ UNCHANGED <<count, waiting, pc, signalled, granted, tried>>

(* TryWaitSemaphore decrements waiting although it never incremented it.   *)
TryWaitSemaphore(t) ==
    /\ pc[t] = "ready"
    /\ tried < MaxTries
    /\ count' = IF count > 0 THEN count - 1 ELSE count
    /\ granted' = IF count > 0 THEN granted + 1 ELSE granted
    /\ waiting' = waiting - 1
    /\ acquired' = PassOn(waiting', count', queue, acquired)
    /\ tried' = tried + 1
    /\ UNCHANGED <<queue, pc, signalled>>

Return(t) == WaitSemaphoreReturn(t) \/ WaitSemaphoreAgain(t)

Next ==
    \E t \in Threads :
        \/ SignalSemaphore(t)
        \/ WaitSemaphoreAtOnce(t)
        \/ WaitSemaphoreBlock(t)
        \/ Return(t)
        \/ TryWaitSemaphore(t)

Spec == Init /\ [][Next]_vars

(* A thread whose acquiredMonitor is set has been woken and is runnable:   *)
(* the operating system eventually runs it.                                *)
FairSpec == Spec /\ \A t \in Threads : WF_vars(Return(t))

-----------------------------------------------------------------------------
Signalled == {t \in Threads : acquired[t]}

(* The type invariant of struct Semaphore (threadapi.c, 90-94): the counter is *)
(* a natural number, which is to say WaitSemaphore never takes it below zero.  *)
TypeOK ==
    /\ count \in Nat
    /\ waiting \in Int
    /\ IsWaitList(queue, Threads)
    /\ acquired \in [Threads -> BOOLEAN]
    /\ pc \in [Threads -> {"ready", "blocked"}]
    /\ signalled \in Nat /\ granted \in Nat /\ tried \in Nat

(* No token is invented or lost: every successful WaitSemaphore or         *)
(* TryWaitSemaphore is paid for by the initial count or by one call of     *)
(* SignalSemaphore, and the counter is what is left.                       *)
TokensConserved == count = InitCount + signalled - granted

(* The wait list holds exactly the threads inside WaitForMonitor, and only *)
(* they can have been handed the monitor: no wake-up goes to a thread that *)
(* has left the wait.                                                      *)
WaitListOK ==
    /\ Listed(queue) = Blocked
    /\ \A t \in Threads : acquired[t] => t \in Blocked

(* What sem->waiting counts: the threads inside WaitSemaphore, less one    *)
(* for every TryWaitSemaphore ever called.                                 *)
WaitingDrift == waiting = Cardinality(Blocked) - tried

(* No wake-up is lost: as many waiters have been woken and are on their    *)
(* way as the counter has tokens for, or all of them; not just one that    *)
(* would have to wake the next.                                            *)
EnoughWakeups == Cardinality(Signalled) >= count \/ Listed(queue) \subseteq Signalled

(* EnoughWakeups holds as long as nobody has called TryWaitSemaphore.      *)
WakeupsWithoutTry == tried = 0 => EnoughWakeups

(* "if the counter is zero, it waits until another thread increases it via *)
(* SignalSemaphore, then decrements the counter and returns": a positive   *)
(* counter does not stay positive for ever with threads still waiting.     *)
WaiterServed == (count > 0 /\ queue # <<>>) ~> (count = 0 \/ queue = <<>>)

(* That is true if TryWaitSemaphore is never called.                       *)
ServedWithoutTry == [](tried = 0) => WaiterServed

=============================================================================
