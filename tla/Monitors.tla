------------------------------ MODULE Monitors ------------------------------
(***************************************************************************)
(* The monitors of src/src/hpc/threadapi.c at the granularity of the       *)
(* pthread calls: WaitForMonitor, WaitForAnyMonitor and SignalMonitor,     *)
(* with the mutex of each monitor, the mutex and condition variable of     *)
(* each thread, spurious wake-ups, and every interleaving of them.         *)
(*                                                                         *)
(* A thread makes calls one after the other.  A call locks its monitors,   *)
(* waits for one of them or signals one of them, and unlocks: this is how  *)
(* all functions on channels, semaphores, barriers and synchronisation     *)
(* variables use a monitor.                                                *)
(***************************************************************************)
EXTENDS Naturals, FiniteSets, WaitLists

CONSTANTS
    Threads,
    NumMonitors,    \* monitors are their addresses 1 .. NumMonitors
    Nobody,         \* the owner of a free mutex
    MaxCalls,       \* bound: calls per thread
    MaxSpurious     \* bound: spurious wake-ups of condition variables

ASSUME MonitorsAssumption == NumMonitors \in Nat /\ Nobody \notin Threads

NULL == 0
Monitor == 1 .. NumMonitors

VARIABLES
    mutex,          \* mutex[m]: the thread that holds m->lock
    threadLock,     \* threadLock[t]: the thread that holds t->threadLock
    queue,          \* queue[m]: the wait list of m
    acquired,       \* acquired[t]: t->acquiredMonitor
    pc,             \* where each thread is
    call,           \* the call it is in: its function and its monitors
    todo,           \* the monitors a loop over them has still to visit
    walk,           \* the node a SignalMonitor has reached
    got,            \* the monitor a finished wait returned
    calls,          \* calls made so far
    spurious        \* spurious wake-ups so far

vars == <<mutex, threadLock, queue, acquired, pc, call, todo, walk, got, calls, spurious>>

Idle == [fn |-> "none", on |-> {}]

(* The calls of the API: WaitForMonitor and SignalMonitor take one         *)
(* monitor, WaitForAnyMonitor any number.                                  *)
Calls ==
    [fn : {"wait", "signal"}, on : {{m} : m \in Monitor}] \cup
    [fn : {"any"}, on : (SUBSET Monitor) \ {{}}]

Init ==
    /\ mutex = [m \in Monitor |-> Nobody]
    /\ threadLock = [t \in Threads |-> Nobody]
    /\ queue = [m \in Monitor |-> <<>>]
    /\ acquired = [t \in Threads |-> NULL]
    /\ pc = [t \in Threads |-> "idle"]
    /\ call = [t \in Threads |-> Idle]
    /\ todo = [t \in Threads |-> {}]
    /\ walk = [t \in Threads |-> 1]
    /\ got = [t \in Threads |-> NULL]
    /\ calls = [t \in Threads |-> 0]
    /\ spurious = 0

Goto(t, label) == pc' = [pc EXCEPT ![t] = label]

(* pthread_mutex_lock and pthread_mutex_unlock on the two kinds of mutex.  *)
Lock(t, m) == mutex[m] = Nobody /\ mutex' = [mutex EXCEPT ![m] = t]
Unlock(t, m) == mutex' = [mutex EXCEPT ![m] = Nobody]
LockThread(t, u) == threadLock[u] = Nobody /\ threadLock' = [threadLock EXCEPT ![u] = t]
UnlockThread(u) == threadLock' = [threadLock EXCEPT ![u] = Nobody]

(* The next monitor of a loop: the arrays are sorted by address.           *)
Lowest(S) == Min(S)
The(S) == CHOOSE m \in S : TRUE

-----------------------------------------------------------------------------
(* Faulty variants of the definitions below, used to test the properties.  *)

(* WaitForMonitor that blocks on the monitor with its thread lock held.    *)
TryLockMonitorBlocking(t) ==
    /\ pc[t] = "try"
    /\ Lock(t, The(call[t].on))
    /\ Goto(t, "leave")
    /\ UNCHANGED <<threadLock, queue, acquired, call, todo, walk, got, calls, spurious>>

(* WaitForMonitor without RemoveWaitList.                                  *)
LeaveWaitLinked(t) ==
    /\ pc[t] = "leave"
    /\ acquired' = [acquired EXCEPT ![t] = NULL]
    /\ UnlockThread(t)
    /\ Goto(t, "return")
    /\ UNCHANGED <<mutex, queue, call, todo, walk, got, calls, spurious>>

(* SignalMonitor without pthread_cond_signal.                              *)
SignalThreadSilently(t) ==
    LET m == The(call[t].on)
        u == queue[m][walk[t]]
    IN  /\ pc[t] = "poke"
        /\ acquired[u] = NULL
        /\ acquired' = [acquired EXCEPT ![u] = m]
        /\ Goto(t, "return")
        /\ UnlockThread(u)
        /\ UNCHANGED <<mutex, queue, call, todo, walk, got, calls, spurious>>

(* SignalMonitor that does not look at acquiredMonitor.                    *)
SignalThreadAgain(t) ==
    LET m == The(call[t].on)
        u == queue[m][walk[t]]
    IN  /\ pc[t] = "poke"
        /\ acquired' = [acquired EXCEPT ![u] = m]
        /\ pc' = [pc EXCEPT ![t] = "return", ![u] = IF @ = "asleep" THEN "wakeup" ELSE @]
        /\ UnlockThread(u)
        /\ UNCHANGED <<mutex, queue, call, todo, walk, got, calls, spurious>>

(* WaitForAnyMonitor that leaves the monitors it passed locked.            *)
RelockKeepingAll(t) ==
    LET m == Lowest(todo[t])
    IN  /\ pc[t] = "relock"
        /\ todo[t] # {}
        /\ Lock(t, m)
        /\ queue' = [queue EXCEPT ![m] = RemoveWaitList(@, t)]
        /\ todo' = [todo EXCEPT ![t] = @ \ {m}]
        /\ UNCHANGED <<threadLock, acquired, pc, call, walk, got, calls, spurious>>

(* WaitForAnyMonitor relocking its monitors from the last to the first.    *)
RelockDownwards(t) ==
    LET m == Max(todo[t])
    IN  /\ pc[t] = "relock"
        /\ todo[t] # {}
        /\ mutex[m] = Nobody
        /\ mutex' = [mutex EXCEPT ![m] = IF m = got[t] THEN t ELSE Nobody]
        /\ queue' = [queue EXCEPT ![m] = RemoveWaitList(@, t)]
        /\ todo' = [todo EXCEPT ![t] = @ \ {m}]
        /\ UNCHANGED <<threadLock, acquired, pc, call, walk, got, calls, spurious>>

-----------------------------------------------------------------------------
(* A function of the API starts: LockMonitor or LockMonitors.              *)
Call(t) ==
    /\ pc[t] = "idle"
    /\ calls[t] < MaxCalls
    /\ \E c \in Calls :
          /\ call' = [call EXCEPT ![t] = c]
          /\ todo' = [todo EXCEPT ![t] = c.on]
    /\ calls' = [calls EXCEPT ![t] = @ + 1]
    /\ Goto(t, "lock")
    /\ UNCHANGED <<mutex, threadLock, queue, acquired, walk, got, spurious>>

LockMonitors(t) ==
    LET m == Lowest(todo[t])
    IN  /\ pc[t] = "lock"
        /\ Lock(t, m)
        /\ todo' = [todo EXCEPT ![t] = @ \ {m}]
        /\ IF todo[t] = {m} THEN Goto(t, "held") ELSE UNCHANGED pc
        /\ UNCHANGED <<threadLock, queue, acquired, call, walk, got, calls, spurious>>

(* WaitForMonitor and WaitForAnyMonitor: AddWaitList on each monitor,      *)
(* while all of them are still locked.                                     *)
BeginWait(t) ==
    /\ pc[t] = "held"
    /\ call[t].fn \in {"wait", "any"}
    /\ queue' = [m \in Monitor |-> IF m \in call[t].on THEN AddWaitList(queue[m], t)
                                                       ELSE queue[m]]
    /\ todo' = [todo EXCEPT ![t] = call[t].on]
    /\ Goto(t, "release")
    /\ UNCHANGED <<mutex, threadLock, acquired, call, walk, got, calls, spurious>>

(* The loop of UnlockMonitor, one monitor at a time.                       *)
UnlockMonitors(t) ==
    LET m == Lowest(todo[t])
    IN  /\ pc[t] = "release"
        /\ Unlock(t, m)
        /\ todo' = [todo EXCEPT ![t] = @ \ {m}]
        /\ IF todo[t] = {m} THEN Goto(t, "tlock") ELSE UNCHANGED pc
        /\ UNCHANGED <<threadLock, queue, acquired, call, walk, got, calls, spurious>>

(* LockThread(GetTLS()), before the wait and after a wake-up from it.      *)
LockSelf(t) ==
    /\ pc[t] \in {"tlock", "wakeup"}
    /\ LockThread(t, t)
    /\ Goto(t, "check")
    /\ UNCHANGED <<mutex, queue, acquired, call, todo, walk, got, calls, spurious>>

(* "while (!TLS(acquiredMonitor)) WaitThreadSignal()": pthread_cond_wait   *)
(* gives the thread lock up and sleeps in one step.                        *)
Sleep(t) ==
    /\ pc[t] = "check"
    /\ acquired[t] = NULL
    /\ UnlockThread(t)
    /\ Goto(t, "asleep")
    /\ UNCHANGED <<mutex, queue, acquired, call, todo, walk, got, calls, spurious>>

(* A condition variable may wake its waiter without a signal.              *)
SpuriousWakeup(t) ==
    /\ pc[t] = "asleep"
    /\ spurious < MaxSpurious
    /\ spurious' = spurious + 1
    /\ Goto(t, "wakeup")
    /\ UNCHANGED <<mutex, threadLock, queue, acquired, call, todo, walk, got, calls>>

(* The loop ends.  WaitForMonitor keeps the thread lock and goes for the   *)
(* monitor; WaitForAnyMonitor gives the thread lock up first.              *)
Signalled(t) ==
    /\ pc[t] = "check"
    /\ acquired[t] # NULL
    /\ got' = [got EXCEPT ![t] = acquired[t]]
    /\ \/ /\ call[t].fn = "wait"
          /\ Goto(t, "try")
          /\ UNCHANGED <<threadLock, todo>>
       \/ /\ call[t].fn = "any"
          /\ UnlockThread(t)
          /\ todo' = [todo EXCEPT ![t] = call[t].on]
          /\ Goto(t, "relock")
    /\ UNCHANGED <<mutex, queue, acquired, call, walk, calls, spurious>>

(* WaitForMonitor: TryLockMonitor, because SignalMonitor locks in the      *)
(* opposite order.  If it fails, give the thread lock up, wait for the     *)
(* monitor, and take the thread lock again.                                *)
TryLockMonitor(t) ==
    LET m == The(call[t].on)
    IN  /\ pc[t] = "try"
        /\ \/ Lock(t, m) /\ Goto(t, "leave") /\ UNCHANGED threadLock
           \/ mutex[m] # Nobody /\ UnlockThread(t) /\ Goto(t, "mlock") /\ UNCHANGED mutex
        /\ UNCHANGED <<queue, acquired, call, todo, walk, got, calls, spurious>>

LockMonitorAfterTry(t) ==
    /\ pc[t] = "mlock"
    /\ Lock(t, The(call[t].on))
    /\ Goto(t, "tlock2")
    /\ UNCHANGED <<threadLock, queue, acquired, call, todo, walk, got, calls, spurious>>

LockSelfAfterTry(t) ==
    /\ pc[t] = "tlock2"
    /\ LockThread(t, t)
    /\ Goto(t, "leave")
    /\ UNCHANGED <<mutex, queue, acquired, call, todo, walk, got, calls, spurious>>

(* The end of WaitForMonitor: acquiredMonitor is cleared, the node goes,   *)
(* the thread lock is given up; the monitor stays locked.                  *)
LeaveWait(t) ==
    LET m == The(call[t].on)
    IN  /\ pc[t] = "leave"
        /\ acquired' = [acquired EXCEPT ![t] = NULL]
        /\ queue' = [queue EXCEPT ![m] = RemoveWaitList(@, t)]
        /\ UnlockThread(t)
        /\ Goto(t, "return")
        /\ UNCHANGED <<mutex, call, todo, walk, got, calls, spurious>>

(* WaitForAnyMonitor, one iteration of its last loop: lock, unlink, and    *)
(* unlock unless this is the monitor that was signalled.                   *)
Relock(t) ==
    LET m == Lowest(todo[t])
    IN  /\ pc[t] = "relock"
        /\ todo[t] # {}
        /\ mutex[m] = Nobody
        /\ mutex' = [mutex EXCEPT ![m] = IF m = got[t] THEN t ELSE Nobody]
        /\ queue' = [queue EXCEPT ![m] = RemoveWaitList(@, t)]
        /\ todo' = [todo EXCEPT ![t] = @ \ {m}]
        /\ UNCHANGED <<threadLock, acquired, pc, call, walk, got, calls, spurious>>

(* The end of WaitForAnyMonitor.                                           *)
ClearAcquired(t) ==
    /\ pc[t] = "relock"
    /\ todo[t] = {}
    /\ threadLock[t] = Nobody
    /\ acquired' = [acquired EXCEPT ![t] = NULL]
    /\ Goto(t, "return")
    /\ UNCHANGED <<mutex, threadLock, queue, call, todo, walk, got, calls, spurious>>

(* SignalMonitor: the walk along the wait list.                            *)
BeginSignal(t) ==
    /\ pc[t] = "held"
    /\ call[t].fn = "signal"
    /\ walk' = [walk EXCEPT ![t] = 1]
    /\ Goto(t, "walk")
    /\ UNCHANGED <<mutex, threadLock, queue, acquired, call, todo, got, calls, spurious>>

WalkEnd(t) ==
    /\ pc[t] = "walk"
    /\ walk[t] > Len(queue[The(call[t].on)])
    /\ Goto(t, "return")
    /\ UNCHANGED <<mutex, threadLock, queue, acquired, call, todo, walk, got, calls, spurious>>

WalkLock(t) ==
    LET q == queue[The(call[t].on)]
    IN  /\ pc[t] = "walk"
        /\ walk[t] <= Len(q)
        /\ LockThread(t, q[walk[t]])
        /\ Goto(t, "poke")
        /\ UNCHANGED <<mutex, queue, acquired, call, todo, walk, got, calls, spurious>>

(* The thread under the cursor has no monitor yet: it gets this one, and   *)
(* pthread_cond_signal wakes it if it sleeps.                              *)
SignalThread(t) ==
    LET m == The(call[t].on)
        u == queue[m][walk[t]]
    IN  /\ pc[t] = "poke"
        /\ acquired[u] = NULL
        /\ acquired' = [acquired EXCEPT ![u] = m]
        /\ pc' = [pc EXCEPT ![t] = "return", ![u] = IF @ = "asleep" THEN "wakeup" ELSE @]
        /\ UnlockThread(u)
        /\ UNCHANGED <<mutex, queue, call, todo, walk, got, calls, spurious>>

(* It has one: on to the next node.                                        *)
WalkOn(t) ==
    LET u == queue[The(call[t].on)][walk[t]]
    IN  /\ pc[t] = "poke"
        /\ acquired[u] # NULL
        /\ UnlockThread(u)
        /\ walk' = [walk EXCEPT ![t] = @ + 1]
        /\ Goto(t, "walk")
        /\ UNCHANGED <<mutex, queue, acquired, call, todo, got, calls, spurious>>

(* The function unlocks the monitor it was left with and returns.          *)
Return(t) ==
    LET m == IF call[t].fn = "signal" THEN The(call[t].on) ELSE got[t]
    IN  /\ pc[t] = "return"
        /\ Unlock(t, m)
        /\ call' = [call EXCEPT ![t] = Idle]
        /\ got' = [got EXCEPT ![t] = NULL]
        /\ walk' = [walk EXCEPT ![t] = 1]
        /\ Goto(t, "idle")
        /\ UNCHANGED <<threadLock, queue, acquired, todo, calls, spurious>>

(* What a thread does once it is in a call.                                *)
Step(t) ==
    \/ LockMonitors(t) \/ BeginWait(t) \/ UnlockMonitors(t) \/ LockSelf(t)
    \/ Sleep(t) \/ Signalled(t) \/ TryLockMonitor(t) \/ LockMonitorAfterTry(t)
    \/ LockSelfAfterTry(t) \/ LeaveWait(t) \/ Relock(t) \/ ClearAcquired(t)
    \/ BeginSignal(t) \/ WalkEnd(t) \/ WalkLock(t) \/ SignalThread(t) \/ WalkOn(t)
    \/ Return(t)

Next == \E t \in Threads : Call(t) \/ Step(t) \/ SpuriousWakeup(t)

Spec == Init /\ [][Next]_vars

(* Every runnable thread is scheduled.  A mutex owes no fairness to its    *)
(* waiters; none is needed, for calls are finite in number.                *)
FairSpec == Spec /\ \A t \in Threads : WF_vars(Step(t))

-----------------------------------------------------------------------------
Labels == {"idle", "lock", "held", "release", "tlock", "check", "asleep", "wakeup",
           "try", "mlock", "tlock2", "leave", "relock", "walk", "poke", "return"}

(* The type invariant of threadapi.c's monitors: in particular the wait list   *)
(* of every monitor stays a list in which no thread has two nodes, whichever   *)
(* way WaitForMonitor, WaitForAnyMonitor and SignalMonitor interleave.         *)
TypeOK ==
    /\ mutex \in [Monitor -> Threads \cup {Nobody}]
    /\ threadLock \in [Threads -> Threads \cup {Nobody}]
    /\ \A m \in Monitor : IsWaitList(queue[m], Threads)
    /\ acquired \in [Threads -> Monitor \cup {NULL}]
    /\ pc \in [Threads -> Labels]
    /\ call \in [Threads -> Calls \cup {Idle}]
    /\ todo \in [Threads -> SUBSET Monitor]

Holds(t) == {m \in Monitor : mutex[m] = t}

(* No signal is slept through: a thread that has been handed a monitor is  *)
(* never left in pthread_cond_wait.                                        *)
NoMissedSignal == \A t \in Threads : pc[t] = "asleep" => acquired[t] = NULL

(* "Upon return, all monitors but the one that was signaled will be        *)
(* unlocked": a finished wait holds exactly one of the monitors it asked   *)
(* for, the one that was handed to it, has left every wait list and can be *)
(* signalled afresh.                                                       *)
WaitReturnsSignalled ==
    \A t \in Threads :
        pc[t] = "return" /\ call[t].fn \in {"wait", "any"} =>
            /\ got[t] \in call[t].on
            /\ Holds(t) = {got[t]}
            /\ acquired[t] = NULL
            /\ \A m \in Monitor : t \notin Listed(queue[m])

(* A handed-over monitor is not taken back or replaced: acquiredMonitor    *)
(* goes back to NULL before it is set again, so every signal counts once.  *)
SignalsAreNotOverwritten ==
    [][\A t \in Threads : acquired[t] # NULL => acquired'[t] \in {acquired[t], NULL}]_vars

(* Every signalled thread returns from its wait: the two lock orders       *)
(* (thread then monitor in the waiter, monitor then thread in the          *)
(* signaller) never block each other for good.                             *)
SignalledReturns == \A t \in Threads : acquired[t] # NULL ~> pc[t] = "return"

(* The guards of Step: the locks that thread t asks for next are free.     *)
Ready(t) ==
    \/ pc[t] = "lock" /\ mutex[Lowest(todo[t])] = Nobody
    \/ pc[t] = "held" /\ call[t].fn \in {"wait", "any", "signal"}
    \/ pc[t] \in {"tlock", "wakeup", "tlock2"} /\ threadLock[t] = Nobody
    \/ pc[t] = "check" /\ (acquired[t] # NULL => call[t].fn \in {"wait", "any"})
    \/ pc[t] = "mlock" /\ mutex[The(call[t].on)] = Nobody
    \/ pc[t] = "relock" /\ todo[t] # {} /\ mutex[Lowest(todo[t])] = Nobody
    \/ pc[t] = "relock" /\ todo[t] = {} /\ threadLock[t] = Nobody
    \/ /\ pc[t] = "walk"
       /\ LET q == queue[The(call[t].on)]
          IN  walk[t] <= Len(q) => threadLock[q[walk[t]]] = Nobody
    \/ pc[t] \in {"release", "try", "leave", "poke", "return"}

Active == \E t \in Threads : pc[t] \notin {"idle", "asleep"}

(* LockMonitors, the relocking in WaitForAnyMonitor and the walk of        *)
(* SignalMonitor never block each other in a cycle: unless all threads are *)
(* outside or asleep for want of a signal, one of them finds the locks it  *)
(* asks for free.  (MCMonitors lets TLC look for deadlocks as well: there  *)
(* a thread that is Ready must really be able to take its step.)           *)
NoLockCycle == Active => \E t \in Threads : Ready(t)

-----------------------------------------------------------------------------
(* With one monitor, the pthread-level code implements MonitorSpec.  The   *)
(* wait begins where the node is linked in, and ends where acquiredMonitor *)
(* is cleared (WaitForMonitor) or the node unlinked (WaitForAnyMonitor).   *)
Abstract == INSTANCE MonitorSpec WITH
    owner <- IF mutex[1] # Nobody /\ pc[mutex[1]] \in {"release", "tlock2", "leave"}
             THEN Nobody ELSE mutex[1],
    queue <- queue[1],
    acquired <- [t \in Threads |-> /\ acquired[t] # NULL
                                   /\ ~ (pc[t] = "relock" /\ todo[t] = {})]

ImplementsMonitorSpec == Abstract!Spec
=============================================================================
