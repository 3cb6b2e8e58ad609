------------------------------ MODULE Barriers ------------------------------
(***************************************************************************)
(* One barrier (struct Barrier of src/src/hpc/threadapi.c) and the threads *)
(* that call StartBarrier and WaitBarrier on it.                           *)
(*                                                                         *)
(* The functions check nothing about how they are called: a WaitBarrier    *)
(* too many takes the unsigned count below zero, and a StartBarrier while  *)
(* threads are still leaving mixes two phases.  So the properties are      *)
(* about the callers the functions are written for (ContractSpec): a phase *)
(* is started when the previous one is over, and no more threads enter it  *)
(* than it was started for.                                                *)
(***************************************************************************)
EXTENDS Integers, FiniteSets, Waiters

CONSTANTS
    MaxPhases,      \* bound: calls of StartBarrier
    WordSize        \* the number of values of a UInt

ASSUME ThreadsAssumption == IsFiniteSet(Threads)
ASSUME BoundsAssumption ==
    MaxPhases \in Nat /\ WordSize \in Nat /\ WordSize > Cardinality(Threads)

VARIABLES
    count,          \* barrier->count, an unsigned integer
    phase,          \* barrier->phase
    waiting,        \* barrier->waiting
    entered,        \* the phase a thread read when it entered WaitBarrier
    outcome,        \* how its last WaitBarrier ended: "none", "passed", "reset"
    expected,       \* history: the count the current phase was started with
    arrivals        \* history: WaitBarrier calls of the current phase

barrierVars == <<count, phase, waiting, queue, acquired, pc, entered, outcome, expected, arrivals>>

(* The barrier that CreateBarrier makes, and no thread at it.              *)
CreateBarrier ==
    /\ count = 0
    /\ phase = 0
    /\ waiting = 0
    /\ queue = <<>>
    /\ acquired = [t \in Threads |-> FALSE]
    /\ pc = [t \in Threads |-> "ready"]
    /\ entered = [t \in Threads |-> 0]
    /\ outcome = [t \in Threads |-> "none"]
    /\ expected = 0
    /\ arrivals = 0

Decrement(n) == (n - 1) % WordSize

(* WaitBarrier's last test: "if (phaseDelta != 0) ArgumentError(...)".     *)
OutcomeOf(p) == IF p = phase THEN "passed" ELSE "reset"

-----------------------------------------------------------------------------
(* Faulty variants of the definitions below, used to test the properties.  *)

(* WaitBarrier with ">=" for ">": the last thread to arrive waits too.     *)
WaitBarrierAlways(t) ==
    /\ pc[t] = "ready"
    /\ count' = Decrement(count)
    /\ arrivals' = arrivals + 1
    /\ waiting' = waiting + 1
    /\ queue' = AddWaitList(queue, t)
    /\ pc' = [pc EXCEPT ![t] = "blocked"]
    /\ entered' = [entered EXCEPT ![t] = phase]
    /\ UNCHANGED <<phase, acquired, outcome, expected>>

(* JoinBarrier without "barrier->waiting--".                               *)
WaitBarrierResumeUncounted(t) ==
    /\ pc[t] = "blocked"
    /\ acquired[t]
    /\ queue' = RemoveWaitList(queue, t)
    /\ acquired' = SignalMonitor(RemoveWaitList(queue, t), [acquired EXCEPT ![t] = FALSE])
    /\ pc' = [pc EXCEPT ![t] = "ready"]
    /\ outcome' = [outcome EXCEPT ![t] = OutcomeOf(entered[t])]
    /\ UNCHANGED <<count, waiting, phase, entered, expected, arrivals>>

(* Every arrival signals, not only the last.                               *)
WaitBarrierJoinSignalling(t) ==
    /\ pc[t] = "ready"
    /\ Decrement(count) > 0
    /\ count' = Decrement(count)
    /\ arrivals' = arrivals + 1
    /\ waiting' = waiting + 1
    /\ queue' = AddWaitList(queue, t)
    /\ acquired' = SignalMonitor(queue', acquired)
    /\ pc' = [pc EXCEPT ![t] = "blocked"]
    /\ entered' = [entered EXCEPT ![t] = phase]
    /\ UNCHANGED <<phase, outcome, expected>>

-----------------------------------------------------------------------------
SignalBarrier(w, q, a) == IF w # 0 THEN SignalMonitor(q, a) ELSE a

StartBarrier(n) ==
    /\ phase < MaxPhases
    /\ count' = n
    /\ phase' = phase + 1
    /\ expected' = n
    /\ arrivals' = 0
    /\ UNCHANGED <<waiting, queue, acquired, pc, entered, outcome>>

(* WaitBarrier of a thread that is not the last: JoinBarrier waits.        *)
WaitBarrierJoin(t) ==
    /\ pc[t] = "ready"
    /\ Decrement(count) > 0
    /\ count' = Decrement(count)
    /\ arrivals' = arrivals + 1
    /\ waiting' = waiting + 1
    /\ queue' = AddWaitList(queue, t)
    /\ pc' = [pc EXCEPT ![t] = "blocked"]
    /\ entered' = [entered EXCEPT ![t] = phase]
    /\ UNCHANGED <<phase, acquired, outcome, expected>>

(* WaitBarrier of the last: it goes on and starts the chain of wake-ups.   *)
WaitBarrierLast(t) ==
    /\ pc[t] = "ready"
    /\ Decrement(count) = 0
    /\ count' = Decrement(count)
    /\ arrivals' = arrivals + 1
    /\ acquired' = SignalBarrier(waiting, queue, acquired)
    /\ outcome' = [outcome EXCEPT ![t] = "passed"]
    /\ entered' = [entered EXCEPT ![t] = phase]
    /\ UNCHANGED <<phase, waiting, queue, pc, expected>>

(* JoinBarrier returns: the thread wakes the next one, and compares the    *)
(* phase with the one it entered.  There is no loop: one signal is enough. *)
WaitBarrierResume(t) ==
    /\ pc[t] = "blocked"
    /\ acquired[t]
    /\ waiting' = waiting - 1
    /\ queue' = RemoveWaitList(queue, t)
    /\ acquired' = SignalBarrier(waiting - 1, RemoveWaitList(queue, t),
                                 [acquired EXCEPT ![t] = FALSE])
    /\ pc' = [pc EXCEPT ![t] = "ready"]
    /\ outcome' = [outcome EXCEPT ![t] = OutcomeOf(entered[t])]
    /\ UNCHANGED <<count, phase, entered, expected, arrivals>>

-----------------------------------------------------------------------------
(* The callers the functions are written for.                              *)
ContractNext ==
    \/ \E n \in 1 .. Cardinality(Threads) :
          /\ arrivals = expected
          /\ Blocked = {}
          /\ StartBarrier(n)
    \/ \E t \in Threads :
          /\ arrivals < expected
          /\ entered[t] < phase
          /\ WaitBarrierJoin(t) \/ WaitBarrierLast(t)
    \/ \E t \in Threads : WaitBarrierResume(t)

(* A woken thread runs.                                                    *)
ContractSpec ==
    /\ CreateBarrier /\ [][ContractNext]_barrierVars
    /\ \A t \in Threads : WF_barrierVars(WaitBarrierResume(t))

-----------------------------------------------------------------------------
(* The bookkeeping: the count is what is still missing, barrier->waiting   *)
(* is the number of threads in the list, and only they are signalled.      *)
BarrierOK ==
    /\ count \in Nat /\ arrivals + count = expected
    /\ waiting = Cardinality(Blocked)
    /\ IsWaitList(queue, Threads) /\ Listed(queue) = Blocked
    /\ \A t \in Threads : acquired[t] => t \in Blocked

(* The point of a barrier: nobody is let through before all the threads    *)
(* the phase was started for have arrived.                                 *)
NobodyPassesEarly ==
    arrivals < expected =>
        /\ \A t \in Threads : ~ acquired[t]
        /\ \A t \in Threads : entered[t] = phase => t \in Blocked

(* Once the last thread has arrived, the chain of wake-ups reaches every   *)
(* waiting thread.                                                         *)
AllPass == (phase > 0 /\ arrivals = expected) ~> Blocked = {}
=============================================================================
