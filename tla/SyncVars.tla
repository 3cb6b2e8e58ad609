------------------------------ MODULE SyncVars ------------------------------
(***************************************************************************)
(* One synchronisation variable (struct SyncVar of                         *)
(* src/src/hpc/threadapi.c): written at most once, readers block until it  *)
(* is.  SyncIsBound takes no lock and SyncRead fetches the value after it  *)
(* has given its lock up, so the two stores of a writer are separate steps *)
(* here, with the mutex of the monitor held across them.                   *)
(***************************************************************************)
EXTENDS Integers, FiniteSets, Waiters

CONSTANTS
    Values,         \* the objects that may be written
    NoValue,        \* (Obj)0
    Nobody,         \* the owner of the free mutex
    MaxCalls        \* bound: calls per thread

ASSUME ValuesAssumption == NoValue \notin Values
ASSUME NobodyAssumption == Nobody \notin Threads

VARIABLES
    written,        \* var->written
    value,          \* var->value
    owner,          \* the thread that holds the mutex of var->monitor
    arg,            \* the object a writer is about to store
    result,         \* what the last finished call of each thread returned
    calls

vars == <<written, value, owner, queue, acquired, pc, arg, result, calls>>

(* CreateSyncVar.                                                          *)
Init ==
    /\ written = FALSE
    /\ value = NoValue
    /\ owner = Nobody
    /\ queue = <<>>
    /\ acquired = [t \in Threads |-> FALSE]
    /\ pc = [t \in Threads |-> "ready"]
    /\ arg = [t \in Threads |-> NoValue]
    /\ result = [t \in Threads |-> <<"none">>]
    /\ calls = [t \in Threads |-> 0]

Begin(t) ==
    /\ pc[t] = "ready"
    /\ calls[t] < MaxCalls
    /\ calls' = [calls EXCEPT ![t] = @ + 1]

-----------------------------------------------------------------------------
(* Faulty variants of the definitions below, used to test the properties.  *)

(* SyncRead that wakes nobody else.                                        *)
PassOnNever(q, a) == a

(* SyncTryWrite that tests var->written before it locks the monitor.       *)
SyncWriteUnguarded(t, v) ==
    /\ Begin(t)
    /\ owner = Nobody
    /\ owner' = t
    /\ written' = TRUE
    /\ arg' = [arg EXCEPT ![t] = v]
    /\ pc' = [pc EXCEPT ![t] = "storing"]
    /\ UNCHANGED <<value, queue, acquired, result>>

(* A writer that unlocks before it has stored the value.                   *)
SyncWriteUnlockedStore(t, v) ==
    /\ Begin(t)
    /\ owner = Nobody
    /\ ~ written
    /\ written' = TRUE
    /\ arg' = [arg EXCEPT ![t] = v]
    /\ pc' = [pc EXCEPT ![t] = "storing"]
    /\ UNCHANGED <<owner, value, queue, acquired, result>>

(* WaitForMonitor without "TLS(acquiredMonitor) = NULL".                   *)
SyncReadResumeDirty(t) ==
    /\ pc[t] = "blocked"
    /\ acquired[t]
    /\ owner = Nobody
    /\ written
    /\ queue' = RemoveWaitList(queue, t)
    /\ pc' = [pc EXCEPT ![t] = "fetching"]
    /\ UNCHANGED <<written, value, owner, acquired, arg, result, calls>>

-----------------------------------------------------------------------------
(* "if (monitor->head != NULL) SignalMonitor(monitor)": with an empty list *)
(* SignalMonitor does nothing anyway.                                      *)
PassOn(q, a) == IF q # <<>> THEN SignalMonitor(q, a) ELSE a

(* SyncWrite and SyncTryWrite on an unwritten variable: they differ only   *)
(* in how they refuse.  First store: written.                              *)
SyncWrite(t, v) ==
    /\ Begin(t)
    /\ owner = Nobody
    /\ ~ written
    /\ owner' = t
    /\ written' = TRUE
    /\ arg' = [arg EXCEPT ![t] = v]
    /\ pc' = [pc EXCEPT ![t] = "storing"]
    /\ UNCHANGED <<value, queue, acquired, result>>

(* Second store: value; then SignalMonitor and UnlockMonitor.              *)
SyncStore(t) ==
    /\ pc[t] = "storing"
    /\ value' = arg[t]
    /\ acquired' = SignalMonitor(queue, acquired)
    /\ owner' = Nobody
    /\ pc' = [pc EXCEPT ![t] = "ready"]
    /\ result' = [result EXCEPT ![t] = <<"written", arg[t]>>]
    /\ arg' = [arg EXCEPT ![t] = NoValue]
    /\ UNCHANGED <<written, queue, calls>>

(* SyncWrite raises "Variable already has a value", SyncTryWrite returns   *)
(* false.                                                                  *)
SyncWriteRefused(t) ==
    /\ Begin(t)
    /\ owner = Nobody
    /\ written
    /\ result' = [result EXCEPT ![t] = <<"refused">>]
    /\ UNCHANGED <<written, value, owner, queue, acquired, pc, arg>>

(* SyncRead on an unwritten variable: WaitForMonitor.                      *)
SyncReadBlock(t) ==
    /\ Begin(t)
    /\ owner = Nobody
    /\ ~ written
    /\ queue' = AddWaitList(queue, t)
    /\ pc' = [pc EXCEPT ![t] = "blocked"]
    /\ UNCHANGED <<written, value, owner, acquired, arg, result>>

(* SyncRead on a written one: wake the next reader and unlock.             *)
SyncReadAtOnce(t) ==
    /\ Begin(t)
    /\ owner = Nobody
    /\ written
    /\ acquired' = PassOn(queue, acquired)
    /\ pc' = [pc EXCEPT ![t] = "fetching"]
    /\ UNCHANGED <<written, value, owner, queue, arg, result>>

(* A reader returns from WaitForMonitor and leaves the loop: as SignalOK   *)
(* shows, it never finds the variable still unwritten.                     *)
SyncReadResume(t) ==
    /\ pc[t] = "blocked"
    /\ acquired[t]
    /\ owner = Nobody
    /\ written
    /\ queue' = RemoveWaitList(queue, t)
    /\ acquired' = PassOn(RemoveWaitList(queue, t), [acquired EXCEPT ![t] = FALSE])
    /\ pc' = [pc EXCEPT ![t] = "fetching"]
    /\ UNCHANGED <<written, value, owner, arg, result, calls>>

(* "return var->value", after UnlockMonitor.                               *)
SyncReadFetch(t) ==
    /\ pc[t] = "fetching"
    /\ result' = [result EXCEPT ![t] = <<"read", value>>]
    /\ pc' = [pc EXCEPT ![t] = "ready"]
    /\ UNCHANGED <<written, value, owner, queue, acquired, arg, calls>>

(* SyncIsBound reads var->value without the lock: while a writer is        *)
(* storing it may already see the new value.                               *)
SyncIsBound(t) ==
    /\ Begin(t)
    /\ \E seen \in {value} \cup {arg[u] : u \in {w \in Threads : pc[w] = "storing"}} :
          result' = [result EXCEPT ![t] = <<"bound", seen # NoValue>>]
    /\ UNCHANGED <<written, value, owner, queue, acquired, pc, arg>>

Step(t) == SyncStore(t) \/ SyncReadResume(t) \/ SyncReadFetch(t)

Next ==
    \E t \in Threads :
        \/ \E v \in Values : SyncWrite(t, v)
        \/ SyncWriteRefused(t)
        \/ SyncReadBlock(t)
        \/ SyncReadAtOnce(t)
        \/ SyncIsBound(t)
        \/ Step(t)

Spec == Init /\ [][Next]_vars

(* A thread that is inside a call and not waiting runs on.                 *)
FairSpec == Spec /\ \A t \in Threads : WF_vars(Step(t))

-----------------------------------------------------------------------------
(* The type invariant of struct SyncVar (threadapi.c, 103-107) and of the      *)
(* calls the threads are in.                                                   *)
TypeOK ==
    /\ written \in BOOLEAN
    /\ value \in Values \cup {NoValue}
    /\ owner \in Threads \cup {Nobody}
    /\ IsWaitList(queue, Threads)
    /\ acquired \in [Threads -> BOOLEAN]
    /\ pc \in [Threads -> {"ready", "storing", "blocked", "fetching"}]
    /\ arg \in [Threads -> Values \cup {NoValue}]
    /\ calls \in [Threads -> Nat]

(* "variables that can be written only once": at most one SyncWrite or     *)
(* SyncTryWrite ever succeeds, and the value it stored stays.              *)
WrittenOnce == [][value # NoValue => value' = value]_vars

(* The two stores of a writer: written leads, value follows under the same *)
(* lock, so with the monitor free they agree.                              *)
StoresAgree ==
    /\ owner = Nobody => (written <=> value # NoValue)
    /\ \A t \in Threads : pc[t] = "storing" => owner = t /\ written /\ value = NoValue

(* What is read without the lock is right: a SyncRead that has returned    *)
(* gave the value that was written and never (Obj)0, and when SyncIsBound  *)
(* has said yes, a later SyncRead does not block.                          *)
UnlockedReadsAgree ==
    \A t \in Threads :
        /\ result[t][1] = "read" => value # NoValue /\ result[t][2] = value
        /\ result[t] = <<"bound", TRUE>> => written

(* The wait list is the set of blocked readers; only they are signalled,   *)
(* and only when there is something to read, so none goes round its loop.  *)
SignalOK ==
    /\ Listed(queue) = Blocked
    /\ \A t \in Threads : acquired[t] => t \in Blocked /\ written

(* One signal per write is enough: each woken reader wakes the next, so    *)
(* while readers wait for a written variable one of them is on its way.    *)
ReaderInFlight ==
    owner = Nobody /\ written /\ queue # <<>> => \E t \in Threads : acquired[t]

(* "attempts to read the variable block until it has been written to": all *)
(* readers return once the variable is written.                            *)
ReadersReturn == written ~> [](Blocked = {})
=============================================================================
