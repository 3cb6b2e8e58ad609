--------------------------- MODULE ThreadControl ---------------------------
(***************************************************************************)
(* PauseThread, ResumeThread, KillThread and InterruptThread of HPC-GAP    *)
(* (thread.c), called by other threads on one thread that executes         *)
(* statements (stats.c) and waits in monitors (threadapi.c).  A request is *)
(* a change of the thread's state word by compare-and-swap; it is noticed  *)
(* when the thread dispatches a statement through the table of interrupts, *)
(* or when it changes its own state around a wait.                         *)
(*                                                                         *)
(* The mutex of the thread is one bit: pthread_mutex_unlock clears it,     *)
(* whoever has it, as it does for mutexes of the default kind.  Where      *)
(* handlers and statements differ is left out: both are "run".             *)
(***************************************************************************)
EXTENDS Naturals

CONSTANTS
    Controllers,    \* the other threads
    NoThread

ASSUME ControllersAssumption == NoThread \notin Controllers

VARIABLES
    state,          \* thread_data[].state: its kind, and for a pause by whom
    intr,           \* is CurrExecStatFuncs the table of interrupts?
    mutex,          \* is thread_data[].lock locked?
    signalled,      \* has the condition been signalled since the thread waits?
    acquired,       \* acquiredMonitor is set
    listed,         \* the thread is in the wait list of a monitor
    altOwner,       \* currentRegion->alt_owner
    place, from,       \* where the thread is; where HandleInterrupts returns to
    signaller,      \* where a thread is in SignalMonitor
    ctl,            \* ctl[c]: where c is in a control function, the state seen
    interrupts      \* has InterruptThread been called?

controlVars == <<state, intr, mutex, signalled, acquired, listed, altOwner, place, from,
          signaller, ctl, interrupts>>
others == <<signaller, ctl, interrupts>>
monitor == <<acquired, listed>>

Kinds == {"running", "terminated", "blocked", "paused", "interrupted", "killed"}
Word(kind) == [kind |-> kind, by |-> NoThread]
Entry(label, fn, seen) == [place |-> label, fn |-> fn, seen |-> seen]
Outside(label) == Entry(label, "none", Word("running"))

ControlInit ==
    /\ state = Word("running")
    /\ intr = FALSE /\ mutex = FALSE /\ signalled = FALSE
    /\ acquired = FALSE /\ listed = FALSE
    /\ altOwner = NoThread
    /\ place = "run" /\ from = "run"
    /\ signaller = "idle"
    /\ ctl = [c \in Controllers |-> Outside("idle")]
    /\ interrupts = FALSE

-----------------------------------------------------------------------------
(* The thread.  Statements that do nothing of interest are stuttering.     *)

Goto(label) == place' = label

(* ExecIntrStat: the table is restored before the state is looked at.      *)
ExecIntrStat ==
    /\ place = "run" /\ intr
    /\ intr' = FALSE /\ from' = "run" /\ Goto("handle")
    /\ UNCHANGED <<state, mutex, signalled, monitor, altOwner, others>>

(* TerminateCurrentThread(1), up to the longjmp.                           *)
TerminateCurrentThread ==
    /\ mutex' = FALSE /\ from' = "run" /\ Goto("exit")
    /\ UNCHANGED <<state, intr, signalled, monitor, altOwner, others>>

ReturnFromHandler == Goto(from) /\ from' = "run"

(* Interrupts are for statements: in a wait they stay as they are.         *)
HandleInterrupts ==
    /\ place = "handle"
    /\ \/ state.kind = "killed" /\ TerminateCurrentThread
       \/ /\ \/ state.kind = "paused" /\ Goto("pause") /\ from' = from
             \/ state.kind = "interrupted" /\ from = "run" /\ Goto("interrupt") /\ from' = from
             \/ /\ state.kind \notin {"killed", "paused"}
                /\ ~ (state.kind = "interrupted" /\ from = "run")
                /\ ReturnFromHandler
          /\ UNCHANGED <<state, intr, mutex, signalled, monitor, altOwner, others>>

(* PauseCurrentThread(1): one turn of its loop.                            *)
PauseCurrentThread ==
    /\ place = "pause"
    /\ \/ state.kind = "killed" /\ TerminateCurrentThread
       \/ /\ state.kind = "paused"
          /\ altOwner' = state.by /\ Goto("sleep")
          /\ UNCHANGED <<state, intr, mutex, signalled, monitor, from, others>>
       \/ /\ state.kind \notin {"killed", "paused"}
          /\ ReturnFromHandler
          /\ UNCHANGED <<state, intr, mutex, signalled, monitor, altOwner, others>>

(* Mutant: the state is reset before the table is.                         *)
InterruptStateFirst ==
    /\ \/ place = "interrupt" /\ Goto("interrupted") /\ intr' = intr
          /\ state' = IF state.kind = "interrupted" THEN Word("running") ELSE state
       \/ place = "interrupted" /\ Goto("run") /\ intr' = FALSE /\ state' = state
    /\ UNCHANGED <<mutex, signalled, monitor, altOwner, from, others>>

(* The table is restored, then the state is reset and the handler runs.    *)
InterruptCurrentThread ==
    /\ \/ place = "interrupt" /\ Goto("interrupted") /\ intr' = FALSE /\ state' = state
       \/ place = "interrupted" /\ Goto("run") /\ intr' = intr
          /\ state' = IF state.kind = "interrupted" THEN Word("running") ELSE state
    /\ UNCHANGED <<mutex, signalled, monitor, altOwner, from, others>>

(* WaitForMonitor, as far as the thread's own mutex goes.                  *)
WaitForMonitor ==
    /\ place = "run" /\ ~ intr
    /\ listed' = TRUE /\ Goto("lock")
    /\ UNCHANGED <<state, intr, mutex, signalled, acquired, altOwner, from, others>>

LockThread ==
    /\ place = "lock" /\ ~ mutex
    /\ mutex' = TRUE /\ Goto("check")
    /\ UNCHANGED <<state, intr, signalled, monitor, altOwner, from, others>>

CheckAcquired ==
    /\ place = "check"
    /\ Goto(IF acquired THEN "leave" ELSE "block")
    /\ UNCHANGED <<state, intr, mutex, signalled, monitor, altOwner, from, others>>

(* WaitThreadSignal before its wait: to the wait also when interrupts have *)
(* been handled.                                                           *)
Block ==
    /\ place = "block"
    /\ state' = IF state.kind = "running" THEN Word("blocked") ELSE state
    /\ Goto(IF state.kind = "running" THEN "wait" ELSE "handle")
    /\ from' = IF state.kind = "running" THEN from ELSE "wait"
    /\ UNCHANGED <<intr, mutex, signalled, monitor, altOwner, others>>

(* pthread_cond_wait of a wait or a pause.                                 *)
CondWait ==
    /\ place \in {"wait", "sleep"}
    /\ mutex' = FALSE
    /\ Goto(IF place = "wait" THEN "waiting" ELSE "paused")
    /\ UNCHANGED <<state, intr, signalled, monitor, altOwner, from, others>>

Asleep == place \in {"waiting", "paused"}

SpuriousWakeup ==
    /\ Asleep /\ ~ signalled
    /\ signalled' = TRUE
    /\ UNCHANGED <<state, intr, mutex, monitor, altOwner, place, from, others>>

Wake ==
    /\ Asleep /\ signalled /\ ~ mutex
    /\ mutex' = TRUE /\ signalled' = FALSE
    /\ altOwner' = NoThread
    /\ Goto(IF place = "waiting" THEN "unblock" ELSE "pause")
    /\ UNCHANGED <<state, intr, monitor, from, others>>

(* WaitThreadSignal after its wait.  That the state is running after all   *)
(* is found out in HandleInterrupts, which then returns at once.           *)
Unblock ==
    /\ place = "unblock"
    /\ state' = IF state.kind = "blocked" THEN Word("running") ELSE state
    /\ Goto(IF state.kind = "blocked" THEN "check" ELSE "handle")
    /\ from' = IF state.kind = "blocked" THEN from ELSE "check"
    /\ UNCHANGED <<intr, mutex, signalled, monitor, altOwner, others>>

(* The monitor has to be locked; if it is not free at once, the mutex is   *)
(* given up meanwhile.                                                     *)
LeaveMonitor ==
    /\ \/ place = "leave" /\ signaller = "idle"
          /\ acquired' = FALSE /\ listed' = FALSE /\ Goto("run")
       \/ place = "leave" /\ Goto("relock") /\ UNCHANGED monitor
       \/ place = "relock" /\ signaller = "idle" /\ ~ mutex
          /\ acquired' = FALSE /\ listed' = FALSE /\ Goto("run")
    /\ mutex' = FALSE
    /\ UNCHANGED <<state, intr, signalled, altOwner, from, others>>

(* The thread's function returns.                                          *)
Finish ==
    /\ place = "run" /\ ~ intr
    /\ Goto("exit")
    /\ UNCHANGED <<state, intr, mutex, signalled, monitor, altOwner, from, others>>

Exit ==
    /\ place = "exit"
    /\ state' = Word("terminated") /\ Goto("gone")
    /\ UNCHANGED <<intr, mutex, signalled, monitor, altOwner, from, others>>

-----------------------------------------------------------------------------
(* SignalMonitor.  What a signal to a thread that was killed in its wait   *)
(* does is undefined, and left out.                                        *)
SignalLock ==
    /\ signaller = "idle" /\ listed /\ place \notin {"exit", "gone"} /\ ~ mutex
    /\ mutex' = TRUE /\ signaller' = "locked"
    /\ UNCHANGED <<state, intr, signalled, monitor, altOwner, place, from, ctl, interrupts>>

SignalMonitor ==
    /\ signaller = "locked"
    /\ acquired' = TRUE
    /\ signalled' = (signalled \/ (~ acquired /\ Asleep))
    /\ mutex' = FALSE /\ signaller' = "idle"
    /\ UNCHANGED <<state, intr, listed, altOwner, place, from, ctl, interrupts>>

-----------------------------------------------------------------------------
(* The control functions.  TSTATE_SYSCALL is never set.                    *)

ControlFns == {"pause", "resume", "kill", "interrupt"}

(* States in which a function swaps the state at once, and states in which *)
(* it takes the mutex first and signals the condition.                     *)
SwapAt(fn) ==
    CASE fn = "kill" -> {"running", "interrupted"}
      [] fn \in {"pause", "interrupt"} -> {"running"}
      [] OTHER -> {}
LockAt(fn) ==
    CASE fn = "kill" -> {"blocked", "paused"}
      [] fn \in {"pause", "interrupt"} -> {"blocked"}
      [] OTHER -> {"paused"}

NewState(fn, c) ==
    CASE fn = "pause" -> [kind |-> "paused", by |-> c]
      [] fn = "resume" -> Word("running")
      [] fn = "kill" -> Word("killed")
      [] OTHER -> Word("interrupted")

At(c, label) == ctl[c].place = label
Goes(c, label, fn, seen) == ctl' = [ctl EXCEPT ![c] = Entry(label, fn, seen)]
Forget(c, label) == ctl' = [ctl EXCEPT ![c] = Outside(label)]
thread == <<acquired, listed, altOwner, place, from, signaller>>

Call(c, fn) ==
    /\ At(c, "idle")
    /\ Goes(c, "look", fn, Word("running"))
    /\ interrupts' = (interrupts \/ fn = "interrupt")
    /\ UNCHANGED <<state, intr, mutex, signalled, thread>>

GetThreadState(c) ==
    /\ At(c, "look")
    /\ LET fn == ctl[c].fn
       IN  IF state.kind \in SwapAt(fn) \cup LockAt(fn)
           THEN Goes(c, IF state.kind \in SwapAt(fn) THEN "swap" ELSE "trylock", fn, state)
           ELSE Forget(c, "idle")
    /\ UNCHANGED <<state, intr, mutex, signalled, thread, interrupts>>

UpdateThreadState(c) ==
    /\ At(c, "swap")
    /\ IF state = ctl[c].seen
       THEN state' = NewState(ctl[c].fn, c) /\ Forget(c, "set")
       ELSE state' = state /\ Goes(c, "look", ctl[c].fn, Word("running"))
    /\ UNCHANGED <<intr, mutex, signalled, thread, interrupts>>

(* Mutant: the table is changed under the mutex of the thread.             *)
SetInterruptLocked(c) ==
    /\ (At(c, "set") /\ ~ mutex) \/ At(c, "lockedset")
    /\ intr' = TRUE
    /\ Forget(c, IF At(c, "set") THEN "idle" ELSE "signal")
    /\ UNCHANGED <<state, mutex, signalled, thread, interrupts>>

SetInterrupt(c) ==
    /\ At(c, "set") \/ At(c, "lockedset")
    /\ intr' = TRUE
    /\ Forget(c, IF At(c, "set") THEN "idle" ELSE "signal")
    /\ UNCHANGED <<state, mutex, signalled, thread, interrupts>>

(* LockAndUpdateThreadState.  pthread_mutex_trylock does not return a      *)
(* negative number: the function goes on when the mutex is busy.           *)
TryLock(c) ==
    /\ At(c, "trylock")
    /\ mutex' = TRUE /\ Goes(c, "lockedswap", ctl[c].fn, ctl[c].seen)
    /\ UNCHANGED <<state, intr, signalled, thread, interrupts>>

(* Mutant: the state is stored, not compared and swapped.                  *)
LockedStore(c) ==
    /\ At(c, "lockedswap")
    /\ state' = NewState(ctl[c].fn, c) /\ mutex' = mutex /\ Forget(c, "lockedset")
    /\ UNCHANGED <<intr, signalled, thread, interrupts>>

LockedUpdate(c) ==
    /\ At(c, "lockedswap")
    /\ IF state = ctl[c].seen
       THEN state' = NewState(ctl[c].fn, c) /\ mutex' = mutex /\ Forget(c, "lockedset")
       ELSE state' = state /\ mutex' = FALSE
            /\ IF ctl[c].fn = "resume" THEN Forget(c, "idle") ELSE Goes(c, "look", ctl[c].fn, Word("running"))
    /\ UNCHANGED <<intr, signalled, thread, interrupts>>

SignalThread(c) ==
    /\ At(c, "signal")
    /\ signalled' = (signalled \/ Asleep)
    /\ mutex' = FALSE /\ Forget(c, "idle")
    /\ UNCHANGED <<state, intr, thread, interrupts>>

-----------------------------------------------------------------------------
(* What the thread does when it is scheduled, except for what it is        *)
(* programmed to do.                                                       *)
ThreadStep ==
    \/ ExecIntrStat \/ HandleInterrupts \/ PauseCurrentThread
    \/ InterruptCurrentThread \/ LockThread \/ CheckAcquired \/ Block
    \/ CondWait \/ Wake \/ Unblock \/ LeaveMonitor \/ Exit

ControlStep(c) ==
    \/ GetThreadState(c) \/ UpdateThreadState(c) \/ SetInterrupt(c)
    \/ TryLock(c) \/ LockedUpdate(c) \/ SignalThread(c)

ControlNext ==
    \/ ThreadStep \/ WaitForMonitor \/ Finish \/ SpuriousWakeup
    \/ SignalLock \/ SignalMonitor
    \/ \E c \in Controllers : (\E fn \in ControlFns : Call(c, fn)) \/ ControlStep(c)

ControlSpec == ControlInit /\ [][ControlNext]_controlVars

(* The thread and those that control it are scheduled.                     *)
FairControlSpec ==
    /\ ControlSpec
    /\ WF_controlVars(ThreadStep)
    /\ \A c \in Controllers : WF_controlVars(ControlStep(c))
-----------------------------------------------------------------------------
ThreadPlaces ==
    {"run", "handle", "pause", "sleep", "paused", "interrupt", "interrupted", "lock", "check",
     "block", "wait", "waiting", "unblock", "leave", "relock", "exit", "gone"}

(* A control function has changed the state and not yet the table.         *)
OnItsWay == \E c \in Controllers : At(c, "set") \/ At(c, "lockedset")

(* While the thread executes statements, nobody else may use its region,   *)
(* and no request is lost: a thread that has been paused or interrupted    *)
(* dispatches its next statement through the table of interrupts, or the   *)
(* control function is about to see to it.  For a kill this is so unless   *)
(* InterruptThread has been called: InterruptCurrentThread restores the    *)
(* table without a look at the state.                                      *)
RunningUndisturbed ==
    /\ state.kind \in Kinds /\ place \in ThreadPlaces
    /\ place = "run" =>
          /\ altOwner = NoThread
          /\ \/ state.kind \in {"paused", "interrupted"}
             \/ state.kind = "killed" /\ ~ interrupts
             => intr \/ OnItsWay

(* A kill is final: no race with a pause, a resume, an interrupt or the    *)
(* thread's own changes of its state brings a killed thread back.          *)
KillIsFinal ==
    [][/\ state.kind = "killed" => state'.kind \in {"killed", "terminated"}
       /\ state.kind = "terminated" => state'.kind = "terminated"]_controlVars

(* "The PauseThread function suspends execution for the given thread": a   *)
(* thread that stays paused stops executing statements for good, whatever  *)
(* signals, spurious wake-ups and calls of other functions it gets.        *)
PauseTakesEffect ==
    <>[](state.kind = "paused") => <>[](place # "run")
=============================================================================
