# TLA+ models of HPC-GAP's threads and of GAP's memory manager

This directory holds a TLA+ development for the two parts of the GAP kernel in
this repository that carry most of its hidden state: the threads of HPC-GAP
(`src/src/hpc/threadapi.c`, `thread.c`) and Gasman, the memory manager
(`src/src/gasman.c`), with weak pointers on top of it (`weakptr.c`). It contains
specifications, TLC configurations that model-check them, and proofs checked by
TLAPS.

Contents: 1 the system; 2 the hard parts; 3 modules and how they correspond to
the code; 4 the runs; 5 bounds; 6 fairness; 7 proofs; 8 what is only
model-checked; 9 findings; 10 what is not modelled; 11 plan.

## 1. The system

GAP is an interpreter for computational algebra: a C kernel (`src/src`), a
library in its own language (`src/lib`, `src/grp`), vendored GMP and zlib
(`src/extern`) and, in this fork, a WebAssembly build (`src/etc/emscripten`).
Most of the kernel is sequential. HPC-GAP adds threads with shared memory, and
that is where the code is hard to test; the memory manager is sequential, but its
state is spread over the whole workspace and a mistake shows long after the call
that made it. The parts:

| part | code | state it keeps | operations |
|---|---|---|---|
| monitors | `threadapi.c` 70-360 | a mutex and a list of waiting threads per monitor; a mutex, a condition variable and `acquiredMonitor` per thread | `WaitForMonitor`, `WaitForAnyMonitor`, `SignalMonitor` |
| channels | `threadapi.c` 81-88, 980-1463 | ring buffer of (object, children) pairs, number of waiters, a monitor | send, transmit, receive, their `Try` and `Multi` variants, `InspectChannel`, `TallyChannel`, `ReceiveAnyChannel` |
| semaphores | `threadapi.c` 90-94, 1465-1546 | counter, number of waiters, a monitor | `SignalSemaphore`, `WaitSemaphore`, `TryWaitSemaphore` |
| barriers | `threadapi.c` 96-101, 1548-1629 | count, phase, number of waiters, a monitor | `StartBarrier`, `WaitBarrier` |
| synchronisation variables | `threadapi.c` 103-107, 1631-1724 | written flag, value, a monitor | `SyncWrite`, `SyncTryWrite`, `SyncRead`, `SyncIsBound` |
| regions and their locks | `thread.c` 604-855, 1139-1305; `region.c` | read/write lock, owner, readers and precedence per region; a lock stack per thread | `LOCK`, `TRYLOCK`, `UNLOCK`, the atomic statement |
| object migration | `threadapi.c` (`MigrateObjects`, `SHARE`, `ADOPT`), `traverse.c` | the region of every object | move reachable objects between regions |
| thread control | `thread.c` 860-1125 | a state word per thread, changed by compare-and-swap | pause, resume, interrupt, kill |
| memory manager | `gasman.c`, `sysmem.c` | masterpointers, bags and their headers, free list, chain of changed bags, borders between old, young and free | `NewBag`, `ResizeBag`, `SwapMasterPoint`, `CHANGED_BAG`, `CollectBags` |
| weak pointers | `weakptr.c` | positions that do not keep their bags alive | create, read, assign, unbind; marking and sweeping |
| thread table | `thread.c` 404-553, `threadapi.c` 395-527 | free list of thread slots, keep-alive list | create, dispatch, join |
| atomic objects | `aobjects.c` | lists, records and thread-local records updated without locks | read, write, compare-and-swap, grow |
| serialisation | `serialize.c` | stack of objects and back references | to and from byte strings |
| tasks, queues, actors | `hpcgap/lib/hpc/*.g` | worker pool, task records | run, wait, cancel |
| distributed objects | `hpcgap/lib/distributed/*` | handles, message queues, a send semaphore | messages over MPI, work stealing |

How they interact. Channels, semaphores, barriers and synchronisation variables
each own one monitor and follow one pattern: lock the monitor's mutex, look at
the state, wait on the monitor while the state is not right, change the state,
signal the monitor, unlock. Sending an object through a channel also changes
its region. Tasks and the distributed library call these functions from the GAP
language; `locomm.g` uses a semaphore as a lock round its MPI calls. Thread
control reaches into a wait: it changes the state word of a thread that may be
inside `WaitThreadSignal`, and shares its mutex and condition with
`SignalMonitor`. Migration changes the region of objects while other threads
wait for the lock of the region they were in. Weak pointer objects give Gasman a
marking and a sweeping function of their own, and rely on masterpointers of dead
bags being kept.

What makes each part correct:

- monitors: no signal is slept through, each signal releases one thread, a
  returning waiter holds just the monitor it was handed and has left all lists,
  and no order of locking deadlocks;
- semaphores: tokens are neither invented nor lost, and a token does not lie
  idle beside a waiter;
- channels: a FIFO queue through every growth and wrap of the ring; objects are
  in limbo just while in transit; elements do not lie idle beside receivers;
- barriers: nobody passes early, everybody passes;
- synchronisation variables: written once, readers get that value, all return;
- region locks: the lock stack tells the truth, a lock that was granted covers the
  object it was asked for, members of a locked region stay, and nobody waits in a
  circle under the precedence rule;
- thread control: no pause is lost, no kill is taken back, the region of a paused
  thread is lent only while it sleeps, a thread that stays paused stops;
- memory manager: what the program sees of its objects is not changed by any
  collection; bodies tile the workspace, masterpointers are either in use or free,
  and a young bag that only old ones know is on the list of changed bags.

## 2. The hard parts

`PROJECT.json` lists the hazards with their lines. They fall into a few groups:
wake-ups that reach the wrong thread, or none (one signal per operation, chains
in which a woken thread wakes the next); two lock orders in one protocol; values
read after the lock was given up; index arithmetic of the ring that only matters
when it is full and rotated; counters that must match the wait list; a region
looked up before a wait and used after it; requests that arrive between two looks
at a state word; bags that are old, young, moved, exchanged and named by weak
pointers in every combination, with the workspace at its limit.

## 3. Modules

| module | models | kind |
|---|---|---|
| `WaitLists` | `AddWaitList`, `RemoveWaitList`, the choice made by `SignalMonitor` | operators |
| `MonitorSpec` | what a monitor promises: atomic wait, resume and signal | abstract specification |
| `Monitors` | the monitor code, one action per pthread call | detailed specification |
| `Waiters` | the list of waiting threads, who was signalled and where each thread is, as `Semaphores`, `SyncVars` and `Barriers` share them | declarations |
| `Semaphores` | one semaphore and its callers | specification |
| `SendLock` | `MPISendSem` of `locomm.g` on top of `Semaphores` | composition |
| `SyncVars` | one synchronisation variable | specification |
| `Barriers` | one barrier | specification |
| `ChannelRing` | the ring buffer routines | operators |
| `FifoChannel` | a FIFO queue | abstract specification |
| `Channels` | one channel and its callers, with regions | specification |
| `RegionLocks` | region locks, lock stacks, `LockObjects`, `TryLockObjects`, migration | specification |
| `ThreadControl` | the four control functions against one thread that runs and waits | specification |
| `Gasman` | the memory manager, word by word, and the routines of `weakptr.c` | operators |
| `Heap` | a program that calls `Gasman` | specification |
| `WaitListProofs`, `MonitorProofs`, `SemaphoreProofs` (with `SendLock`), `ChannelProofs` (with `ChannelRing`), `SyncProofs` (`SyncVars` and `Barriers`), `ThreadProofs` (`RegionLocks` and `ThreadControl`) | | proofs |
| `GasmanProofs` (the operators of `Gasman`), `HeapProofs` (their callers) | | proofs |
| `MC...` | constants for TLC | instances |

Definitions have the names of the C functions they model; `PROJECT.json` maps
every definition to its lines. Each module starts with the variables and says
which field each stands for. Operators that stand under the heading "Faulty
variants" are deliberate bugs: `PROJECT.json` names, for each property, a variant
that breaks it, so that no property is true by accident.

**Granularity.** `Monitors` takes one step per lock, unlock, sleep, wake-up and
list operation. Run `monitors_refine` shows that it implements `MonitorSpec`, in
which giving up the mutex and joining the list is one step, signalling is one
step, and so is returning from a wait. The other modules use these three steps
directly, with the operators of `WaitLists`. A section of code between lock and
unlock that touches nothing else is one step in `Semaphores`, `Barriers` and
`SyncVars`; where some function reads without the lock (`SyncIsBound`, the fetch
in `SyncRead`) the stores of the writer are separate steps. In `Channels` each
element sent or received is a step, with the mutex held across the steps of a
call, so that the order inside `MultiSendChannel` (add, perhaps wait, add, then
signal) is visible.

**Data.** An object of a channel is a model value that stands for itself and all
that is reachable from it in its region; the list of children in the second slot
is `Moved` or `Null`, which is all that `RetrieveFromChannel` distinguishes.
Monitors are numbers because they are locked in the order of their addresses.
Error messages, argument checks and printing are left out.

**Correspondence, module by module.**

- `Monitors`: `pc` is the place in `WaitForMonitor`, `WaitForAnyMonitor` or
  `SignalMonitor`; `todo` is what is left of a loop over monitors, `walk` the
  cursor of `SignalMonitor`. `pthread_cond_wait` is `Sleep` (release and sleep in
  one step), then a wake-up by `SignalThread` or `SpuriousWakeup`, then `LockSelf`.
- `Semaphores`: `WaitSemaphore` is four actions: it finds a token at once, or
  blocks; woken, it takes its token, or finds it gone and waits again. `signalled`,
  `granted` and `tried` are history counters. `TryWaitSemaphore` decrements
  `waiting`, as the code does.
- `Channels`: `Begin` is `LockChannel`, `Finish` is `UnlockChannel`, `WaitChannel`
  and `Resume` are the two halves of `WaitChannel`. `SendOne`, `SendWait`,
  `TrySendFull` and `SendEnd` are the loop of the eight send functions, told apart
  by `call[t].fn` and `call[t].migrate`. Expansion (`Room`) happens in the step that
  adds, as both are under one lock.
- `Barriers`: `count` wraps at `WordSize` as the unsigned integer does; `phase` and
  the "Barrier was reset" error are `entered` and `OutcomeOf`.
- `SyncVars`: `SyncWrite` and `SyncStore` are the two stores; a reader that
  returns from its wait always finds the variable written, which `SignalOK` states.
- `RegionLocks`: `call[t]` holds the arguments not yet looked up, the sorted
  requests, the next one and the stack pointer before the call. `ReadRegion` looks up
  one argument; `Lock` takes a lock, pushes it and looks at the region again in one
  step (the second look that fails is `RaceCondition`); `PopRegionLocks` is part of the
  step that fails. A thread-local region has the name of its thread, is locked for
  it always, and sorts as a region of precedence 0 with a low address. The atomic statement
  (`stats.c` 569-625) is a `LOCK` and an `UNLOCK`: that it first drops the objects that
  are locked already is part of the loop (`AlreadyLocked`, `Refused`), and regions given as
  arguments in place of objects are left out. Migrations move one object at a
  time. The deadlock check of HPC-GAP is taken to be on.
- `ThreadControl`: `state` is the state word, `intr` says which dispatch table the
  thread uses, `mutex` and `signalled` are the thread's lock and condition. The mutex
  is one bit that an unlock clears whoever locked it, which is what the code does
  in several places. `place` is where the thread is in its statement, in
  `HandleInterrupts` or in `WaitForMonitor`, `from` the place it returns to. A
  controlling thread looks, then swaps, then sets the table, in separate steps.
  `TryLock` goes on when the mutex is busy, as `thread.c:880` does. When the swap of
  `Unblock` fails, the look at the state before the call of `HandleInterrupts` and the look
  inside it are one step: in the state running that step goes straight on to the check of
  `acquiredMonitor`. The number of the interrupt handler is not kept: a kill that would fail to
  swap because of it, and try again, swaps at once.
- `Gasman`: a workspace is a record of the words and of the pointers `MptrBags`,
  `OldBags`, `YoungBags`, `AllocBags`, `EndBags`, `FreeMptrBags` and `ChangedBags`. Marking,
  sweeping and the checks of `CollectBags` are operators on it. The stack scan is
  exact: the roots are the variables of `Heap`.
- `Heap`: a call that needs room goes through the phases of a collection (partial,
  full, check, ready), then proceeds, or ends in `panic` (`ReportOutOfMemory`) or
  `crash` (section 9). Beside the workspace the module keeps the objects as the program knows them; `ObjectsIntact` compares the two.

## 4. The runs

| run | checks | shows |
|---|---|---|
| `semaphores` | `TypeOK`, `TokensConserved`, `WaitingDrift`, `WakeupsWithoutTry`, `ServedWithoutTry` | tokens are conserved whatever the calls; the waiting counter is wrong by just the number of `TryWaitSemaphore` calls; without those no waiter is forgotten |
| `semaphores_try` | `WaiterServed`, violated | the finding of section 9 |
| `send_lock` | `MutualExclusion`, `FreeLockIsTaken` | a semaphore with count 1 is a lock for `SendMessagePickle` and `SendMessageSerialize`, and is handed on |
| `monitors` | `TypeOK`, `NoMissedSignal`, `WaitReturnsSignalled`, `NoLockCycle`, `SignalsAreNotOverwritten`; deadlock | the wait and signal protocol is right for single and multiple waits, and never stops while a thread is awake in a call |
| `monitors_refine` | `ImplementsMonitorSpec`, `SignalledReturns` | the atomic monitor of the other modules is justified |
| `sync_vars` | `SignalOK`, `UnlockedReadsAgree`, `WrittenOnce`, `ReadersReturn` | a variable is written once and every reader gets its value |
| `barriers` | `BarrierOK`, `NobodyPassesEarly`, `AllPass` | phases work for callers that keep to them |
| `channels` | `ChannelOK`, `ReceiverInFlight`, `ReceiversServed`, `ImplementsFifo` | a channel without a capacity is a FIFO queue through its expansions and serves its receivers |
| `channels_bounded` | `WaitersOK`, `LimboIsInTransit`, `ImplementsFifo` | the same safety for a channel with a capacity |
| `region_locks` | `StacksOK`, `NoLockCycle`, `LocksCover`, `LockedRegionsStable` | stacks and locks agree also after failed calls; what was locked covers its objects; no circle of waiting |
| `thread_control` | `RunningUndisturbed`, `KillIsFinal`, `PauseTakesEffect` | requests are noticed or on their way at every moment, kills stay, a thread that stays paused stops |
| `heap` | `TypeOK`, `ObjectsIntact`, `BodiesTile`, `MptrsAccounted`, `RememberedSet` | no sequence of calls and collections changes an object or breaks the structures |

## 5. Bounds

`MaxCalls`, `MaxSignals`, `MaxTries`, `MaxPhases` and `MaxSpurious` bound how
often a thread calls; they are guards on the start of a call and nothing else.
When they are used up the threads stop, so most runs do not check for deadlock in
TLC's sense; `NoLockCycle`, `AllPass` and the liveness properties say what must not
get stuck. In `monitors` TLC does check for deadlock: its specification may stutter
(`AtRest`) once every thread is outside its calls or asleep, so a state without a step
is one in which threads block each other. There `NoLockCycle` says that the guard of a
next step holds, and the deadlock check that the step can then be taken.

- `semaphores`: four threads, five signals, two tries: several tokens and several
  waiters at once, late and early tries, and waiters overtaken by newcomers.
- `monitors`: three threads, two monitors, two calls each, one spurious wake-up: two
  signallers for one waiter in two lists, two multiple waiters crossing each
  other, and a second wait after a first, which needs clean lists.
- `monitors_refine`: the same with one monitor.
- `sync_vars`: three threads, two values, two calls each.
- `barriers`: four threads and two phases, so that more than one waiter has to be
  woken by the chain, and a second phase follows the first.
- `channels`: the first ring of a channel without a capacity has 20 slots, ten
  elements. The lists of the instance fill it from a rotated position and force
  `ExpandChannel`, whose new capacity is 32 and whose copied part wraps.
- `channels_bounded`: two elements of capacity, lists of one and two, three threads.
- `region_locks`: two threads, two objects, three shared regions, two of them of
  equal and one of lower precedence; single and double requests, for reading and
  writing, with `LOCK` and with `TRYLOCK`, whose read locks wait. Nothing bounds the
  number of calls (1.5 million states). Two objects are
  enough for a request that is moved while another one is waited for, three
  regions for a stack of two calls and a wait.
- `thread_control`: one thread and two that control it. Nothing else is bounded: calls,
  waits, signals and spurious wake-ups come as often as they like (0.6 million
  states). Two are needed to have one function act on what another has changed.
- `heap`: a workspace of at most 22 words, four bags, six calls, positions 1 and 2 of
  weak pointer objects (0.65 million states). The margins that Gasman keeps are scaled
  down with the workspace, so that the run has partial and full collections, growth
  and shrinking, the move of all bags for more masterpointers, dead weak pointers
  and out of memory.

The theorems of section 7 have none of these bounds.

## 6. Fairness

`FairSpec` asks weak fairness for the steps of a thread that is inside a call and
not asleep: the operating system runs every runnable thread. No fairness is asked
for starting a call, for spurious wake-ups, or for the order in which a mutex goes
to its waiters. The latter is not needed because the number of calls is
finite, so that a thread cannot be overtaken for ever. In `SendLock` a thread that
holds the lock ends its MPI call; nothing obliges it to send again.

`FairControlSpec` of `ThreadControl` asks weak fairness for the steps that the kernel makes
for the thread (not for what its program does next) and for the steps of each
control function once it is called. Signals and spurious wake-ups are not forced.
`Heap` and `RegionLocks` have no liveness property and state no fairness.

## 7. Proofs

All theorems hold for every number of threads, every capacity and every bound.
The assumptions are those named in the modules: `ThreadsAssumption` and
`BoundsAssumption` of `Semaphores` (the set of threads is finite, the bounds are
natural numbers), `RingAssumption` of `ChannelRing` (an empty slot and a slot whose
object was moved out are told apart from objects), and `ChannelAssumption` of
`Channels` (finitely many threads, distinct markers, a positive even number of slots,
lists of objects), `ValuesAssumption` and `NobodyAssumption`
of `SyncVars` (no value and no thread is the null one), `RegionsAssumption` of `RegionLocks` (addresses are bounded
natural numbers, precedences integers, argument lists not empty),
`ControllersAssumption` of `ThreadControl`, `MonitorsAssumption` of `Monitors` (a
natural number of monitors, and the mark of a free mutex is no thread),
`ThreadsAssumption` of `Barriers` (finitely many threads) and `SendSemAssumption` of
`SendLock` (the semaphore starts at one), which only the two theorems on the send
lock use; `LayoutAssumption` of `Gasman` (sizes are natural numbers, a block and the
first masterpointer area are not empty, the initial workspace lies within the limit)
and `HeapBoundsAssumption` of `Heap` (sizes and positions are natural numbers).

- `WaitListProofs`: what `AddWaitList`, `RemoveWaitList` and `SignalMonitor` do to
  a list without duplicates.
- `SemaphoreProofs`: `SemaphoreTypeOK`, `SemaphoreConserves`, `SemaphoreDrift`,
  `SemaphoreNoLostWakeup`. The inductive invariant `Inv` adds to these that the
  list holds just the blocked threads. That is needed because a wake-up counts only
  if it goes to a thread that is still waiting: `WakeupsWithoutTry` is kept by
  `WaitSemaphoreReturn` since the woken thread leaves the list together with the
  token it was woken for, which is a statement on cardinalities of two sets that only
  holds if nobody outside the list is woken.
  `SendLockExcludes` and `SendLockIsSemaphore` are about `SendLock`: the counter, the
  sender inside and the woken thread add up to one token, given what `Inv` says of
  the list.
- `MonitorProofs`: `MonitorTypeOK`, `MonitorNoMissedSignal`, `MonitorWaitReturns`,
  `MonitorSignalsKept`, `MonitorImplementsSpec`, `MonitorNoLockCycle`. The inductive invariant says for
  each place in the code which monitors a thread has locked (`Held`), into which
  lists it is linked (`Linked`) and which thread locks it has (`Own`), and that the
  mutexes and the lists agree with that. None of these properties is
  inductive without it: that no signal is missed depends on the thread lock being
  held from the look at `acquiredMonitor` to the sleep. `WalkOK` adds that the threads
  `SignalMonitor` has walked past are still in the list and still signalled; they stay so
  because the list changes only in the hands of whoever has the monitor. One lemma
  (`ThreadStep`) shows that a step of one thread keeps what is said of the others, so
  that each action is left with its own thread; `SignalThread`, which writes to
  another thread, has a proof of its own. For the refinement
  there must be one monitor (`NumMonitors = 1`, as in the run): with several,
  `acquiredMonitor` of a `WaitForAnyMonitor` can be set by a monitor that the
  abstract one knows nothing of. `WalkOK` is what shows that the walk stops at the
  first thread without a signal, to which the abstract signal goes.
  `MonitorNoLockCycle` says that while a thread is in a call and not asleep, the guard
  of some thread's next step (`Ready`) holds. Whoever has a thread lock can go on
  at once, since it has the monitor already or only tries for it; so if nobody could,
  all would wait for monitors. The loops go up in address (`Sorted`), so the holder of
  the last monitor waited for would wait for a later one.
- `SyncProofs`, first part: `BarrierBookkeeping`, `BarrierHolds`, `BarrierChain`, for callers
  that keep to the phases (`ContractSpec`). That nobody passes early needs the count
  to be what is missing (so that the unsigned decrement cannot wrap round), and no
  thread to have entered a phase that is yet to start (`PhasesAgree`).
- `ChannelProofs`, first part: the ring algebra. `Place` is a wrapped addition; a handful of
  scalar lemmas (`WrapFacts`, `WrapStep`) carry the arithmetic, and the facts on
  slots follow: `AddToChannelFacts` (the element comes last),
  `RetrieveFromChannelFacts` (the first goes), `ExpandChannelFacts` (the order of all
  elements is kept, for every capacity and head), `NewCapacityFacts` (the ring grows
  and stays even; the copied part fits).
- `ChannelProofs`, second part: `ChannelRingOK`, `ChannelWaitersOK`, `ChannelNoLostWakeup` and
  `ChannelIsFifo`, that `Channels` implements `FifoChannel` under the mapping that
  takes the queue to be what `InspectChannel` returns. The inductive invariant adds two
  facts: a running `MultiReceiveChannel` still finds what it counted
  (`AmountIsThere`), and only calls that may wait are blocked (`WaitingCalls`).
- `ChannelProofs`, third part: `ChannelLimbo`. `LimboIsInTransit` counts the slots by which
  an object migrates; the proof works with the set of these places, which each ring
  operation moves but neither splits nor joins, and rests on `SendOne` moving only
  objects of the sender's own region, which are not in limbo.
- `SyncProofs`, second part: `SyncSignalOK`, `SyncReadsAgree`, `SyncWrittenOnce` and
  `SyncReaderInFlight`. The invariant adds that the mutex is held just between the two
  stores of a writer, so that a reader that has found the variable written under the
  lock finds the value later without it.
- `ThreadProofs`, first part: `RegionStacksOK`, `RegionLocksCover`, `RegionsStable`,
  `RegionsNoLockCycle`. The inductive invariant says where each entry of a lock stack
  comes from: below the saved stack pointer from earlier calls, above it from requests
  the call has dealt with, which are sorted. It is needed because `PopRegionLocks` only
  knows the stack pointer. With the precedence check it gives that precedences
  descend along a stack (`OrderInv`) and that the region a thread waits for comes,
  in precedence and then in address, after all that it has. Regions of negative precedence are
  exempt from the check in the code (`thread.c` 1134-1136) and in `NoLockCycle`. A set of threads waiting
  for each other would have among the regions they wait for one of least precedence
  and, among those, of highest address; whoever has it waits for a later one. That
  a bounded set of integers has a least member is the only induction, taken from
  `WellFoundedInduction`. `CoverInv` carries `LocksCover`: a request that has been dealt
  with stays covered since only a thread with the write lock can move its object.
- `ThreadProofs`, second part: `ThreadUndisturbed` and `ThreadKillIsFinal`. The invariant
  says what a control function has seen of the state it is about to swap (`SeenInv`),
  so that no swap starts from a killed state, and where a request can be
  (`DeliveryInv`): in the dispatch table, on its way there, or already noticed by the
  thread. `InterruptInv` is there for the one place that restores the table without
  a look at the state.
- `GasmanProofs` and `HeapProofs`: `HeapTypeOK`, `HeapBodiesTile`, `HeapMptrsAccounted`,
  `HeapRememberedSet` and `HeapObjectsIntact`, for workspaces of every size and every
  program that keeps Gasman's rules. See below.

**The memory manager.** The properties of `Heap` are far from inductive: they speak of
what is reachable, while the operators of `Gasman` touch every bag, and of a walk
that only comes out right when all of the bodies do. The inductive invariant `HeapInv` has
three parts.

1. `MemoryOK`: the workspace is sound, and every bag in it, reachable or not, holds what
   the program last stored in it. Sound (`Sound(w, W)`) is about the workspace alone, with
   the set `W` of the headers that a walk passes:

   | part | says |
   |---|---|
   | `Areas` | the order of the pointers, and that the words are numbers |
   | `Tiles` | from each header in `W` the walk leads to another or to the end; the headers that are not dummies are those of the live bags, each once |
   | `WordsOK` | a word of a list is 0 or a live bag; an entry of a weak pointer object may also be a masterpointer kept for a dead bag, and is 0 beyond the stored length |
   | `LinksOK` | the link words form one chain through the bags listed as changed, and are the bag itself elsewhere |
   | `MptrsOK` | the other masterpointers form one chain from `FreeMptrBags` or are kept for dead weak pointers |
   | `RemembersOK` | what `RememberedSet` says |
   | `ZeroOK` | the free area is zero |

   `Objects` and `HeldAt` say that the bags are the objects of the program, distinct bags
   distinct objects. That unreachable bags hold their objects too is what makes the
   statement inductive: a bag of the old generation may be unreachable and yet survive, and
   it must still be possible to mark and to move it.
2. `RequestOK`: a call that waits for a collection still has its bag, of the type and size it
   had, and in the phase `ready` there is room for what it asked for. `ResizeBag` decides
   before the collection whether its bag is the last one and acts on it afterwards; a
   partial or full collection keeps the last bag last, which is a lemma on the sweep.
3. `CountsOK`: `NrHalfDeadBags` counts the masterpointers kept for dead weak pointers, and
   when a full collection is over no weak pointer object names one of the collection before,
   so that those can be given away.

`GasmanProofs` has two kinds of lemma for every operator: which words and which fields it
leaves alone, and that a sound workspace becomes a sound one. The loops of the code are
recursive functions in the model, and induction over data is out of reach; each fact about
all rounds of a loop is proved by assuming that it fails and taking the first round that
breaks it (`WellFoundedInduction` gives the least element of a set of numbers). `ClosureLeast`,
`ClosureClosed` and their like treat the closures that stand for marking and for lists in this
way: what is closed under the step contains the closure, and after as many rounds as there
are elements (`FiniteSetTheorems`) nothing is left to add. The sweep has a loop invariant of
its own, `Sweeping`: behind the writer the survivors stand one after another with the words
they had (`Slid`, `Adjoin`), ahead of the reader nothing has changed (`Untouched`), the writer
is never ahead of the reader (`Behind`), and of the masterpointers passed just those of the
dead are on the free list (`Released`). `MarkAndSweepSound` puts mark and sweep together: the
bags that survive are those reached from the roots and from the changed old bags, and by
`RemembersOK` no young bag is reached in another way, so no survivor names a bag that was
swept.

`HeapProofs` then takes the actions one by one. What a step does to bags that the program
does not name in it is `Quiet` (nothing changed) or `Fades` (an entry of a weak pointer object
has become unbound because its object died); both keep `Objects`. `ObjectsIntact` follows
since what is reachable is alive; its last clause, that an entry may only fade when the
program has no other way to the object, from the fact that distinct bags are distinct
objects and a faded one is no bag any more.

The proofs changed the model in three places. A header was packed in decimal digits, which
cannot hold a size above 99; it now has the fields of `BagHeader`, eight bits each for type and
flags and the rest for the size. `Walk` took one round too few for a workspace filled with
dummies of one word. The closures take a function with a domain instead of an operator.
`ProceedWithoutMptr`, which leads to `crash` (section 9), is the one way for a program that
keeps the rules to make Gasman go wrong, and the invariant does not exclude its guard.

## 8. Only model-checked

Every safety property of the passing runs is stated by a theorem. Liveness
(`ServedWithoutTry`, `FreeLockIsTaken`, `SignalledReturns`, `ReadersReturn`, `AllPass`,
`ReceiversServed`, `PauseTakesEffect`) is out of the prover's reach and stays with
TLC, and so does `ENABLED`: that a thread whose guard holds (`NoLockCycle` of `Monitors`) can
take its step is what the deadlock check of run `monitors` shows. What a recursive definition
returns for every input is not proved as such; the theorems say what the invariants need of it.
The refinement of `MonitorSpec` is proved for one monitor, which is also what TLC checks.

## 9. Findings

`TryWaitSemaphore` loses wake-ups. `threadapi.c:1541` decrements `waiting`, which
it never incremented. After one such call `SignalSemaphore` can see zero with a
thread waiting, and does not signal it. `doc/hpc/semaphores.xml:28-30` promises the
waiter its token. Run `semaphores_try`; `SemaphoreDrift` proves how large the error is.

The models also show the following, for which no run is kept. Each is the reason for
a restriction in a property, and is listed among the hazards.

- On a channel with a capacity senders and receivers wait in one list, and a blocked
  sender can take the signal meant for a receiver (`threadapi.c:990`). Hence
  `ReceiversServed` is checked without a capacity.
- `MultiSendChannel` waits inside its loop and signals after it (`threadapi.c:1101`).
- `TRYLOCK` for reading waits for a writer: `RegionTryReadLock` calls
  `pthread_rwlock_rdlock` (`thread.c:693`), while `doc/hpc/lowlevel.xml:46-48` says
  that it returns fail.
- `TRYLOCK` makes no precedence check and can put a region of high precedence on top of the
  stack, after which threads can wait in a circle. Hence `NoLockCycle` is for
  programs without it.
- `LOCK` of one object does not look at its region again (`thread.c:1159`). Hence
  `LocksCover` is about the other path.
- `LockAndUpdateThreadState` compares the result of `pthread_mutex_trylock` with
  `< 0` (`thread.c:880`) and goes on when the mutex is busy; `ExecIntrStat` calls
  `HandleInterrupts(1, stat)` without having locked it (`stats.c:1057`). So the signal
  of `ResumeThread` can come before the wait and be lost, after which the thread sleeps
  though its state is running; and after a pause between statements the thread keeps its
  own mutex and blocks in its next wait on a monitor.
- `WaitThreadSignal` waits after it has handled a pause, without another look at
  `acquiredMonitor` (`threadapi.c:190`): a signal that came meanwhile is slept through, and
  a kill in this place is noticed only when another signal comes.
- A kill that arrives while `InterruptCurrentThread` restores the table stays unnoticed
  (`thread.c:963`). Hence the condition on kills in `RunningUndisturbed`.
- `CollectBags` can return with no free masterpointer (`gasman.c:2362`), when those
  in use are nearly all kept for dead weak pointers; `NewBag` then takes the head of
  an empty list. `Heap` ends in the phase `crash` there.

## 10. Not modelled

`PROJECT.json` gives a reason for each part. In short: the interpreter, the
arithmetic and the library are sequential and data driven; streams, workspaces and
the web build are I/O and scripts; vendored code is not this program's. The kernel
has more than 160 000 lines, and most of them are algebra, for which an
explicit-state model is the wrong tool; the map covers the parts with hidden state,
a small share of the whole.

Inside the modelled parts: `ReceiveAnyChannel`; `PauseAllThreads`, `ResumeAllThreads`
and control functions called on a thread that is itself inside one; public and
read-only objects and the traversal that decides what migrates; `RetypeBag`,
saving and restoring a workspace, the adjustment of `AllocSizeBags` (taken
constant), sizes near the largest word, bags whose last word is partly used, extra
roots that a conservative stack scan finds, and the debugging modes of Gasman;
copying of weak pointer objects.

## 11. Plan

Done: wait lists, monitors, semaphores, the send lock, synchronisation variables,
barriers, channels with one ring, region locks and migration, thread control, the
memory manager and weak pointers; proofs of the safety properties of all of them.

1. `RetypeBag`, restoring a workspace and copies of weak pointer objects in `Heap`, with
   their lemmas in `GasmanProofs`.
2. `ReceiveAnyChannel`: several channels on `ChannelRing`, the choice of the channel,
   the unlocking of the others, the retry; hazard at line 1189.
3. `ThreadTable`: creation, dispatch and join, the free list, the keep-alive list.
4. `AtomicObjects`: growth of atomic records against concurrent reads and writes.
5. `Tasks`: worker pool of `stdtasks.g` on channels and semaphores.
