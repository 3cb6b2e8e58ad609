---------------------------- MODULE RegionLocks ----------------------------
(***************************************************************************)
(* Regions of HPC-GAP and their locks (thread.c, threadapi.c).  An object  *)
(* belongs to a thread's own region or to a shared one, which a thread     *)
(* locks for reading or writing before it uses the object.  LOCK, TRYLOCK  *)
(* and the atomic statement take several locks at once and push them onto  *)
(* the thread's lock stack; UNLOCK pops them.  A thread with a write lock  *)
(* may migrate objects to another region.                                  *)
(*                                                                         *)
(* A region lock is a pthread_rwlock_t that admits a reader whenever no    *)
(* thread writes.  Public objects, which need no lock, are left out.       *)
(***************************************************************************)
EXTENDS Integers, Sequences, FiniteSets

CONSTANTS
    Threads,        \* a thread is also the name of its own region
    Objects,
    Regions,        \* shared regions: their addresses
    MaxAddress,     \* the largest address
    Prec,           \* Prec[r]: the precedence of region r
    LockArgs,       \* argument lists of LOCK: sequences of objects with a mode
    TryLockArgs,    \* argument lists of TRYLOCK
    Nobody

ASSUME RegionsAssumption ==
    /\ MaxAddress \in Nat /\ Regions \subseteq 0 .. MaxAddress /\ Prec \in [Regions -> Int]
    /\ Regions \cap Threads = {} /\ Nobody \notin Threads
    /\ LockArgs \cup TryLockArgs \subseteq Seq([obj : Objects, mode : {"ro", "rw"}]) \ {<<>>}

VARIABLES
    owner,          \* owner[r]: the thread that has the write lock of r
    readers,        \* readers[r]: the threads that have a read lock of r
    lockStack,      \* lockStack[t]: the regions t has locked, in this order
    regionOf,       \* regionOf[o]: the region of object o
    created,        \* the shared regions that exist
    pc,             \* where thread t is in a call of LockObjects
    call,           \* its arguments and local variables
    tried           \* has TRYLOCK been called?

vars == <<owner, readers, lockStack, regionOf, created, pc, call, tried>>
locks == <<owner, readers, lockStack>>

(* fn: the function; args: arguments not yet read; order: the requests;    *)
(* i: the next one; sp: the stack pointer before the call.                 *)
Idle == [fn |-> "none", args |-> <<>>, order |-> <<>>, i |-> 1, sp |-> 0]

Init ==
    /\ owner = [r \in Regions |-> Nobody]
    /\ readers = [r \in Regions |-> {}]
    /\ lockStack = [t \in Threads |-> <<>>]
    /\ regionOf \in [Objects -> Threads]
    /\ created = {}
    /\ pc = [t \in Threads |-> "ready"]
    /\ call = [t \in Threads |-> Idle]
    /\ tried = FALSE

-----------------------------------------------------------------------------
(* Locks and the lock stack.                                               *)

IsLocked(t, r) ==
    IF r \in Threads THEN (IF r = t THEN "rw" ELSE "no")
    ELSE IF owner[r] = t THEN "rw"
    ELSE IF t \in readers[r] THEN "ro" ELSE "no"

Held(t) == {r \in Regions : IsLocked(t, r) # "no"}
Entries(s, from) == {s[k] : k \in from .. Len(s)}

(* Can t have the lock of r now?  pthread_rwlock_wrlock and rdlock.        *)
Free(r, mode) == owner[r] = Nobody /\ (mode = "rw" => readers[r] = {})

TakeLock(t, r, mode) ==
    /\ owner' = IF mode = "rw" THEN [owner EXCEPT ![r] = t] ELSE owner
    /\ readers' = IF mode = "rw" THEN readers ELSE [readers EXCEPT ![r] = @ \cup {t}]
    /\ lockStack' = [lockStack EXCEPT ![t] = Append(@, r)]

(* Mutant: only the topmost region is unlocked.                            *)
PopRegionLocksTop(t, sp) ==
    LET r == lockStack[t][Len(lockStack[t])]
    IN  /\ owner' = IF sp < Len(lockStack[t]) /\ owner[r] = t THEN [owner EXCEPT ![r] = Nobody] ELSE owner
        /\ readers' = IF sp < Len(lockStack[t]) THEN [readers EXCEPT ![r] = @ \ {t}] ELSE readers
        /\ lockStack' = [lockStack EXCEPT ![t] = SubSeq(@, 1, sp)]

PopRegionLocks(t, sp) ==
    LET popped == Entries(lockStack[t], sp + 1)
    IN  /\ owner' = [r \in Regions |-> IF r \in popped /\ owner[r] = t THEN Nobody ELSE owner[r]]
        /\ readers' = [r \in Regions |-> IF r \in popped THEN readers[r] \ {t} ELSE readers[r]]
        /\ lockStack' = [lockStack EXCEPT ![t] = SubSeq(@, 1, sp)]

(* The precedence of the topmost region whose precedence counts.           *)
Ranked(s) == {k \in 1 .. Len(s) : Prec[s[k]] >= 0}
CurrentRegionPrecedence(s) ==
    IF Ranked(s) = {} THEN -1
    ELSE Prec[s[CHOOSE k \in Ranked(s) : \A j \in Ranked(s) : j <= k]]

(* LessThanLockRequest.  The regions of threads have precedence 0; their   *)
(* addresses are taken to be low.                                          *)
PrecOf(r) == IF r \in Threads THEN 0 ELSE Prec[r]
Address(r) == IF r \in Threads THEN -1 ELSE r
LessThanLockRequest(a, b) ==
    IF a.region = b.region THEN a.mode = "rw" /\ b.mode = "ro"
    ELSE \/ PrecOf(a.region) > PrecOf(b.region)
         \/ PrecOf(a.region) = PrecOf(b.region) /\ Address(a.region) < Address(b.region)

IsSorted(s) == \A j, k \in 1 .. Len(s) : j < k => ~LessThanLockRequest(s[k], s[j])

Rearranged(s) ==
    {[k \in 1 .. Len(s) |-> s[p[k]]] :
        p \in {q \in [1 .. Len(s) -> 1 .. Len(s)] : \A j, k \in 1 .. Len(s) : q[j] = q[k] => j = k}}

-----------------------------------------------------------------------------
(* LOCK, TRYLOCK and atomic.  The regions of the arguments are read one by *)
(* one, the requests sorted, the locks taken one by one.                   *)

Begin(t, fn, args) ==
    /\ pc[t] = "ready"
    /\ pc' = [pc EXCEPT ![t] = "read"]
    /\ call' = [call EXCEPT ![t] = [fn |-> fn, args |-> args, order |-> <<>>, i |-> 1,
                                    sp |-> Len(lockStack[t])]]
    /\ tried' = (tried \/ fn = "try")
    /\ UNCHANGED <<locks, regionOf, created>>

(* The region of the next argument is read; the requests are sorted after  *)
(* the last one.                                                           *)
ReadRegion(t) ==
    LET c == call[t]
        a == Head(c.args)
        order == Append(c.order, [obj |-> a.obj, region |-> regionOf[a.obj], mode |-> a.mode])
        last == Len(c.args) = 1
    IN  /\ pc[t] = "read"
        /\ \E s \in IF last THEN {s \in Rearranged(order) : IsSorted(s)} ELSE {order} :
              call' = [call EXCEPT ![t].order = s, ![t].args = Tail(@)]
        /\ pc' = [pc EXCEPT ![t] = IF last THEN "lock" ELSE "read"]
        /\ UNCHANGED <<locks, regionOf, created, tried>>

(* What the loop finds at the current request.                             *)
Current(t) == call[t].order[call[t].i]
InLoop(t) == pc[t] = "lock" /\ call[t].i <= Len(call[t].order)
Duplicate(t) == call[t].i > 1 /\ Current(t).region = call[t].order[call[t].i - 1].region
Status(t) == IsLocked(t, Current(t).region)
FastPath(t) == call[t].fn = "lock" /\ Len(call[t].order) = 1
IsUpgrade(t) == Status(t) = "ro" /\ Current(t).mode = "rw"

(* Mutant: regions of one precedence may be locked by separate calls.      *)
OutOfOrderStrict(t, r) ==
    LET prec == CurrentRegionPrecedence(SubSeq(lockStack[t], 1, call[t].sp))
    IN  prec >= 0 /\ Prec[r] > prec

(* LOCK compares the precedence with that of the stack before the call;    *)
(* TRYLOCK does not look at it, and refuses the thread's own region.       *)
OutOfOrder(t, r) ==
    LET prec == CurrentRegionPrecedence(SubSeq(lockStack[t], 1, call[t].sp))
    IN  prec >= 0 /\ Prec[r] >= 0 /\ Prec[r] >= prec

Refused(t) ==
    LET r == Current(t).region
    IN  \/ IsUpgrade(t)
        \/ r \in Threads /\ (Status(t) = "no" \/ call[t].fn = "try")
        \/ r \in Regions /\ Status(t) = "no" /\ call[t].fn = "lock" /\ OutOfOrder(t, r)

Open(t) == InLoop(t) /\ ~Duplicate(t) /\ ~Refused(t)
Wants(t) == Open(t) /\ Status(t) = "no"

(* RegionWriteLock, RegionReadLock, RegionTryWriteLock, RegionTryReadLock: *)
(* the last one waits, like the first two.                                 *)
Granted(t) == Open(t) /\ (Status(t) = "no" => Free(Current(t).region, Current(t).mode))

(* Mutant: nobody looks again.                                             *)
MovedUnnoticed(t) == FALSE

(* The object may have been migrated since its region was read: the loop   *)
(* looks again once the region is locked, when nobody else can move an     *)
(* object into it.  The fast path does not look.                           *)
Moved(t) == ~FastPath(t) /\ regionOf[Current(t).obj] # Current(t).region

NextRequest(t) == call' = [call EXCEPT ![t].i = @ + 1]
Return(t) == pc' = [pc EXCEPT ![t] = "ready"] /\ call' = [call EXCEPT ![t] = Idle]

SkipDuplicate(t) ==
    /\ InLoop(t) /\ Duplicate(t)
    /\ NextRequest(t)
    /\ UNCHANGED <<locks, regionOf, created, pc, tried>>

AlreadyLocked(t) ==
    /\ Open(t) /\ Status(t) # "no" /\ ~Moved(t)
    /\ NextRequest(t)
    /\ UNCHANGED <<locks, regionOf, created, pc, tried>>

Lock(t) ==
    /\ Granted(t) /\ Status(t) = "no" /\ ~Moved(t)
    /\ TakeLock(t, Current(t).region, Current(t).mode)
    /\ NextRequest(t)
    /\ UNCHANGED <<regionOf, created, pc, tried>>

FailCall(t) ==
    /\ PopRegionLocks(t, call[t].sp)
    /\ Return(t)
    /\ UNCHANGED <<regionOf, created, tried>>

Refuse(t) == InLoop(t) /\ ~Duplicate(t) /\ Refused(t) /\ FailCall(t)

RaceCondition(t) == Granted(t) /\ Moved(t) /\ FailCall(t)

TryWriteFails(t) ==
    /\ Wants(t) /\ call[t].fn = "try" /\ Current(t).mode = "rw"
    /\ ~Granted(t)
    /\ FailCall(t)

Done(t) == pc[t] = "lock" /\ call[t].i > Len(call[t].order)
Succeed(t) == Done(t) /\ Return(t) /\ UNCHANGED <<locks, regionOf, created, tried>>

-----------------------------------------------------------------------------
(* UNLOCK, and the end of an atomic statement.                             *)
Unlock(t, sp) ==
    /\ pc[t] = "ready"
    /\ sp < Len(lockStack[t])
    /\ PopRegionLocks(t, sp)
    /\ UNCHANGED <<regionOf, created, pc, call, tried>>

(* Mutant: a read lock of the target is enough.                            *)
MigrateToReadLocked(t, o, r) ==
    /\ pc[t] = "ready"
    /\ regionOf[o] # r
    /\ IsLocked(t, regionOf[o]) = "rw" /\ IsLocked(t, r) # "no"
    /\ regionOf' = [regionOf EXCEPT ![o] = r]
    /\ UNCHANGED <<locks, created, pc, call, tried>>

(* MigrateObjects, of one object: those of several are one after another.  *)
Migrate(t, o, r) ==
    /\ pc[t] = "ready"
    /\ regionOf[o] # r
    /\ IsLocked(t, regionOf[o]) = "rw" /\ IsLocked(t, r) = "rw"
    /\ regionOf' = [regionOf EXCEPT ![o] = r]
    /\ UNCHANGED <<locks, created, pc, call, tried>>

(* SHARE: to a new region, which is not locked.                            *)
Share(t, o, r) ==
    /\ pc[t] = "ready"
    /\ IsLocked(t, regionOf[o]) = "rw" /\ r \notin created
    /\ created' = created \cup {r}
    /\ regionOf' = [regionOf EXCEPT ![o] = r]
    /\ UNCHANGED <<locks, pc, call, tried>>

Step(t) ==
    \/ ReadRegion(t) \/ SkipDuplicate(t) \/ AlreadyLocked(t) \/ Lock(t)
    \/ Refuse(t) \/ RaceCondition(t) \/ TryWriteFails(t) \/ Succeed(t)

Next ==
    \E t \in Threads :
        \/ \E args \in LockArgs : Begin(t, "lock", args)
        \/ \E args \in TryLockArgs : Begin(t, "try", args)
        \/ Step(t)
        \/ \E sp \in 0 .. Cardinality(Regions) : Unlock(t, sp)
        \/ \E o \in Objects, r \in Regions : Share(t, o, r)
        \/ \E o \in Objects, r \in Regions \cup {t} : Migrate(t, o, r)

Spec == Init /\ [][Next]_vars

-----------------------------------------------------------------------------
Labels == {"ready", "read", "lock"}

(* The lock stack of a thread lists exactly the regions it has locked,     *)
(* each once; a writer is alone.  So every lock is released by the UNLOCK  *)
(* of its stack position and by no other, also when a call fails in the    *)
(* middle and PopRegionLocks takes back what it had.                       *)
StacksOK ==
    /\ pc \in [Threads -> Labels]
    /\ \A t \in Threads :
          /\ Entries(lockStack[t], 1) = Held(t)
          /\ \A j, k \in 1 .. Len(lockStack[t]) : lockStack[t][j] = lockStack[t][k] => j = k
    /\ \A r \in Regions : owner[r] # Nobody => readers[r] = {}

(* A thread waits for the lock of a region that another one has.           *)
Waits(t) == Wants(t) /\ ~Granted(t)

(* Threads that wait for each other in a circle.                           *)
Circle(S) ==
    /\ S # {}
    /\ \A t \in S : Waits(t) /\ \E u \in S : Current(t).region \in Held(u)

(* "Regions can generally only be locked in order of descending            *)
(* precedence.  The purpose of this mechanism is to avoid accidental       *)
(* deadlocks": unless TRYLOCK has been called, or the precedence of a      *)
(* region that is waited for does not count, no threads wait in a circle,  *)
(* also when they lock several regions of one precedence at once, in any   *)
(* order of the arguments.                                                 *)
NoLockCycle ==
    tried \/ \A S \in SUBSET Threads : Circle(S) => \E t \in S : Prec[Current(t).region] < 0

(* When LOCK or TRYLOCK of several objects succeeds, the first object of   *)
(* each region is still in that region, and the region is locked in the    *)
(* mode asked for: nobody has migrated it between the look at its region,  *)
(* the wait for the lock, the second look and the end of the loop.         *)
LocksCover ==
    \A t \in Threads : Done(t) /\ ~FastPath(t) =>
        \A k \in 1 .. Len(call[t].order) :
            LET a == call[t].order[k]
            IN  \/ k > 1 /\ a.region = call[t].order[k - 1].region
                \/ /\ regionOf[a.obj] = a.region
                   /\ IsLocked(t, a.region) \in {"rw", a.mode}

(* Members of a region change only while no other thread has locked it.    *)
Members(r, of) == {o \in Objects : of[o] = r}
LockedRegionsStable ==
    [][\A r \in Regions : Members(r, regionOf) # Members(r, regionOf') =>
          readers[r] = {} /\ (r \in created => owner[r] # Nobody)]_vars
=============================================================================
