------------------------------- MODULE Heap -------------------------------
(***************************************************************************)
(* A program that works on bags through Gasman and keeps Gasman's rules:   *)
(* it holds identifiers in variables the collector scans (root), and calls *)
(* CHANGED_BAG after each assignment of an identifier into a bag.  It is   *)
(* any sequence of NewBag, ResizeBag, SwapMasterPoint, assignments, weak   *)
(* pointer operations and calls of the collector.                          *)
(*                                                                         *)
(* Beside the workspace the module keeps the objects as the program knows  *)
(* them, under a number that no other object ever gets: object[n] is what  *)
(* was last stored in object n, number[b] the object that identifier b was *)
(* last given to.  A collection changes neither.                           *)
(***************************************************************************)
EXTENDS Gasman, Sequences

CONSTANTS
    Roots,          \* global variables and stack slots
    NewSizes,       \* sizes of new lists
    Sizes,          \* sizes to which lists are resized
    Places,         \* positions used in lists
    Positions,      \* positions used in weak pointer objects
    MaxObjects,     \* bound: bags allocated
    MaxCalls        \* bound: operations

ASSUME HeapBoundsAssumption ==
    /\ NewSizes \cup Sizes \subseteq Nat /\ Places \cup Positions \subseteq Nat \ {0}
    /\ MaxObjects \in Nat /\ MaxCalls \in Nat

VARIABLES
    ws,             \* the workspace and Gasman's pointers into it
    root,           \* root[r]: the identifier in variable r, 0 for none
    phase,          \* what Gasman is doing, see Phases
    request,        \* the call that waits for a collection
    object,         \* the objects as the program knows them
    number,         \* number[b]: the object with identifier b
    rootObject,     \* rootObject[r]: the object in variable r, 0 for none
    calls           \* calls so far

vars == <<ws, root, phase, request, object, number, rootObject, calls>>
program == <<root, object, number, rootObject>>

(* "run": the program runs; "partial", "full" and "check": the parts of    *)
(* CollectBags; "ready": the collection has made room; "panic": out of     *)
(* memory; "crash": a masterpointer was taken from an empty list.          *)
Phases == {"run", "partial", "full", "check", "ready", "panic", "crash"}

(* A call that may need a collection: what is done once there is room, and *)
(* the size that CollectBags is asked for.                                 *)
Request(op, r, s, pos, size, need, last) ==
    [op |-> op, r |-> r, s |-> s, pos |-> pos, size |-> size, need |-> need, last |-> last]
NoRequest == "none"

Held == {root[r] : r \in Roots} \ {0}

Init ==
    /\ ws = NewWorkspace
    /\ root = [r \in Roots |-> 0]
    /\ phase = "run"
    /\ request = NoRequest
    /\ object = <<>>
    /\ number = [b \in 1 .. Limit |-> 0]
    /\ rootObject = [r \in Roots |-> 0]
    /\ calls = 0

Call == phase = "run" /\ calls < MaxCalls /\ calls' = calls + 1
NoCollection == UNCHANGED <<phase, request>>

IsList(r) == root[r] # 0 /\ TNUM_BAG(ws, root[r]) = T_LIST
IsWPObj(r) == root[r] # 0 /\ TNUM_BAG(ws, root[r]) = T_WPOBJ
NumberOf(b) == IF b = 0 THEN 0 ELSE number[b]
SetRoot(r, b, n) == root' = [root EXCEPT ![r] = b] /\ rootObject' = [rootObject EXCEPT ![r] = n]
Resized(slots, n) == [i \in 1 .. n |-> IF i <= Len(slots) THEN slots[i] ELSE 0]

-----------------------------------------------------------------------------
(* The steps of CollectBags.                                               *)

PartialCollection ==
    /\ phase = "partial"
    /\ ws' = MarkAndSweep(ws, Held)
    /\ phase' = IF EnoughAfterPartial(ws', request.need) THEN "ready" ELSE "full"
    /\ UNCHANGED <<program, request, calls>>

FullCollection ==
    /\ phase = "full"
    /\ ws' = MarkAndSweep(MakeAllYoung(ws), Held)
    /\ phase' = "check"
    /\ UNCHANGED <<program, request, calls>>

(* A call of the collector by the program ignores its failure; any other   *)
(* ends in ReportOutOfMemory.                                              *)
CheckAfterFull ==
    LET c == CollectBags_CheckFull(ws, request.need)
    IN  /\ phase = "check"
        /\ ws' = c.w
        /\ phase' = IF c.done = "yes" \/ request.op = "Collect" THEN "ready" ELSE "panic"
        /\ UNCHANGED <<program, request, calls>>

-----------------------------------------------------------------------------
(* What the calls do once there is room.  NewBag takes the first of the    *)
(* free masterpointers without looking.                                    *)

DoNewBag(q, type, slots, Fill(_, _)) ==
    LET b == ws.freeMptr
        n == Len(object) + 1
    IN  /\ b # 0
        /\ ws' = Fill(NewBag(ws, type, q.size), b)
        /\ object' = Append(object, [type |-> type, slots |-> slots])
        /\ number' = [number EXCEPT ![b] = n]
        /\ SetRoot(q.r, b, n)

DoNewList(q) == q.op = "NewList" /\ DoNewBag(q, T_LIST, [i \in 1 .. q.size |-> 0], LAMBDA w, b : w)

DoWeakPointerObj(q) ==
    /\ q.op = "WeakPointerObj"
    /\ DoNewBag(q, T_WPOBJ, <<rootObject[q.s]>>,
                LAMBDA w, b : CHANGED_BAG(SET_ELM_WPOBJ(STORE_LEN_WPOBJ(w, b, 1), b, 1, root[q.s]), b))

DoResizeList(q) ==
    /\ q.op = "ResizeList"
    /\ ws' = ResizeBag(ws, root[q.r], q.size, q.last)
    /\ object' = [object EXCEPT ![rootObject[q.r]].slots = Resized(@, q.size)]
    /\ UNCHANGED <<root, number, rootObject>>

(* The rest of FuncSetElmWPObj, on the workspace w left by LengthWPObj.    *)
DoSetElmWPObj(q, w) ==
    LET b == root[q.r]
        sized == ResizeBag(w, b, q.size, q.last)
        len == Max({STORED_LEN_WPOBJ(w, b), q.pos})
    IN  /\ q.op = "SetElmWPObj"
        /\ ws' = CHANGED_BAG(SET_ELM_WPOBJ(STORE_LEN_WPOBJ(sized, b, len), b, q.pos, root[q.s]), b)
        /\ object' = [object EXCEPT ![rootObject[q.r]].slots =
                         [Resized(@, Max({q.pos, Len(@)})) EXCEPT ![q.pos] = rootObject[q.s]]]
        /\ UNCHANGED <<root, number, rootObject>>

Do(q) == DoNewList(q) \/ DoWeakPointerObj(q) \/ DoResizeList(q) \/ DoSetElmWPObj(q, ws)

(* The call goes on after the collection.                                  *)
Proceed ==
    /\ phase = "ready" /\ request.op # "Collect"
    /\ Do(request)
    /\ phase' = "run" /\ request' = NoRequest
    /\ UNCHANGED calls

ProceedWithoutMptr ==
    /\ phase = "ready" /\ request.op \in {"NewList", "WeakPointerObj"} /\ ws.freeMptr = 0
    /\ phase' = "crash"
    /\ UNCHANGED <<ws, program, request, calls>>

CollectEnd ==
    /\ phase = "ready" /\ request.op = "Collect"
    /\ phase' = "run" /\ request' = NoRequest
    /\ UNCHANGED <<ws, program, calls>>

(* The call is carried out at once, or first calls CollectBags.            *)
Begin(q, collects) ==
    \/ ~collects /\ Do(q) /\ NoCollection
    \/ collects /\ phase' = "partial" /\ request' = q /\ UNCHANGED <<ws, program>>

-----------------------------------------------------------------------------
(* The calls of the program.                                               *)

NewList(r, size) ==
    /\ Call /\ Len(object) < MaxObjects
    /\ Begin(Request("NewList", r, r, 0, size, size, FALSE), NewBagCollects(ws, size))

(* WeakPointerObj of a list of one element, which another variable holds.  *)
WeakPointerObj(r, s) ==
    /\ Call /\ Len(object) < MaxObjects
    /\ r # s /\ root[s] # 0
    /\ Begin(Request("WeakPointerObj", r, s, 0, 2, 2, FALSE), NewBagCollects(ws, 2))

ResizeList(r, size) ==
    LET b == root[r]
    IN  /\ Call
        /\ IsList(r) /\ size # SIZE_BAG(ws, b)
        /\ Begin(Request("ResizeList", r, r, 0, size, ResizeBagNeeds(ws, b, size), IsLastBag(ws, b)),
                 ResizeBagCollects(ws, b, size))

(* FuncSetElmWPObj: LengthWPObj, then GROW_WPOBJ if the position is beyond *)
(* the length.                                                             *)
SetElmWPObj(r, pos, s) ==
    LET b == root[r]
        size == GrownSize(ws, b, pos)
        q == Request("SetElmWPObj", r, s, pos, size, ResizeBagNeeds(ws, b, size), IsLastBag(ws, b))
    IN  /\ Call
        /\ IsWPObj(r)
        /\ \/ ~ResizeBagCollects(ws, b, size) /\ NoCollection /\ DoSetElmWPObj(q, TrimWPObj(ws, b))
           \/ /\ ResizeBagCollects(ws, b, size)
              /\ ws' = TrimWPObj(ws, b)
              /\ phase' = "partial" /\ request' = q
              /\ UNCHANGED program

(* The program forgets an identifier.                                      *)
Forget(r) ==
    /\ Call
    /\ root[r] # 0
    /\ SetRoot(r, 0, 0)
    /\ NoCollection /\ UNCHANGED <<ws, object, number>>

(* An identifier is stored in a list.                                      *)
SetElmList(r, pos, s) ==
    LET b == root[r]
        w == [ws EXCEPT !.mem[ws.mem[b] + pos - 1] = root[s]]
    IN  /\ Call
        /\ IsList(r) /\ pos <= SIZE_BAG(ws, b)
        /\ ws' = CHANGED_BAG(w, b)
        /\ object' = [object EXCEPT ![rootObject[r]].slots[pos] = rootObject[s]]
        /\ NoCollection /\ UNCHANGED <<root, number, rootObject>>

ElmList(r, pos, s) ==
    LET b == root[r]
    IN  /\ Call
        /\ IsList(r) /\ pos <= SIZE_BAG(ws, b)
        /\ SetRoot(s, ws.mem[PTR_BAG(ws, b) + pos - 1], object[rootObject[r]].slots[pos])
        /\ NoCollection /\ UNCHANGED <<ws, object, number>>

(* FuncSWITCH_OBJ: the two objects change places.                          *)
SwitchObj(r, s) ==
    LET m == rootObject[r]
        n == rootObject[s]
    IN  /\ Call
        /\ root[r] # 0 /\ root[s] # 0 /\ root[r] # root[s]
        /\ ws' = SwapMasterPoint(ws, root[r], root[s])
        /\ object' = [object EXCEPT ![m] = object[n], ![n] = object[m]]
        /\ NoCollection /\ UNCHANGED <<root, number, rootObject>>

(* FuncElmWPObj: a dead entry reads as unbound and is cleared.             *)
ElmWPObj(r, pos, s) ==
    LET b == root[r]
        elm == ELM_WPOBJ(ws, b, pos)
    IN  /\ Call
        /\ IsWPObj(r) /\ pos <= STORED_LEN_WPOBJ(ws, b)
        /\ ws' = SET_ELM_WPOBJ(ws, b, pos, elm)
        /\ SetRoot(s, elm, NumberOf(elm))
        /\ NoCollection /\ UNCHANGED <<object, number>>

(* FuncIsBoundElmWPObj; at a position beyond the length the step is that   *)
(* of FuncLengthWPObj.                                                     *)
IsBoundElmWPObj(r, pos) ==
    LET b == root[r]
        trimmed == TrimWPObj(ws, b)
    IN  /\ Call
        /\ IsWPObj(r)
        /\ ws' = IF pos <= LengthWPObj(ws, b)
                 THEN SET_ELM_WPOBJ(trimmed, b, pos, ELM_WPOBJ(ws, b, pos)) ELSE trimmed
        /\ NoCollection /\ UNCHANGED program

(* FuncUnbindElmWPObj                                                      *)
UnbindElmWPObj(r, pos) ==
    LET b == root[r]
        trimmed == TrimWPObj(ws, b)
    IN  /\ Call
        /\ IsWPObj(r)
        /\ ws' = IF pos <= LengthWPObj(ws, b) THEN SET_ELM_WPOBJ(trimmed, b, pos, 0) ELSE trimmed
        /\ object' = IF pos <= Len(object[rootObject[r]].slots)
                     THEN [object EXCEPT ![rootObject[r]].slots[pos] = 0] ELSE object
        /\ NoCollection /\ UNCHANGED <<root, number, rootObject>>

(* FuncCollectBags, called by the program.                                 *)
Collect(full) ==
    /\ Call
    /\ phase' = IF full THEN "full" ELSE "partial"
    /\ request' = [op |-> "Collect", need |-> 0]
    /\ UNCHANGED <<ws, program>>

Next ==
    \/ \E r \in Roots, n \in NewSizes : NewList(r, n)
    \/ \E r \in Roots, n \in Sizes : ResizeList(r, n)
    \/ \E r \in Roots, s \in Roots : WeakPointerObj(r, s) \/ SwitchObj(r, s)
    \/ \E r \in Roots : Forget(r)
    \/ \E r \in Roots, s \in Roots, pos \in Places : SetElmList(r, pos, s) \/ ElmList(r, pos, s)
    \/ \E r \in Roots, s \in Roots, pos \in Positions : SetElmWPObj(r, pos, s) \/ ElmWPObj(r, pos, s)
    \/ \E r \in Roots, pos \in Positions : UnbindElmWPObj(r, pos) \/ IsBoundElmWPObj(r, pos)
    \/ \E full \in BOOLEAN : Collect(full)
    \/ PartialCollection \/ FullCollection \/ CheckAfterFull
    \/ Proceed \/ ProceedWithoutMptr \/ CollectEnd

Spec == Init /\ [][Next]_vars
-----------------------------------------------------------------------------
Ids == 1 .. ws.mptrEnd - 1
Live == LiveBags(ws)

(* What the program can still reach: the bags in its variables, and from a *)
(* list the bags in it.                                                    *)
Reachable ==
    Closure(Held, [b \in Live |-> StrongSubBags(ws, b) \ {0}], SizeMptrsArea(ws))

SameList(b, o) ==
    /\ SIZE_BAG(ws, b) = Len(o.slots)
    /\ \A i \in 1 .. Len(o.slots) : NumberOf(ws.mem[PTR_BAG(ws, b) + i - 1]) = o.slots[i]

(* An entry of a weak pointer object is the object stored there; or it has *)
(* been cleared, and then the program has no other way to that object.     *)
SameWPObj(b, o) ==
    \A i \in 1 .. Len(o.slots) :
        LET elm == IF i < SIZE_BAG(ws, b) THEN ELM_WPOBJ(ws, b, i) ELSE 0
        IN  IF elm = 0 THEN o.slots[i] = 0 \/ \A c \in Reachable : number[c] # o.slots[i]
            ELSE elm \in Live /\ number[elm] = o.slots[i]

(* Allocation, collection, compaction, resizing, exchange of bags and the  *)
(* growth of the workspace are invisible to the program: every bag it can  *)
(* reach still has a body, of the type and with the content last stored in *)
(* it; no identifier it holds was given to another bag; and a weak pointer *)
(* never names a bag that was given the identifier of a dead one.          *)
ObjectsIntact ==
    /\ \A r \in Roots : NumberOf(root[r]) = rootObject[r]
    /\ \A b \in Reachable :
          /\ b \in Live /\ number[b] # 0
          /\ TNUM_BAG(ws, b) = object[number[b]].type
          /\ IF TNUM_BAG(ws, b) = T_WPOBJ THEN SameWPObj(b, object[number[b]])
             ELSE SameList(b, object[number[b]])

(* The order of the areas of the workspace that SanityCheckGasmanPointers  *)
(* asserts, and its borders.                                               *)
TypeOK ==
    /\ 1 <= ws.mptrEnd /\ ws.mptrEnd <= ws.oldBags /\ ws.oldBags <= ws.youngBags
    /\ ws.youngBags <= ws.allocBags /\ ws.allocBags <= ws.endBags /\ ws.endBags <= Limit + 1
    /\ ws.mem \in [1 .. Limit -> Int]
    /\ root \in [Roots -> {0} \cup Ids]
    /\ phase \in Phases

(* The headers that a walk from the old bags passes, as the sweeper makes  *)
(* it; dummies count as bodies of their own.                               *)
Stride(h) ==
    IF TypeIn(h) # T_DUMMY THEN HeaderWords + SizeIn(h)
    ELSE IF FlagsIn(h) = 1 THEN 1 ELSE 1 + SizeIn(h)
Walk == Closure({ws.oldBags},
                [a \in ws.oldBags .. ws.allocBags - 1 |-> {a + Stride(ws.mem[a])}],
                ws.allocBags - ws.oldBags + 1)

(* The bags area can be walked: sizes and dummies left by ResizeBag lead   *)
(* from body to body, over the border between old and young bags and just  *)
(* to the allocation area, and the bodies passed are those of the live     *)
(* masterpointers.  The free area is zero, so that new bags are.           *)
BodiesTile ==
    /\ {ws.youngBags, ws.allocBags} \subseteq Walk
    /\ \A a \in Walk : a <= ws.allocBags
    /\ {ws.mem[b] - HeaderWords : b \in Live} = {a \in Walk : a < ws.allocBags /\ TypeIn(ws.mem[a]) # T_DUMMY}
    /\ \A b, c \in Live : ws.mem[b] = ws.mem[c] => b = c
    /\ \A a \in ws.allocBags .. ws.endBags - 1 : ws.mem[a] = 0

(* Every masterpointer is that of a bag, on the list of free ones or kept  *)
(* for a dead weak pointer; the list of changed bags holds live bags, and  *)
(* the link word of every other bag is the bag itself.                     *)
MptrsAccounted ==
    LET free == {b \in Ids : ws.mem[b] \in {0} \cup Ids}
        listed == IF ws.freeMptr = 0 THEN {}
                  ELSE Closure({ws.freeMptr}, [b \in Ids |-> {ws.mem[b]} \cap Ids], SizeMptrsArea(ws))
    IN  /\ listed = free
        /\ \A b, c \in free : ws.mem[b] = ws.mem[c] => b = c
        /\ \A b \in Ids \ free : b \in Live \/ ws.mem[b] = ws.newMarker \/ phase = "check"
        /\ ws.nrHalfDead = Cardinality({b \in Ids : ws.mem[b] \in Markers})
        /\ ChangedBags(ws) \subseteq Live
        /\ {b \in Live : LINK_BAG(ws, b) # b} = ChangedBags(ws)

(* The generational invariant: an old bag that is not on the list of       *)
(* changed bags refers to no young bag, except to one that is on the list  *)
(* itself, because it was old and ResizeBag or SwapMasterPoint moved it.   *)
RememberedSet ==
    \A b \in Live \ ChangedBags(ws) :
        IsOld(ws, b) => \A x \in (StrongSubBags(ws, b) \cup WeakSubBags(ws, b)) \cap Live :
                            IsOld(ws, x) \/ x \in ChangedBags(ws)
=============================================================================
