------------------------------ MODULE Gasman ------------------------------
(***************************************************************************)
(* Gasman, the storage manager of GAP: a compacting, generational          *)
(* collector of bags, with weak pointer objects on top of it.  The         *)
(* workspace is modelled word by word, in the layout of a 64-bit build: a  *)
(* masterpointer is one word, the header of a bag is two (type, flags and  *)
(* size; link).  An identifier is the address of its masterpointer.  Sizes *)
(* are in words: bags whose last word is only partly used are left out.    *)
(***************************************************************************)
EXTENDS Integers, FiniteSets, FiniteSetsExt

CONSTANTS
    Limit,          \* words the system grants at most: SyStorKill, or the pool
    InitMptrs,      \* masterpointers of the first workspace
    Gap,            \* unused words between masterpointers and bags, 10 in the code
    InitEnd,        \* first value of EndBags, and the least one (SyStorMin)
    Block,          \* words by which the workspace grows and shrinks, 512 KByte in the code
    PartialSpare,   \* WORDS_BAG(1024 * AllocSizeBags): free words wanted after a partial gc
    FullSpare,      \* WORDS_BAG(AllocSizeBags): free words wanted after a full gc
    Share           \* one masterpointer per Share free words, 7 in the code

ASSUME LayoutAssumption ==
    /\ {Limit, InitMptrs, Gap, InitEnd, Block, PartialSpare, FullSpare, Share} \subseteq Nat
    /\ Block > 0 /\ Share > 0 /\ InitMptrs > 0
    /\ InitMptrs + Gap < InitEnd /\ InitEnd <= Limit + 1

-----------------------------------------------------------------------------
(* Words.  The types of bags told apart are those with their own marking   *)
(* function: lists of references, weak pointer objects, and the remainders *)
(* of a resize.  Immediate integers and the markers of dead weak pointers  *)
(* are no identifiers.                                                     *)

T_LIST == 1
T_WPOBJ == 2
T_DUMMY == 3
Header(type, flags, size) == type + 256 * flags + 65536 * size
TypeIn(h) == h % 256
FlagsIn(h) == (h \div 256) % 256
SizeIn(h) == h \div 65536
HeaderWords == 2
Markers == {-1, -2}
INTOBJ_INT(n) == -10 - n
INT_INTOBJ(x) == -10 - x

PTR_BAG(w, b) == w.mem[b]
LINK_BAG(w, b) == w.mem[w.mem[b] - 1]
TNUM_BAG(w, b) == TypeIn(w.mem[w.mem[b] - 2])
SIZE_BAG(w, b) == SizeIn(w.mem[w.mem[b] - 2])
IS_BAG_ID(w, x) == x \in 1 .. w.mptrEnd - 1
IsOld(w, b) == PTR_BAG(w, b) <= w.youngBags
IsYoung(w, b) == w.youngBags < PTR_BAG(w, b) /\ PTR_BAG(w, b) <= w.allocBags
IsWeakDeadBag(mem, mptrEnd, x) == x \in 1 .. mptrEnd - 1 /\ mem[x] \in Markers
SizeAllocationArea(w) == w.endBags - w.allocBags
SizeMptrsArea(w) == w.mptrEnd - 1
LiveBags(w) ==
    {b \in 1 .. w.mptrEnd - 1 : w.oldBags + HeaderWords <= w.mem[b] /\ w.mem[b] <= w.allocBags}

(* InitBags                                                                *)
NewWorkspace ==
    LET first == 1 + InitMptrs + Gap
    IN  [mem |-> [a \in 1 .. Limit |-> IF a < InitMptrs THEN a + 1 ELSE 0],
         mptrEnd |-> 1 + InitMptrs, oldBags |-> first, youngBags |-> first,
         allocBags |-> first, endBags |-> InitEnd,
         freeMptr |-> 1, changed |-> 0, newMarker |-> -1, nrLive |-> 0, nrHalfDead |-> 0]

CHANGED_BAG(w, b) ==
    IF IsOld(w, b) /\ LINK_BAG(w, b) = b
    THEN [w EXCEPT !.mem[w.mem[b] - 1] = w.changed, !.changed = b]
    ELSE w

(* What is reached from S in at most so many rounds of next.               *)
OneMore(r, next) == r \cup UNION {next[x] : x \in r \cap DOMAIN next}
Closure(S, next, rounds) ==
    LET reach[n \in 0 .. rounds] == IF n = 0 THEN S ELSE OneMore(reach[n - 1], next)
    IN  reach[rounds]

(* The bags on the list ChangedBags.                                       *)
ChangedBags(w) ==
    IF w.changed = 0 THEN {}
    ELSE Closure({w.changed}, [b \in LiveBags(w) |-> {LINK_BAG(w, b)} \ {0}], SizeMptrsArea(w))

DropChangedBags(w) ==
    LET links == {w.mem[b] - 1 : b \in ChangedBags(w)}
        owner == [a \in links |-> CHOOSE b \in ChangedBags(w) : w.mem[b] - 1 = a]
    IN  [w EXCEPT !.changed = 0,
                  !.mem = [a \in 1 .. Limit |-> IF a \in links THEN owner[a] ELSE @[a]]]

-----------------------------------------------------------------------------
(* CollectBags_Mark.  MarkBag and MarkBagWeakly look at young bags only; a *)
(* strong mark overrides a weak one.                                       *)

MarkBag(w, S) == {b \in S : IS_BAG_ID(w, b) /\ IsYoung(w, b)}
WordsOf(w, b, first) == {w.mem[a] : a \in PTR_BAG(w, b) + first .. PTR_BAG(w, b) + SIZE_BAG(w, b) - 1}
StrongSubBags(w, b) == IF TNUM_BAG(w, b) = T_WPOBJ THEN {} ELSE WordsOf(w, b, 0)
WeakSubBags(w, b) == IF TNUM_BAG(w, b) = T_WPOBJ THEN WordsOf(w, b, 1) ELSE {}

CollectBags_Mark(w, roots) ==
    LET changed == ChangedBags(w)
        old == {b \in changed : IsOld(w, b)}
        start == MarkBag(w, roots \cup (changed \ old) \cup UNION {StrongSubBags(w, b) : b \in old})
        alive == Closure(start, [b \in LiveBags(w) |-> MarkBag(w, StrongSubBags(w, b))], SizeMptrsArea(w))
        weak == MarkBag(w, UNION {WeakSubBags(w, b) : b \in old \cup alive})
    IN  [alive |-> alive, halfDead |-> weak \ alive]

(* One body of CollectBags_Sweep: s.src is read, s.dst is written.         *)
SweepBody(s, marks, mptrEnd, newMarker) ==
    LET h == s.mem[s.src]
        size == SizeIn(h)
        bag == s.mem[s.src + 1]
        next == s.src + HeaderWords + size
        Swept(x) == IF TypeIn(h) = T_WPOBJ /\ IsWeakDeadBag(s.mem, mptrEnd, x) THEN 0 ELSE x
    IN  IF TypeIn(h) = T_DUMMY
        THEN [s EXCEPT !.src = IF FlagsIn(h) = 1 THEN @ + 1 ELSE @ + 1 + size]
        ELSE IF bag \in marks.alive
        THEN [s EXCEPT !.src = next,
                       !.dst = @ + HeaderWords + size,
                       !.mem = [a \in DOMAIN @ |->
                                    IF a = bag THEN s.dst + HeaderWords
                                    ELSE IF a \in s.dst .. s.dst + 1 THEN @[s.src + (a - s.dst)]
                                    ELSE IF a \in s.dst + 2 .. s.dst + 1 + size
                                         THEN Swept(@[s.src + (a - s.dst)])
                                    ELSE @[a]]]
        ELSE IF bag \in marks.halfDead
        THEN [s EXCEPT !.src = next, !.mem[bag] = newMarker, !.nrHalfDead = @ + 1]
        ELSE [s EXCEPT !.src = next, !.mem[bag] = s.freeMptr, !.freeMptr = bag]

CollectBags_Sweep(w, marks) ==
    LET sweep[n \in 0 .. Limit] ==
            IF n = 0
            THEN [mem |-> w.mem, src |-> w.youngBags, dst |-> w.youngBags,
                  freeMptr |-> w.freeMptr, nrHalfDead |-> w.nrHalfDead]
            ELSE LET s == sweep[n - 1]
                 IN  IF s.src < w.allocBags THEN SweepBody(s, marks, w.mptrEnd, w.newMarker) ELSE s
        end == sweep[w.allocBags - w.youngBags]
    IN  [w EXCEPT !.mem = [a \in 1 .. Limit |-> IF a \in end.dst .. end.src - 1 THEN 0 ELSE end.mem[a]],
                  !.youngBags = end.dst, !.allocBags = end.dst,
                  !.freeMptr = end.freeMptr, !.nrHalfDead = end.nrHalfDead,
                  !.nrLive = @ + Cardinality(marks.alive)]

-----------------------------------------------------------------------------
(* CollectBags_Check: is there room for a bag of the given size?  The      *)
(* result "no" asks for a full collection, "fail" gives up.                *)

StopBags(w, size) == w.allocBags + HeaderWords + size

EnoughAfterPartial(w, size) ==
    /\ w.endBags >= StopBags(w, size) + PartialSpare
    /\ SizeMptrsArea(w) >= PartialSpare \div Share + w.nrLive + w.nrHalfDead

(* Mutant: the masterpointers of all dead weak pointers are reclaimed,     *)
(* those that a weak pointer object may still name included.               *)
ReclaimMptrsAll(w) ==
    LET free == {b \in 1 .. w.mptrEnd - 1 : w.mem[b] \in {0} \cup Markers \/ IS_BAG_ID(w, w.mem[b])}
        Below(b) == Max({c \in free : c < b} \cup {0})
    IN  [w EXCEPT !.freeMptr = Below(w.mptrEnd), !.nrHalfDead = 0,
                  !.mem = [a \in 1 .. Limit |-> IF a \in free THEN Below(a) ELSE @[a]]]

(* The list of free masterpointers is built anew, with those that were     *)
(* half dead before this full collection.                                  *)
ReclaimMptrs(w) ==
    LET oldMarker == CHOOSE m \in Markers : m # w.newMarker
        stale == {b \in 1 .. w.mptrEnd - 1 : w.mem[b] = oldMarker}
        free == stale \cup {b \in 1 .. w.mptrEnd - 1 : w.mem[b] = 0 \/ IS_BAG_ID(w, w.mem[b])}
        Below(b) == Max({c \in free : c < b} \cup {0})
    IN  [w EXCEPT !.freeMptr = Below(w.mptrEnd),
                  !.mem = [a \in 1 .. Limit |-> IF a \in free THEN Below(a) ELSE @[a]],
                  !.nrHalfDead = @ - Cardinality(stale)]

(* SyAllocBags and SyFreeBags, which grant and take back whole blocks.  It *)
(* refuses above SyStorKill and when the pool is used up; above SyStorMax  *)
(* it only interrupts the program, which is left out.                      *)
SyAllocBags(end, blocks) == end + blocks * Block <= Limit + 1
SyFreeBags(end) == end - Block >= InitEnd

ExtendToStop(end, stop) ==
    LET blocks == (stop - end + Block - 1) \div Block
    IN  IF end < stop /\ SyAllocBags(end, blocks) THEN end + blocks * Block ELSE end

TooFull(w, end, stop) == end - stop < (stop - w.oldBags) \div Share \/ end - stop < FullSpare
TooEmpty(w, end, stop) ==
    end - stop > FullSpare + Block /\ (stop - w.mptrEnd) \div Share <= end - stop - Block

AdjustEnd(w, stop) ==
    LET Grown(k) == w.endBags + k * Block
        k == Min({k \in 0 .. Limit \div Block : ~(TooFull(w, Grown(k), stop) /\ SyAllocBags(Grown(k), 1))})
        Shrunk(j) == Grown(k) - j * Block
        j == Min({j \in 0 .. Limit \div Block : ~(TooEmpty(w, Shrunk(j), stop) /\ SyFreeBags(Shrunk(j)))})
    IN  [w EXCEPT !.endBags = Shrunk(j)]

(* More masterpointers: all bodies move up by i words.                     *)
ExtendMptrs(w, i) ==
    [w EXCEPT !.mem = [a \in 1 .. Limit |->
                          IF a < w.mptrEnd THEN (IF @[a] >= w.mptrEnd THEN @[a] + i ELSE @[a])
                          ELSE IF a < w.mptrEnd + i - 1 THEN a + 1
                          ELSE IF a = w.mptrEnd + i - 1 THEN w.freeMptr
                          ELSE IF a \in w.oldBags + i .. w.allocBags + i - 1 THEN @[a - i]
                          ELSE @[a]],
              !.freeMptr = w.mptrEnd, !.mptrEnd = @ + i, !.oldBags = @ + i,
              !.youngBags = @ + i, !.allocBags = @ + i]

CollectBags_CheckFull(w, size) ==
    LET r == ReclaimMptrs(w)
        stop == StopBags(w, size)
        e == [r EXCEPT !.endBags = ExtendToStop(@, stop)]
        f == AdjustEnd(e, stop)
        spare == (f.endBags - stop) \div Share
        available == SizeMptrsArea(f) - f.nrLive
    IN  IF e.endBags < stop THEN [w |-> e, done |-> "fail"]
        ELSE IF available < spare THEN [w |-> ExtendMptrs(f, spare - available), done |-> "yes"]
        ELSE [w |-> f, done |-> "yes"]

(* The beginning of a full collection: every bag is young.                 *)
MakeAllYoung(w) ==
    [DropChangedBags(w) EXCEPT !.youngBags = w.oldBags, !.nrLive = 0,
                               !.newMarker = CHOOSE m \in Markers : m # @]

MarkAndSweep(w, roots) == CollectBags_Sweep(DropChangedBags(w), CollectBags_Mark(w, roots))

-----------------------------------------------------------------------------
(* NewBag, ResizeBag and SwapMasterPoint.  The collections that the first  *)
(* two may call are steps of their own, in module Heap.                    *)

(* Mutant: the header of the new bag is not counted.                       *)
NewBagCollectsHeadless(w, size) == w.freeMptr = 0 \/ SizeAllocationArea(w) < size

NewBagCollects(w, size) == w.freeMptr = 0 \/ SizeAllocationArea(w) < HeaderWords + size

NewBag(w, type, size) ==
    [w EXCEPT !.freeMptr = w.mem[w.freeMptr],
              !.allocBags = @ + HeaderWords + size,
              !.mem[w.allocBags] = Header(type, 0, size),
              !.mem[w.allocBags + 1] = w.freeMptr,
              !.mem[w.freeMptr] = w.allocBags + HeaderWords]

IsLastBag(w, b) == PTR_BAG(w, b) + SIZE_BAG(w, b) = w.allocBags

(* Mutant: the dummy counts its own header word.                           *)
ShrinkBagByOneMore(w, b, size) ==
    LET n == SIZE_BAG(w, b) - size
    IN  [w EXCEPT !.mem[w.mem[b] - 2] = Header(TNUM_BAG(w, b), 0, size),
                  !.mem[w.mem[b] + size] = Header(T_DUMMY, 0, n)]

(* The bag loses n words: the sweeper will find a dummy there.             *)
ShrinkBag(w, b, size) ==
    LET p == PTR_BAG(w, b)
        n == SIZE_BAG(w, b) - size
    IN  [w EXCEPT !.mem[p - 2] = Header(TNUM_BAG(w, b), 0, size),
                  !.mem[p + size] = IF n = 1 THEN Header(T_DUMMY, 1, 0) ELSE Header(T_DUMMY, 0, n - 1)]

(* The last bag grows where it is.                                         *)
EnlargeLastBag(w, b, size) ==
    LET n == size - SIZE_BAG(w, b)
    IN  [w EXCEPT !.mem[w.mem[b] - 2] = Header(TNUM_BAG(w, b), 0, size),
                  !.youngBags = IF @ = w.allocBags THEN @ + n ELSE @,
                  !.allocBags = @ + n]

(* Mutant: an old bag that moves is not put onto the list of changed bags. *)
MoveBagUnlisted(w, b, size) ==
    LET p == PTR_BAG(w, b)
        n == SIZE_BAG(w, b)
        q == w.allocBags + HeaderWords
    IN  [w EXCEPT !.mem = [a \in 1 .. Limit |->
                              IF a = b THEN q
                              ELSE IF a = p - 2 THEN Header(T_DUMMY, 0, HeaderWords + n - 1)
                              ELSE IF a = q - 2 THEN Header(TNUM_BAG(w, b), 0, size)
                              ELSE IF a \in q - 1 .. q + n - 1 THEN @[p + (a - q)]
                              ELSE @[a]],
                  !.allocBags = q + size]

(* Any other bag moves to the allocation area.  An old one that moves is   *)
(* put onto the list of changed bags, to survive the next collection.      *)
MoveBag(w, b, size) ==
    LET p == PTR_BAG(w, b)
        n == SIZE_BAG(w, b)
        listed == LINK_BAG(w, b) # b
        q == w.allocBags + HeaderWords
    IN  [w EXCEPT !.mem = [a \in 1 .. Limit |->
                              IF a = b THEN q
                              ELSE IF a = p - 2 THEN Header(T_DUMMY, 0, HeaderWords + n - 1)
                              ELSE IF a = q - 2 THEN Header(TNUM_BAG(w, b), 0, size)
                              ELSE IF a = q - 1 THEN (IF listed THEN LINK_BAG(w, b)
                                                      ELSE IF IsOld(w, b) THEN w.changed ELSE b)
                              ELSE IF a \in q .. q + n - 1 THEN @[p + (a - q)]
                              ELSE @[a]],
                  !.changed = IF ~listed /\ IsOld(w, b) THEN b ELSE @,
                  !.allocBags = q + size]

ResizeBagCollects(w, b, size) ==
    /\ size > SIZE_BAG(w, b)
    /\ IF IsLastBag(w, b) THEN w.endBags - PTR_BAG(w, b) < size
       ELSE SizeAllocationArea(w) < HeaderWords + size

(* The size that ResizeBag asks CollectBags for.                           *)
ResizeBagNeeds(w, b, size) == IF IsLastBag(w, b) THEN size - SIZE_BAG(w, b) ELSE size

(* The rest of ResizeBag: last says whether b was the last bag when        *)
(* ResizeBag was called, before a collection that it called.               *)
ResizeBag(w, b, size, last) ==
    IF size = SIZE_BAG(w, b) THEN w
    ELSE IF size < SIZE_BAG(w, b) THEN ShrinkBag(w, b, size)
    ELSE IF last THEN EnlargeLastBag(w, b, size)
    ELSE MoveBag(w, b, size)

(* A bag forced onto the list of changed bags, young or old.               *)
ForceChanged(w, b) ==
    IF LINK_BAG(w, b) = b
    THEN [w EXCEPT !.mem[w.mem[b] - 1] = w.changed, !.changed = b] ELSE w

(* Mutant: the link words stay where they are.                             *)
SwapMasterPointOnly(w, b, c) ==
    LET v == ForceChanged(ForceChanged(w, b), c)
    IN  [v EXCEPT !.mem[b] = v.mem[c], !.mem[c] = v.mem[b]]

SwapMasterPoint(w, b, c) ==
    LET v == ForceChanged(ForceChanged(w, b), c)
    IN  IF b = c THEN w
        ELSE [v EXCEPT !.mem[b] = v.mem[c], !.mem[c] = v.mem[b],
                       !.mem[v.mem[c] - 1] = LINK_BAG(v, b),
                       !.mem[v.mem[b] - 1] = LINK_BAG(v, c)]

-----------------------------------------------------------------------------
(* Weak pointer objects.  Word 0 of the bag holds an upper bound of the    *)
(* length; dead entries are cleared when they are looked at.               *)

STORED_LEN_WPOBJ(w, b) == INT_INTOBJ(w.mem[PTR_BAG(w, b)])
STORE_LEN_WPOBJ(w, b, len) == [w EXCEPT !.mem[w.mem[b]] = INTOBJ_INT(len)]
DeadEntry(w, b, pos) == IsWeakDeadBag(w.mem, w.mptrEnd, w.mem[PTR_BAG(w, b) + pos])
ELM_WPOBJ(w, b, pos) == IF DeadEntry(w, b, pos) THEN 0 ELSE w.mem[PTR_BAG(w, b) + pos]
SET_ELM_WPOBJ(w, b, pos, val) == [w EXCEPT !.mem[w.mem[b] + pos] = val]

(* LengthWPObj: the entries after the last live one are cleared.           *)
LengthWPObj(w, b) ==
    Max({pos \in 1 .. STORED_LEN_WPOBJ(w, b) : ELM_WPOBJ(w, b, pos) # 0} \cup {0})
TrimWPObj(w, b) ==
    LET p == PTR_BAG(w, b)
        len == LengthWPObj(w, b)
    IN  [w EXCEPT !.mem = [a \in 1 .. Limit |->
                              IF a = p THEN INTOBJ_INT(len)
                              ELSE IF a \in p + len + 1 .. p + STORED_LEN_WPOBJ(w, b) THEN 0
                              ELSE @[a]]]

(* The size to which GROW_WPOBJ resizes the bag: by a quarter at least.    *)
GrownSize(w, b, need) ==
    IF need < SIZE_BAG(w, b) THEN SIZE_BAG(w, b)
    ELSE 1 + Max({need, (5 * (SIZE_BAG(w, b) - 1)) \div 4 + 4})
=============================================================================
