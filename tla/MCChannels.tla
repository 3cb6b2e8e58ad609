----------------------------- MODULE MCChannels -----------------------------
(* Small instances of Channels for TLC.                                    *)
EXTENDS Channels

CONSTANTS t1, t2, t3, o1, o2, o3

MCObjects == {o1, o2, o3}
MCRegion == (o1 :> t1) @@ (o2 :> t2) @@ (o3 :> Public)

(* Senders and receivers: three threads, the middle one does both.         *)
MCSenders == {t1, t2}
MCReceivers == {t2, t3}

(* What is sent: single objects, pairs, and for the dynamic channel a list *)
(* long enough that two of them overflow the twenty slots.                 *)
ShortLists == {<<o1>>, <<o2, o3>>}
LongList == {<<o3, o1, o2, o3, o3, o3, o3, o3, o1>>}
MCAmounts == {0, 2}
DynamicAmounts == {6}
=============================================================================
