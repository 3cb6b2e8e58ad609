-------------------------- MODULE MCThreadControl --------------------------
(* Two threads that control a third one.                                   *)
EXTENDS ThreadControl

CONSTANTS c1, c2

MCControllers == {c1, c2}
=============================================================================
