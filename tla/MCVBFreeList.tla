---------------------------- MODULE MCVBFreeList ----------------------------
EXTENDS VBFreeList

(* No write of a call fails, or any one of them.                           *)
AnyFault == {0, 1, 2}
=============================================================================
