----------------------------- MODULE MCVBLocks -----------------------------
EXTENDS VBLocks

(* Two processes with a handle each.                                       *)
OneEach == [h \in Handle |-> CHOOSE p \in Proc : (p = "P") = (h = 1)]
=============================================================================
