----------------------------- MODULE MCVBRowOps -----------------------------
EXTENDS VBRowOps

(* Two values of each key.                                                 *)
TwoValues == [p \in Parts |-> 1]
=============================================================================
