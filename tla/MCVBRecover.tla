---------------------------- MODULE MCVBRecover ----------------------------
EXTENDS VBRecover

(* Each process keeps to keys of its own.                                  *)
OwnKeys == [p \in Proc |-> IF p = "P" THEN {"a", "b"} ELSE {"c"}]
=============================================================================
