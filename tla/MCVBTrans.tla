----------------------------- MODULE MCVBTrans -----------------------------
EXTENDS VBTrans

(* Process numbers of two bytes; of more.                                  *)
SmallPid == [p \in Proc |-> IF p = "P" THEN 101 ELSE 102]
LargePid == [p \in Proc |-> 70000]

(* Each process keeps to keys of its own; all work on the same keys.       *)
OwnKeys == [p \in Proc |-> IF p = "P" THEN {"a", "b"} ELSE {"c"}]
AllKeys == [p \in Proc |-> Key]
=============================================================================
