------------------------------ MODULE VBAtomic ------------------------------
(***************************************************************************)
(* What the transactions of a table promise: the changes of a transaction  *)
(* take effect all at once when it commits and not at all when it is       *)
(* rolled back, and two open transactions never change the same row.       *)
(*                                                                         *)
(* VBTrans, the model of libvbisam/istrans.c, implements this module       *)
(* (VBTrans!Atomic) where the README says it does.                         *)
(***************************************************************************)
CONSTANTS Proc, Row, Key, NoKey

VARIABLES
  table,    (* [Row -> Key or NoKey], what was committed                   *)
  pending   (* of a process: the rows its transaction changed, and to what *)

Nothing == [r \in {} |-> NoKey]

Init ==
  /\ table = [r \in Row |-> NoKey]
  /\ pending = [p \in Proc |-> Nothing]

Overlay(f, g) ==
  [r \in DOMAIN f |-> IF r \in DOMAIN g THEN g[r] ELSE f[r]]

Change(p) ==
  /\ \E r \in Row, v \in Key \union {NoKey} :
       /\ \A q \in Proc \ {p} : r \notin DOMAIN pending[q]
       /\ pending' = [pending EXCEPT
            ![p] = [s \in DOMAIN @ \union {r} |-> IF s = r THEN v ELSE @[s]]]
  /\ UNCHANGED table

Commit(p) ==
  /\ table' = Overlay(table, pending[p])
  /\ pending' = [pending EXCEPT ![p] = Nothing]

Rollback(p) ==
  /\ pending' = [pending EXCEPT ![p] = Nothing]
  /\ UNCHANGED table

Next == \E p \in Proc : Change(p) \/ Commit(p) \/ Rollback(p)

Spec == Init /\ [][Next]_<<table, pending>>
=============================================================================
