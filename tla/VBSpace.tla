------------------------------ MODULE VBSpace ------------------------------
(***************************************************************************)
(* What the space allocator of a table promises its callers, whatever it   *)
(* keeps on disk: a row number or an index node that is handed out is not  *)
(* in use by anybody, and only what is in use can be given back.           *)
(*                                                                         *)
(* VBFreeList, the model of libvbisam/vbindexio.c, implements this module  *)
(* (VBFreeList!Space).                                                     *)
(***************************************************************************)
EXTENDS Integers

CONSTANTS
  Rows,      (* row numbers of the data file                               *)
  Nodes,     (* node numbers of the index file                             *)
  Reserved   (* nodes isbuild creates: dictionary, key description, root   *)

VARIABLES
  live,      (* rows that hold data                                        *)
  owned      (* nodes that belong to a key tree or to the fixed nodes      *)

Init ==
  /\ live = {}
  /\ owned = Reserved

TakeRow ==
  /\ \E r \in Rows \ live : live' = live \union {r}
  /\ UNCHANGED owned

GiveRow ==
  /\ \E r \in live : live' = live \ {r}
  /\ UNCHANGED owned

TakeNode ==
  /\ \E n \in Nodes \ owned : owned' = owned \union {n}
  /\ UNCHANGED live

GiveNode ==
  /\ \E n \in owned \ Reserved : owned' = owned \ {n}
  /\ UNCHANGED live

Next == TakeRow \/ GiveRow \/ TakeNode \/ GiveNode

Spec == Init /\ [][Next]_<<live, owned>>
=============================================================================
