------------------------------ MODULE VBIndex ------------------------------
(***************************************************************************)
(* What an index of a VBISAM table promises, whatever tree carries it: a   *)
(* set of entries, each a key and the number that tells its duplicates     *)
(* apart.  A new entry of a key comes after the duplicates that are there; *)
(* a unique index refuses it.                                              *)
(*                                                                         *)
(* VBTree, the model of libvbisam/vbkeysio.c and vbnodememio.c, implements *)
(* this module (VBTree!Index).                                             *)
(***************************************************************************)
EXTENDS Integers

CONSTANTS Key, Dup

VARIABLES
  entries,   (* SUBSET (Key \X Dup)                                        *)
  isdups     (* whether the index was built with ISDUPS                    *)

Numbers(k) == {d \in Dup : <<k, d>> \in entries}

After(D) == IF D = {} THEN 0 ELSE 1 + CHOOSE d \in D : \A e \in D : e <= d

Init == entries = {} /\ isdups \in BOOLEAN

Insert(k) ==
  /\ Numbers(k) = {} \/ isdups
  /\ entries' = entries \union {<<k, After(Numbers(k))>>}
  /\ UNCHANGED isdups

Delete(e) ==
  /\ entries' = entries \ {e}
  /\ UNCHANGED isdups

Next == (\E k \in Key : Insert(k)) \/ (\E e \in entries : Delete(e))

Spec == Init /\ [][Next]_<<entries, isdups>>
=============================================================================
