----------------------------- MODULE MCVBVarlen -----------------------------
EXTENDS VBVarlen

(* The ratios of igroupsize to QUADSIZE in the smaller build, cut short.   *)
Sizes == [g \in 0..3 |-> <<1, 2, 4, 8>>[g + 1]]
=============================================================================
