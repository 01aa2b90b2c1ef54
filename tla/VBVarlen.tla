------------------------------ MODULE VBVarlen ------------------------------
(***************************************************************************)
(* The rows of a table with ISVARLEN: vbdataio.c.  What a row has beyond   *)
(* its minimum length is kept in nodes of the index file: as long as it is *)
(* longer than a node in full nodes, and the rest, the tail, in a slot of  *)
(* a node that it shares with other tails.  The nodes with room are in     *)
(* lists by their free space, whose heads are in the dictionary node.      *)
(*                                                                         *)
(* Lengths are in a unit of their own, without the header of a node and    *)
(* its last three bytes; the widths of the fields are not modelled, so     *)
(* that a node must have fewer slots than cusedcount can count.  The nodes *)
(* come from VBFreeList, the lowest free one first; the caller holds the   *)
(* dictionary lock of VBDictCache.                                         *)
(***************************************************************************)
EXTENDS Integers, Sequences, FiniteSets

LOCAL INSTANCE SequencesExt
LOCAL INSTANCE FiniteSetsExt

CONSTANTS
  MaxRow,    (* bound on the row numbers                                   *)
  MaxNode,   (* bound on the nodes                                         *)
  NodeSize,  (* what a node has for tails and slots                        *)
  SlotSize,  (* 2 * INTSIZE                                                *)
  GroupSize, (* igroupsize: [0..LastGroup -> Nat], the last above NodeSize *)
  Lengths    (* the lengths a row may have beyond its minimum              *)

Row       == 1..MaxRow
Node      == 1..MaxNode
Group     == DOMAIN GroupSize
LastGroup == Max(Group)
FullSize  == NodeSize - SlotSize

ASSUME VarlenAssumption ==
  /\ {MaxRow, MaxNode, NodeSize, SlotSize} \subseteq Nat \ {0}
  /\ SlotSize < NodeSize
  /\ Group = 0..LastGroup
  /\ \A g \in Group : g > 0 => GroupSize[g - 1] < GroupSize[g]
  /\ GroupSize[0] >= SlotSize /\ GroupSize[LastGroup] >= NodeSize
  /\ NodeSize <= 127
  /\ Lengths \subseteq Nat

VARIABLES
  node,      (* the nodes: [Node -> struct SVARLEN, or NoNode if free]     *)
  head,      (* cvarleng0..: [Group -> Node or 0]                          *)
  row,       (* the footers of the rows, or NoRow                          *)
  lost       (* history: the rows that an isdelete or a rewrite gave up    *)

vars == <<node, head, row, lost>>

(* A byte is the place it has in its row; what a row has been given is     *)
(* known by its length.                                                    *)
Blank       == <<0, 0>>
Bytes(r, n) == [i \in 1..n |-> <<r, i>>]

NoRow  == [ivarlenlength |-> -1, tvarlennode |-> 0, ivarlenslot |-> 0]
NoNode == [cusedcount |-> 0]
NoCont == [slot |-> 0, node |-> 0]
NoSlot == [len |-> 0, off |-> 0]

(* [f EXCEPT ![x] = v].                                                    *)
With(f, x, v) == [y \in DOMAIN f |-> IF y = x THEN v ELSE f[y]]

Live  == {r \in Row : row[r] # NoRow}
Used(s) == {n \in Node : s.node[n] # NoNode}

(* The nodes tvbnodecountgetnext gives, in the order it gives them.        *)
Fresh(s) == SetToSortSeq(Node \ Used(s), <)

-----------------------------------------------------------------------------
(* The lists.  `s' is the index file: its nodes and the heads.             *)

(* The group of a free space: above its size, and not above the next.      *)
igroup(free) == Min({g \in Group : GroupSize[g] >= free}) - 1

(* UnlinkedHead, TailNodeAny and WithoutTailStays are slips that no code   *)
(* here makes and no action uses: variants the properties must tell from   *)
(* it.                                                                     *)
UnlinkedHead(s, n) ==
  [node |-> s.node,
   head |-> [g \in Group |-> IF s.head[g] = n THEN s.node[n].cfreenext
                             ELSE s.head[g]]]

Unlinked(s, n) ==
  LET h == s.node[n] IN
  [node |-> [m \in Node |->
               CASE m = h.cfreeprev ->
                      [s.node[m] EXCEPT !.cfreenext = h.cfreenext]
                 [] m = h.cfreenext ->
                      [s.node[m] EXCEPT !.cfreeprev = h.cfreeprev]
                 [] OTHER           -> s.node[m]],
   head |-> [g \in Group |-> IF g = h.cgroup /\ s.head[g] = n THEN h.cfreenext
                             ELSE s.head[g]]]

Linked(s, n, g) ==
  LET first == IF g >= 0 THEN s.head[g] ELSE 0 IN
  [node |-> [m \in Node |->
               CASE m = n     -> [s.node[n] EXCEPT !.cfreeprev = 0,
                                    !.cfreenext = first, !.cgroup = g]
                 [] m = first -> [s.node[m] EXCEPT !.cfreeprev = n]
                 [] OTHER     -> s.node[m]],
   head |-> [x \in Group |-> IF x = g THEN n ELSE s.head[x]]]

relocatenode(s, n) ==
  LET g == igroup(s.node[n].cfreethis) IN
  IF g = s.node[n].cgroup THEN s ELSE Linked(Unlinked(s, n), n, g)

-----------------------------------------------------------------------------
(* Writing.                                                                *)

TailNodeAny(s, need) ==
  IF Used(s) = {} THEN 0 ELSE Min(Used(s))

(* The search of ttailnode: the first node with room, from the list whose  *)
(* nodes all have room.  Its sanity check moves a node that is in the      *)
(* wrong list, which NodesExact excludes.                                  *)
TailNode(s, need) ==
  LET along[k \in Nat, n \in 0..MaxNode] ==
        CASE n = 0 \/ k = 0                              -> 0
          [] n # 0 /\ k > 0 /\ s.node[n].cfreethis >= need -> n
          [] OTHER -> along[k - 1, s.node[n].cfreenext]
      from[g \in Nat] ==
        IF g > LastGroup THEN 0
        ELSE LET n == along[MaxNode, s.head[g]]
             IN IF n # 0 THEN n ELSE from[g + 1]
  IN from[Min({g \in Group : GroupSize[g] >= need})]

NewTail ==
  [cfreenext |-> 0, cfreeprev |-> 0, cfreethis |-> NodeSize - SlotSize,
   cfreeoffset |-> 0, cfreecont |-> NoCont, cgroup |-> -1,
   slots |-> <<NoSlot>>, area |-> [i \in 1..NodeSize |-> Blank]]

(* Slot numbers start with 0; slots[1] is slot 0.                          *)
FreeSlots(h) == {i \in DOMAIN h.slots : h.slots[i].len = 0}

WithSlot(h) ==
  IF FreeSlots(h) # {} THEN h
  ELSE [h EXCEPT !.slots = Append(@, NoSlot), !.cfreethis = @ - SlotSize]

WithTailAt(h, at, bytes) ==
  LET n == Len(bytes) IN
  [h EXCEPT !.slots = With(h.slots, at, [len |-> n, off |-> h.cfreeoffset]),
            !.area = [i \in 1..NodeSize |->
                        IF i - h.cfreeoffset \in 1..n
                        THEN bytes[i - h.cfreeoffset] ELSE h.area[i]],
            !.cfreethis = @ - n,
            !.cfreeoffset = @ + n]

ttailnode(s, bytes) ==
  LET found == TailNode(s, Len(bytes) + SlotSize)
      n     == IF found # 0 THEN found ELSE Fresh(s)[1]
      h     == IF found # 0 THEN WithSlot(s.node[n]) ELSE NewTail
      at    == Min(FreeSlots(h))
      t     == [s EXCEPT !.node = With(s.node, n, WithTailAt(h, at, bytes))]
  IN [file |-> relocatenode(t, n), node |-> n, slot |-> at - 1]

FullNode(bytes, cont) ==
  [cfreenext |-> 0, cfreeprev |-> 0, cfreethis |-> 0,
   cfreeoffset |-> NodeSize - SlotSize, cfreecont |-> cont, cgroup |-> 0,
   slots |-> <<[len |-> FullSize, off |-> 0]>>,
   area |-> [i \in 1..NodeSize |-> IF i <= FullSize THEN bytes[i] ELSE Blank]]

Fulls(n) == IF n = 0 THEN 0 ELSE (n - 1) \div FullSize

(* ivbvarlenwrite: the full nodes are taken before the tail's.             *)
ivbvarlenwrite(s, bytes) ==
  LET k     == Fulls(Len(bytes))
      fulls == SubSeq(Fresh(s), 1, k)
      cut(i) == SubSeq(bytes, 1 + i * FullSize, Len(bytes))
      full(i, cont) == FullNode(SubSeq(cut(i - 1), 1, FullSize), cont)
      taken == [s EXCEPT !.node =
                  [n \in Node |->
                     IF \E i \in 1..k : fulls[i] = n
                     THEN LET i    == CHOOSE i \in 1..k : fulls[i] = n
                              next == IF i < k THEN fulls[i + 1] ELSE 0
                          IN full(i, [slot |-> 0, node |-> next])
                     ELSE s.node[n]]]
      tail  == ttailnode(taken, cut(k))
      cont  == [slot |-> tail.slot, node |-> tail.node]
  IN IF k = 0
     THEN [file |-> tail.file, node |-> tail.node, slot |-> tail.slot]
     ELSE [file |-> [tail.file EXCEPT !.node =
                       With(tail.file.node, fulls[k], full(k, cont))],
           node |-> fulls[1], slot |-> 0]

NodesNeeded(n) == Fulls(n) + 1

-----------------------------------------------------------------------------
(* Reading and deleting.                                                   *)

(* ivbvarlenread: the bytes, or those before the error.                    *)
RECURSIVE ivbvarlenread(_, _, _, _)
ivbvarlenread(s, n, slot, len) ==
  IF n \notin Used(s) \/ slot >= Len(s.node[n].slots) THEN <<>>
  ELSE LET h == s.node[n]
           at == h.slots[slot + 1]
       IN CASE at.len >= len /\ h.cfreecont = NoCont ->
                 SubSeq(h.area, at.off + 1, at.off + len)
            [] at.len < len /\ h.cfreecont # NoCont ->
                 SubSeq(h.area, at.off + 1, at.off + at.len)
                   \o ivbvarlenread(s, h.cfreecont.node, h.cfreecont.slot,
                                    len - at.len)
            [] OTHER -> <<>>

(* The slot is emptied, and the tails behind it move down.  The slot stays:*)
(* the test for the last one compares a number from 0 with the count.      *)
WithoutTailStays(h, slot) ==
  LET at == h.slots[slot + 1] IN
  [h EXCEPT !.slots = With(h.slots, slot + 1, NoSlot),
            !.cfreethis = @ + at.len,
            !.cfreeoffset = @ - at.len]

WithoutTail(h, slot) ==
  LET at == h.slots[slot + 1] IN
  [h EXCEPT
     !.slots = [i \in DOMAIN h.slots |->
                  CASE i = slot + 1 -> NoSlot
                    [] i # slot + 1 /\ h.slots[i].off > at.off ->
                         [h.slots[i] EXCEPT !.off = h.slots[i].off - at.len]
                    [] OTHER -> h.slots[i]],
     !.cfreethis = @ + at.len,
     !.cfreeoffset = @ - at.len,
     !.area = [i \in 1..NodeSize |->
                 CASE i <= at.off -> h.area[i]
                   [] i > at.off /\ i <= h.cfreeoffset - at.len ->
                        h.area[i + at.len]
                   [] OTHER -> Blank]]

(* The continuation is followed without taking the slot out of it: with a  *)
(* slot other than 0 it names no node of the file.                         *)
ContinuedAt(cont) == IF cont.slot = 0 THEN cont.node ELSE -1

RECURSIVE ivbvarlendelete(_, _, _, _)
ivbvarlendelete(s, n, slot, len) ==
  CASE len <= 0 -> [file |-> s, ok |-> TRUE]
    [] len > 0 /\ n \notin Used(s) -> [file |-> s, ok |-> FALSE]
    [] OTHER ->
         LET h       == s.node[n]
             rest    == len - h.slots[slot + 1].len
             emptied == WithoutTail(h, slot)
             left    == Unlinked(s, n)
             file    == IF \A i \in DOMAIN h.slots : emptied.slots[i].len = 0
                        THEN [left EXCEPT !.node = With(left.node, n, NoNode)]
                        ELSE relocatenode([s EXCEPT !.node =
                                             With(s.node, n, emptied)], n)
         IN ivbvarlendelete(file, ContinuedAt(h.cfreecont), slot, rest)

-----------------------------------------------------------------------------
Init ==
  /\ node = [n \in Node |-> NoNode]
  /\ head = [g \in Group |-> 0]
  /\ row = [r \in Row |-> NoRow]
  /\ lost = {}

File == [node |-> node, head |-> head]

Footer(n, t, slot) ==
  [ivarlenlength |-> n, tvarlennode |-> t, ivarlenslot |-> slot]

(* ivbdatawrite, with what the file has after the old tail was deleted.    *)
ivbdatawrite(s, r, n) ==
  IF n = 0
  THEN /\ node' = s.node /\ head' = s.head
       /\ row' = [row EXCEPT ![r] = Footer(0, 0, 0)]
  ELSE LET w == ivbvarlenwrite(s, Bytes(r, n)) IN
       /\ Cardinality(Node \ Used(s)) >= NodesNeeded(n)
       /\ node' = w.file.node /\ head' = w.file.head
       /\ row' = [row EXCEPT ![r] = Footer(n, w.node, w.slot)]

(* The old tail of a row that has been read.                               *)
Deleted(r) ==
  ivbvarlendelete(File, row[r].tvarlennode, row[r].ivarlenslot,
                  row[r].ivarlenlength)

(* ivbwriterow: "Stop it from removing".                                   *)
Write(r, n) ==
  /\ r \notin Live
  /\ ivbdatawrite(File, r, n)
  /\ UNCHANGED lost

(* isrewrite, isrewcurr and isrewrec.                                      *)
Rewrite(r, n) ==
  /\ r \in Live \ lost
  /\ Deleted(r).ok
  /\ ivbdatawrite(Deleted(r).file, r, n)
  /\ UNCHANGED lost

(* iprocessdelete.                                                         *)
Delete(r) ==
  /\ r \in Live \ lost
  /\ Deleted(r).ok
  /\ node' = Deleted(r).file.node /\ head' = Deleted(r).file.head
  /\ row' = [row EXCEPT ![r] = NoRow]
  /\ UNCHANGED lost

(* Either gives -69: the row keeps a footer that names freed nodes.  It is *)
(* assumed that no one asks for the row again.                             *)
DeleteFails(r) ==
  /\ r \in Live \ lost
  /\ ~Deleted(r).ok
  /\ node' = Deleted(r).file.node /\ head' = Deleted(r).file.head
  /\ lost' = lost \union {r}
  /\ UNCHANGED row

Next ==
  \/ \E r \in Row, n \in Lengths : Write(r, n)
  \/ \E r \in Row, n \in Lengths : Rewrite(r, n)
  \/ \E r \in Row : Delete(r)
  \/ \E r \in Row : DeleteFails(r)

Spec == Init /\ [][Next]_vars

-----------------------------------------------------------------------------
TypeOK ==
  /\ head \in [Group -> Node \union {0}]
  /\ \A n \in Used(File) :
       /\ {node[n].cfreenext, node[n].cfreeprev} \subseteq Node \union {0}
       /\ node[n].cgroup \in Group \union {-1}
       /\ {node[n].cfreethis, node[n].cfreeoffset} \subseteq 0..NodeSize
  /\ \A r \in Live : row[r].ivarlenlength \in Lengths
  /\ lost \subseteq Live

(* A node is in the list of its free space and in no other, and the lists  *)
(* are linked both ways.                                                   *)
Tails == {n \in Used(File) : node[n].cfreecont = NoCont}

Listed(g) ==
  LET along[k \in Nat, n \in 0..MaxNode] ==
        IF n = 0 \/ k = 0 \/ n \notin Used(File) THEN <<>>
        ELSE <<n>> \o along[k - 1, node[n].cfreenext]
  IN along[MaxNode + 1, head[g]]

ListsExact ==
  \A g \in Group :
    LET l == Listed(g) IN
    /\ Len(l) = Cardinality(ToSet(l))
    /\ ToSet(l) = {n \in Tails : igroup(node[n].cfreethis) = g}
    /\ \A i \in DOMAIN l :
         node[l[i]].cfreeprev = IF i = 1 THEN 0 ELSE l[i - 1]

(* The tails and the slots of a node fill it up to its free space, and     *)
(* what is free is blank.                                                  *)
SlotsExact ==
  \A n \in Tails :
    LET h == node[n] IN
    /\ h.cfreethis + h.cfreeoffset + SlotSize * Len(h.slots) = NodeSize
    /\ h.cfreeoffset =
         FoldLeft(LAMBDA a, x : a + x.len, 0, h.slots)
    /\ \A i \in 1..NodeSize : h.area[i] = Blank <=> i > h.cfreeoffset

NodesExact == ListsExact /\ SlotsExact

(* A row reads back what was last written to it, whatever has been written *)
(* to and deleted from the nodes it shares.                                *)
RowsReadBack ==
  \A r \in Live \ lost :
    ivbvarlenread(File, row[r].tvarlennode, row[r].ivarlenslot,
                  row[r].ivarlenlength) = Bytes(r, row[r].ivarlenlength)
=============================================================================
