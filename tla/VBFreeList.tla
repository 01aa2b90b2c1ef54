----------------------------- MODULE VBFreeList -----------------------------
(***************************************************************************)
(* The space allocator of a VBISAM table: libvbisam/vbindexio.c.           *)
(*                                                                         *)
(* Two free lists live in nodes of the index file.  The data free list     *)
(* (dictionary field cdatafree, node tag -1) holds numbers of deleted      *)
(* rows, the node free list (cnodefree, tag -2) numbers of unused nodes;   *)
(* a node of either list holds at most Capacity numbers and points at the  *)
(* next.  A node of the node free list is itself free: it is handed out    *)
(* when it has no number left.                                             *)
(*                                                                         *)
(* The callers hold the dictionary lock, so the operations run one at a    *)
(* time.  A block write may fail: `f' is the ordinal of the write that     *)
(* fails in a call, 0 if none does.  A failed read returns before any      *)
(* change and is a stuttering step.  The write of the dictionary that ends *)
(* the caller's work (ivbexit, vblocking.c:308) does not fail here.        *)
(***************************************************************************)
EXTENDS Integers, Sequences

CONSTANTS
  MaxRow,    (* bound on the row numbers                                   *)
  MaxNode,   (* bound on the node numbers                                  *)
  Capacity,  (* numbers a list node holds (510 with 4 KiB nodes)           *)
  Faults     (* which write of a call may fail: subset of 0..2, 0 is none  *)

Fixed == 1..3    \* nodes isbuild writes: dictionary, key description, root

ASSUME SpaceAssumption ==
  /\ MaxRow \in Nat
  /\ MaxNode \in Nat /\ MaxNode >= 3
  /\ Capacity \in Nat /\ Capacity >= 1
  /\ Faults \subseteq 0..2

VARIABLES
  idx,       (* the dictionary node and the index file                     *)
  live,      (* rows handed to a caller and not given back                 *)
  owned,     (* nodes handed to a caller and not given back                *)
  force      (* the loop ivbforcedataallocate is in, if any                *)

vars == <<idx, live, owned, force>>

(***************************************************************************)
(* idx.datalist, idx.nodelist and idx.torn are history: the nodes that     *)
(* carry each list, which the code finds by following pointers only, and   *)
(* whether a write has failed.                                             *)
(***************************************************************************)
Row   == 1..MaxRow
Node  == 1..MaxNode
Tag   == {"tree", "rows", "nodes"}      \* content of a node: keys, -1, -2
Block == [tag : Tag, next : 0..MaxNode, ents : Seq(Nat)]
Idx   == [datacount : 0..MaxRow, nodecount : 0..MaxNode,
          datafree : 0..MaxNode, nodefree : 0..MaxNode,
          disk : [Node -> Block],
          datalist : SUBSET Node, nodelist : SUBSET Node, torn : BOOLEAN]

TreeBlock          == [tag |-> "tree", next |-> 0, ents |-> <<>>]
RowsBlockShort(next, r) == [tag |-> "rows", next |-> next, ents |-> <<>>]
RowsBlock(next, r) == [tag |-> "rows", next |-> next, ents |-> <<r>>]
NodesBlock(next)   == [tag |-> "nodes", next |-> next, ents |-> <<>>]

(* RowsBlockShort, WithoutKept and the like are slips that no code here    *)
(* makes and no action uses: variants the properties must tell from it.    *)
WithoutKept(ents, i)    == ents
WithoutNextOne(ents, i) ==
  [k \in 1..(Len(ents) - 1) |-> IF k <= i THEN ents[k] ELSE ents[k + 1]]

(* The numbers of a list node without the i-th: the memcpy that closes the *)
(* gap.                                                                    *)
Without(ents, i) ==
  [k \in 1..(Len(ents) - 1) |-> IF k < i THEN ents[k] ELSE ents[k + 1]]

(* Outcome of a call: the state it leaves, and what it returns (-1: error).*)
Done(s, ret) == [s |-> s, ret |-> ret]
Refuse(s)    == Done(s, -1)                              \* a bad node tag
Fail(s)      == Done([s EXCEPT !.torn = TRUE], -1)       \* a failed write

-----------------------------------------------------------------------------
(* The operations of vbindexio.c as functions of the dictionary and disk.  *)

PushedAlone(s, n) == [s EXCEPT !.disk[n] = NodesBlock(0), !.nodefree = n,
                               !.nodelist = @ \union {n}]

Pushed(s, n) ==      \* n becomes the head of the node free list
  [s EXCEPT !.disk[n] = NodesBlock(s.nodefree), !.nodefree = n,
            !.nodelist = @ \union {n}]

Tagged(s, n) == [s EXCEPT !.disk[n] = NodesBlock(0)]

ivbnodefree(s, n, f) ==
  LET h == s.nodefree IN
  CASE h # 0 /\ s.disk[h].tag # "nodes" -> Refuse(s)
    [] f = 1 -> Fail(s)
    [] f # 1 /\ h = 0 -> Done(Pushed(s, n), 0)
    [] f # 1 /\ h # 0 /\ s.disk[h].tag = "nodes"
             /\ Len(s.disk[h].ents) >= Capacity -> Done(Pushed(s, n), 0)
    [] OTHER ->
         IF f = 2 THEN Fail(Tagged(s, n))
         ELSE Done([Tagged(s, n) EXCEPT !.disk[h].ents = Append(@, n)], 0)

tvbnodecountgetnext(s) == Done([s EXCEPT !.nodecount = @ + 1], s.nodecount + 1)

tvbnodeallocate(s, f) ==
  LET h == s.nodefree IN
  CASE h = 0 -> tvbnodecountgetnext(s)
    [] h # 0 /\ s.disk[h].tag # "nodes" -> Refuse(s)
    [] h # 0 /\ s.disk[h].tag = "nodes" /\ s.disk[h].ents # <<>> ->
         IF f = 1 THEN Fail(s)
         ELSE Done([s EXCEPT !.disk[h].ents = Without(@, 1)],
                   s.disk[h].ents[1])
    [] OTHER ->          \* the last of the node: use the node itself
         Done([s EXCEPT !.nodefree = s.disk[h].next,
                        !.nodelist = @ \ {h}], h)

(* Writes tvbnodeallocate makes before its caller's own.                   *)
AllocWrites(s) ==
  IF s.nodefree # 0 /\ s.disk[s.nodefree].ents # <<>> THEN 1 ELSE 0

ivbdatafree(s, r, f) ==
  LET h     == s.datafree
      alloc == tvbnodeallocate(s, f)
      n     == alloc.ret
  IN
  CASE s.datacount = r -> Done([s EXCEPT !.datacount = r - 1], 0)
    [] s.datacount # r /\ h # 0 /\ s.disk[h].tag # "rows" -> Refuse(s)
    [] s.datacount # r /\ h # 0 /\ s.disk[h].tag = "rows"
                       /\ Len(s.disk[h].ents) < Capacity ->
         IF f = 1 THEN Fail(s)
         ELSE Done([s EXCEPT !.disk[h].ents = Append(@, r)], 0)
    [] OTHER ->          \* a new node, in front of the list
         IF n = -1 THEN alloc
         ELSE IF f = AllocWrites(s) + 1 THEN Fail(alloc.s)
         ELSE Done([alloc.s EXCEPT !.disk[n] = RowsBlock(h, r),
                                   !.datafree = n,
                                   !.datalist = @ \union {n}], 0)

tvbdatacountgetnextTwice(s) ==
  Done([s EXCEPT !.datacount = @ + 2], s.datacount + 1)
tvbdatacountgetnextOld(s) == Done([s EXCEPT !.datacount = @ + 1], s.datacount)

tvbdatacountgetnext(s) == Done([s EXCEPT !.datacount = @ + 1], s.datacount + 1)

tvbdataallocate(s, f) ==
  LET h     == s.datafree
      ents  == s.disk[h].ents
      freed == ivbnodefree(s, h, f)
  IN
  CASE h = 0 -> tvbdatacountgetnext(s)
    [] h # 0 /\ s.disk[h].tag # "rows" -> Refuse(s)
    [] h # 0 /\ s.disk[h].tag = "rows" /\ Len(ents) > 1 ->
         IF f = 1 THEN Fail(s)
         ELSE Done([s EXCEPT !.disk[h].ents = Without(@, Len(ents))],
                   ents[Len(ents)])
    [] OTHER ->          \* the last row of the node: the node is free
         IF freed.ret = -1
         THEN Refuse([freed.s EXCEPT
                        !.datalist = {m \in @ : freed.s.disk[m].tag = "rows"}])
         ELSE Done([freed.s EXCEPT !.datafree = s.disk[h].next,
                                   !.datalist = @ \ {h}],
                   ents[1])

-----------------------------------------------------------------------------
(* Callers.  ivbforcedataallocate loops, over the rows it skips past the   *)
(* end of the file ("gap") or over the nodes of the data free list         *)
(* ("scan"); one turn of a loop is a step, with the dictionary lock held.  *)

Idle == [mode |-> "idle", row |-> 0, at |-> 0, prev |-> 0]

Init ==
  /\ idx = [datacount |-> 0, nodecount |-> 3, datafree |-> 0, nodefree |-> 0,
            disk |-> [n \in Node |-> TreeBlock],
            datalist |-> {}, nodelist |-> {}, torn |-> FALSE]
  /\ live = {}
  /\ owned = Fixed
  /\ force = Idle

RowRoom  == idx.datacount < MaxRow \/ idx.datafree # 0     \* bounds
NodeRoom == idx.nodecount < MaxNode \/ idx.nodefree # 0

AllocRow ==      \* iswrite, iswrcurr
  /\ force = Idle
  /\ RowRoom
  /\ \E f \in Faults :
       LET o == tvbdataallocate(idx, f) IN
       /\ idx' = o.s
       /\ live' = IF o.ret = -1 THEN live ELSE live \union {o.ret}
  /\ UNCHANGED <<owned, force>>

FreeRow ==       \* isdelete, a failed iswrite, commit of a delete
  /\ force = Idle
  /\ NodeRoom
  /\ \E r \in live, f \in Faults :
       LET o == ivbdatafree(idx, r, f) IN
       /\ idx' = o.s
       /\ live' = IF o.ret = -1 THEN live ELSE live \ {r}
  /\ UNCHANGED <<owned, force>>

AllocNode ==     \* inodesplit, which then writes keys to the node
  /\ force = Idle
  /\ NodeRoom
  /\ \E f \in Faults :
       LET o == tvbnodeallocate(idx, f) IN
       \/ /\ o.ret = -1
          /\ idx' = o.s
          /\ UNCHANGED owned
       \/ /\ o.ret # -1
          /\ idx' = [o.s EXCEPT !.disk[o.ret] = TreeBlock]
          /\ owned' = owned \union {o.ret}
  /\ UNCHANGED <<live, force>>

FreeNode ==      \* ivbkeydelete, idelnodes
  /\ force = Idle
  /\ \E n \in owned \ Fixed, f \in Faults :
       LET o == ivbnodefree(idx, n, f) IN
       /\ idx' = o.s
       /\ owned' = IF o.ret = -1 THEN owned ELSE owned \ {n}
  /\ UNCHANGED <<live, force>>

ForceBeyond ==   \* recovery of a row past the end of the file
  /\ force = Idle
  /\ \E r \in Row :
       /\ idx.datacount < r
       /\ idx.nodecount + (r - idx.datacount) <= MaxNode      \* bound
       /\ idx' = [idx EXCEPT !.datacount = r]
       /\ force' = [mode |-> "gap", row |-> r, at |-> idx.datacount + 1,
                    prev |-> 0]
  /\ UNCHANGED <<live, owned>>

GapRowLost ==
  /\ force.mode = "gap"
  /\ force.at < force.row
  /\ force' = [force EXCEPT !.at = @ + 1]
  /\ UNCHANGED <<idx, live, owned>>

GapRow ==        \* what ivbdatafree returns is ignored
  /\ force.mode = "gap"
  /\ force.at < force.row
  /\ \E f \in Faults : idx' = ivbdatafree(idx, force.at, f).s
  /\ force' = [force EXCEPT !.at = @ + 1]
  /\ UNCHANGED <<live, owned>>

GapDone ==
  /\ force.mode = "gap"
  /\ force.at = force.row
  /\ live' = live \union {force.row}
  /\ force' = Idle
  /\ UNCHANGED <<idx, owned>>

ForceWithin ==   \* recovery of a row in the file: it is free, take that row
  /\ force = Idle
  /\ \E r \in (1..idx.datacount) \ live :
       force' = [mode |-> "scan", row |-> r, at |-> idx.datafree, prev |-> 0]
  /\ UNCHANGED <<idx, live, owned>>

ScanEnd ==  \* "the nominated row number was simply NOT FREE", or a bad tag
  /\ force.mode = "scan"
  /\ force.at # 0 => idx.disk[force.at].tag # "rows"
  /\ force' = Idle
  /\ UNCHANGED <<idx, live, owned>>

ScanNext ==
  /\ force.mode = "scan"
  /\ force.at # 0
  /\ idx.disk[force.at].tag = "rows"
  /\ \A i \in 1..Len(idx.disk[force.at].ents) :
       idx.disk[force.at].ents[i] # force.row
  /\ force' = [force EXCEPT !.prev = force.at, !.at = idx.disk[force.at].next]
  /\ UNCHANGED <<idx, live, owned>>

ExtractCut(s, n, prev, i, f) ==
  IF prev = 0 THEN Refuse(s)
  ELSE Done([s EXCEPT !.disk[prev].next = 0, !.datalist = @ \ {n}], 0)

ExtractLoop(s, n, prev, i, f) ==
  IF prev = 0 THEN Refuse(s) ELSE Done([s EXCEPT !.disk[prev].next = prev], 0)

(* The row is entry i of node n: taken out of the node; or, the last of    *)
(* the node, the node is taken out of the list.  Only the head of the list *)
(* is given back to the node free list.                                    *)
Extract(s, n, prev, i, f) ==
  LET next  == s.disk[n].next
      freed == ivbnodefree([s EXCEPT !.datafree = next,
                                     !.datalist = @ \ {n}], n, f)
  IN
  CASE Len(s.disk[n].ents) > 1 ->
         IF f = 1 THEN Fail(s)
         ELSE Done([s EXCEPT !.disk[n].ents = Without(@, i)], 0)
    [] Len(s.disk[n].ents) <= 1 /\ prev # 0 ->
         IF f = 1 THEN Fail(s)
         ELSE Done([s EXCEPT !.disk[prev].next = next,
                             !.datalist = @ \ {n}], 0)
    [] OTHER -> freed

ScanFound ==
  /\ force.mode = "scan"
  /\ force.at # 0
  /\ idx.disk[force.at].tag = "rows"
  /\ \E i \in 1..Len(idx.disk[force.at].ents), f \in Faults :
       LET o == Extract(idx, force.at, force.prev, i, f) IN
       /\ idx.disk[force.at].ents[i] = force.row
       /\ idx' = o.s
       /\ live' = IF o.ret = -1 THEN live ELSE live \union {force.row}
  /\ force' = Idle
  /\ UNCHANGED owned

Next ==
  \/ AllocRow \/ FreeRow \/ AllocNode \/ FreeNode
  \/ ForceBeyond \/ GapRow \/ GapDone
  \/ ForceWithin \/ ScanEnd \/ ScanNext \/ ScanFound

Spec == Init /\ [][Next]_vars

(* A call of ivbforcedataallocate goes on: its loops wait for nothing.     *)
Loop == GapRow \/ GapDone \/ ScanEnd \/ ScanNext \/ ScanFound
FairSpec == Spec /\ WF_vars(Loop)

-----------------------------------------------------------------------------
(* Properties.                                                             *)

Listed(s, n)   == {s.disk[n].ents[i] : i \in 1..Len(s.disk[n].ents)}
FreeRows(s)    == UNION {Listed(s, n) : n \in s.datalist}
FreeNodes(s)   == s.nodelist \union UNION {Listed(s, n) : n \in s.nodelist}

(* Every value has its type. *)
TypeOK ==
  /\ idx \in Idx
  /\ live \subseteq Row
  /\ owned \subseteq Node
  /\ force \in [mode : {"idle", "gap", "scan"}, row : 0..MaxRow,
                at : 0..(MaxRow + MaxNode), prev : 0..MaxNode]

(* A row on the data free list holds no data, lies below the row count and *)
(* is listed once: tvbdataallocate never hands out a row somebody uses,    *)
(* whichever block writes of vbindexio.c failed in earlier calls.          *)
RowsExclusive ==
  /\ FreeRows(idx) \intersect live = {}
  /\ FreeRows(idx) \union live \subseteq 1..idx.datacount
  /\ \A n, m \in idx.datalist :
       \A i \in 1..Len(idx.disk[n].ents), j \in 1..Len(idx.disk[m].ents) :
         idx.disk[n].ents[i] = idx.disk[m].ents[j] => n = m /\ i = j

(* A node has one use at a time: a tree's, a carrier of the data free      *)
(* list, or free; and a free node is listed once.  tvbnodeallocate never   *)
(* hands out a node that still carries keys or list entries.               *)
NodesExclusive ==
  /\ owned \intersect idx.datalist = {}
  /\ FreeNodes(idx) \intersect (owned \union idx.datalist) = {}
  /\ FreeNodes(idx) \union owned \union idx.datalist \subseteq 1..idx.nodecount
  /\ \A n, m \in idx.nodelist :
       \A i \in 1..Len(idx.disk[n].ents), j \in 1..Len(idx.disk[m].ents) :
         /\ idx.disk[n].ents[i] \notin idx.nodelist
         /\ idx.disk[n].ents[i] = idx.disk[m].ents[j] => n = m /\ i = j

(* The nodes met by following next pointers from h.                        *)
Chain(s, h) ==
  LET at[k \in 0..MaxNode] ==
        IF k = 0 THEN h
        ELSE IF at[k - 1] = 0 THEN 0 ELSE s.disk[at[k - 1]].next
  IN {at[k] : k \in 0..MaxNode} \ {0}

(* Without write failures the pointers lead to every node of the lists and *)
(* end: no node of a list is lost and no list is circular.                 *)
ListsReachable ==
  ~idx.torn =>
    /\ Chain(idx, idx.datafree) = idx.datalist
    /\ Chain(idx, idx.nodefree) = idx.nodelist

(* Without write failures every row below the row count holds data or is   *)
(* on the data free list: a deleted row's space is always found again.     *)
RowsAccounted ==
  ~idx.torn /\ force.mode # "gap" =>
    live \union FreeRows(idx) = 1..idx.datacount

(* Without write failures neither branch the comments call an integrity    *)
(* error runs: no list node is empty ("INTEGRITY ERROR of sorts"), and     *)
(* ivbforcedataallocate finds the free row a recovery tells it to take     *)
(* ("MAJOR integrity error").                                              *)
NoIntegrityError ==
  ~idx.torn =>
    /\ \A n \in idx.datalist : idx.disk[n].ents # <<>>
    /\ force.mode = "scan" => force.at # 0 /\ idx.disk[force.at].tag = "rows"

(* Whichever block writes of vbindexio.c have failed, a call of            *)
(* ivbforcedataallocate comes to its end: none of them leaves a list that  *)
(* runs in a circle.                                                       *)
ForceEnds == force # Idle ~> force = Idle

(* The allocator keeps the promises of VBSpace.                            *)
Space == INSTANCE VBSpace WITH Rows <- Row, Nodes <- Node, Reserved <- Fixed
SpaceSpec == Space!Spec
=============================================================================
