------------------------------- MODULE VBTree -------------------------------
(***************************************************************************)
(* The tree of one index: libvbisam/vbkeysio.c and vbnodememio.c, and the  *)
(* positioning of isread.c that walks it.                                  *)
(*                                                                         *)
(* A node is a sequence of entries <<key, duplicate number>>; an interior  *)
(* entry names the child whose entries are not above it, and the last      *)
(* entry of an interior node (iishigh) is above every key.  In memory each *)
(* node ends with a dummy entry, position Len + 1 here.  The root keeps    *)
(* its node number (k_rootnode): it is node 1.                             *)
(*                                                                         *)
(* What a handle holds of the tree in memory is `mem', with the marks      *)
(* iistof and iiseof that a node gets when it is loaded; ivbenter drops it *)
(* when another handle changed the table, which is also the state of a     *)
(* handle just opened.  The caller holds the dictionary lock: operations   *)
(* run one at a time.  Block writes do not fail here (VBFreeList).         *)
(***************************************************************************)
EXTENDS Integers, SequencesExt

CONSTANTS
  MaxKey,    (* keys are 1..MaxKey                                         *)
  MaxDup,    (* bound on the duplicate numbers                             *)
  MaxNode,   (* bound on the node numbers                                  *)
  Cap        (* entries a node holds: 2 or 3 with the longest keys         *)

ASSUME TreeAssumption ==
  /\ MaxKey \in Nat /\ MaxDup \in Nat
  /\ MaxNode \in Nat /\ MaxNode >= 1
  /\ Cap \in Nat /\ Cap >= 2

VARIABLES
  tree,      (* the index file: nodes, free node numbers, the ISDUPS flag  *)
  mem,       (* nodes the handle holds -> their iistof and iiseof          *)
  crashed    (* the library followed a NULL pointer: the process is gone   *)

vars == <<tree, mem, crashed>>

Key   == 1..MaxKey
Dup   == 0..MaxDup
Node  == 1..MaxNode
Level == 0..MaxNode

Lowest  == 0               \* vvbkeyvalueset (0, ..): below every key
Highest == MaxKey + 1      \* vvbkeyvalueset (1, ..): above every key
NoDup   == -1              \* duplicate number of an ISFIRST search
AnyDup  == MaxDup + 1      \* VB_MAX_OFF_T

Entry(k, d, to) == [k |-> k, d |-> d, to |-> to]
High(to)        == Entry(Highest, 0, to)
Blank           == [level |-> 0, keys |-> <<>>]

Entries == [k : 1..Highest, d : Dup, to : 0..MaxNode]
Tree    == [node : [Node -> [level : Level, keys : Seq(Entries)]],
            free : SUBSET Node, isdups : BOOLEAN]
Marks   == [tof : BOOLEAN, eof : BOOLEAN]
RootMarks == [tof |-> TRUE, eof |-> TRUE]

-----------------------------------------------------------------------------
(* Sequences of entries.                                                   *)

Take(s, n) == SubSeq(s, 1, n)
Drop(s, n) == SubSeq(s, n + 1, Len(s))

Keys(t, n) == t.node[n].keys
Top(t)     == t.node[1].level
Leaf(p)    == p[0]

-----------------------------------------------------------------------------
(* Search.                                                                 *)

(* A search value against an entry: -1 below, 0 equal, 1 above.            *)
ivbkeycompare(e, k, d) ==
  CASE k < e.k \/ (k = e.k /\ d < e.d) -> -1
    [] k = e.k /\ d = e.d              -> 0
    [] OTHER                           -> 1

(* The bisection in a node of n entries and the dummy, which is above      *)
(* everything, when the search value is above the first c entries and      *)
(* equal to the next if eq.  It starts at the least power of 2 beyond the  *)
(* dummy.  A step looks at position i, unless it is beyond the dummy, and  *)
(* moves by idelta, which each step halves, down to 1 and to 0.            *)
bisect(n, c, eq) ==
  LET cmp(i) == CASE i <= c          -> 1
                  [] i = c + 1 /\ eq -> 0
                  [] OTHER           -> -1
      twice[b \in 0..(n + 1)] == IF b = 0 THEN 1 ELSE 2 * twice[b - 1]
      first == CHOOSE b \in 1..(n + 1) :
                 n + 1 < twice[b] /\ twice[b] <= 2 * (n + 1)
      step[b \in 0..(n + 1)] ==
        IF b = 0 THEN [i \in Int |-> i]
        ELSE LET idelta == twice[b - 1] IN
             [i \in Int |->
                CASE i > n + 1                -> step[b - 1][i - idelta]
                  [] i <= n + 1 /\ cmp(i) = 0 -> i
                  [] OTHER -> step[b - 1][i + idelta * cmp(i)]]
      stop == step[first][twice[first]]
  IN IF cmp(stop) > 0 THEN stop + 1 ELSE stop

(* Where it stops, for every node there can be.                            *)
Settled == [n \in 0..Cap |->
              [c \in 0..n |-> [eq \in BOOLEAN |-> bisect(n, c, eq)]]]

(* The entry itreeload settles on in a node; in an interior node the high  *)
(* one for the dummy.                                                      *)
position(t, n, k, d) ==
  LET s == Keys(t, n)
      c == Cardinality({j \in DOMAIN s : ivbkeycompare(s[j], k, d) = 1})
      i == Settled[Len(s)][c][c < Len(s)
                              /\ ivbkeycompare(s[c + 1], k, d) = 0]
  IN IF t.node[n].level > 0 /\ i > Len(s) THEN Len(s) ELSE i

(* itreeload: the node and the position at each level, root to leaf.       *)
itreeload(t, k, d) ==
  LET at[l \in 0..Top(t)] ==
        IF l = Top(t) THEN 1
        ELSE LET up == at[l + 1] IN Keys(t, up)[position(t, up, k, d)].to
  IN [l \in 0..Top(t) |->
        [n |-> at[l], i |-> position(t, at[l], k, d)]]

(* MarksOfParent, WithoutChildKept and the like are slips that no code     *)
(* here makes and no action uses: variants the properties must tell from   *)
(* it.                                                                     *)
MarksOfParent(t, m, p) ==
  [l \in 0..Top(t) |-> IF p[l].n \in DOMAIN m THEN m[p[l].n] ELSE RootMarks]

(* The nodes of a path that were not in memory are loaded; a child takes   *)
(* the marks of its parent if it hangs on the first or on the last entry.  *)
MarksOf(t, m, p) ==
  LET top == Top(t)
      marks[l \in 0..top] ==
        IF l = top THEN RootMarks
        ELSE IF p[l].n \in DOMAIN m THEN m[p[l].n]
        ELSE LET up == p[l + 1]
                 of == marks[l + 1]
             IN [tof |-> of.tof /\ up.i = 1,
                 eof |-> of.eof /\ up.i = Len(Keys(t, up.n))]
  IN marks

Loaded(t, m, p) ==
  LET onpath == {p[l].n : l \in DOMAIN p}
      marks  == MarksOf(t, m, p)
  IN [n \in DOMAIN m \union onpath |->
        IF n \in onpath THEN marks[CHOOSE l \in DOMAIN p : p[l].n = n]
        ELSE m[n]]

(* The outcome of a search or a step: what it gave, the nodes in memory    *)
(* and the path.  "end" is EENDFILE, "none" ENOREC, "null" a step through  *)
(* a NULL pointer.                                                         *)
Step(st, m, p)  == [st |-> st, mem |-> m, path |-> p]
StepTo(t, m, p) == Step("ok", Loaded(t, m, p), p)

OnDummy(t, p) == Leaf(p).i > Len(Keys(t, Leaf(p).n))
At(t, p)      == Keys(t, Leaf(p).n)[Leaf(p).i]
Same(e, k, d) == e.k = k /\ e.d = d

-----------------------------------------------------------------------------
(* ivbkeyload: the entry after or before the one that w ends at.           *)

Edge(t, p, l, last) == p[l].i = IF last THEN Len(Keys(t, p[l].n)) ELSE 1

(* Down again from position i of level l, by first or by last entries.     *)
Down(t, p, l, i, last) ==
  LET at[x \in 0..l] ==
        IF x = l THEN [n |-> p[l].n, i |-> i]
        ELSE LET up == at[x + 1]
                 n  == Keys(t, up.n)[up.i].to
             IN [n |-> n, i |-> IF last THEN Len(Keys(t, n)) ELSE 1]
  IN [x \in DOMAIN p |-> IF x > l THEN p[x] ELSE at[x]]

(* Up to the first level where there is another entry on that side.        *)
Open(t, p, last) == {l \in 1..Top(t) : ~Edge(t, p, l, ~last)}

Beside(t, p, l, last) ==
  Down(t, p, l, IF last THEN p[l].i - 1 ELSE p[l].i + 1, last)

Climb(t, w, last) ==
  LET open == Open(t, w.path, last) IN
  IF open = {} THEN [w EXCEPT !.st = "null"]
  ELSE StepTo(t, w.mem, Beside(t, w.path, Min(open), last))

Shift(w, by) == [w EXCEPT !.path[0].i = @ + by]

AtLast(t, p) == Leaf(p).i >= Len(Keys(t, Leaf(p).n))

ivbkeyloadNext(t, w) ==
  LET leaf == Leaf(w.path) IN
  CASE leaf.i < Len(Keys(t, leaf.n)) -> Shift(w, 1)
    [] AtLast(t, w.path) /\ w.mem[leaf.n].eof -> [w EXCEPT !.st = "end"]
    [] OTHER -> Climb(t, w, FALSE)

ivbkeyloadPrev(t, w) ==
  LET leaf == Leaf(w.path) IN
  CASE leaf.i > 1 -> Shift(w, -1)
    [] leaf.i = 1 /\ w.mem[leaf.n].tof -> [w EXCEPT !.st = "end"]
    [] OTHER -> Climb(t, w, TRUE)

(* w ends on the row, or it is ENOREC.                                     *)
OnRow(t, w, k, d) ==
  IF w.st = "ok" /\ (OnDummy(t, w.path) \/ ~Same(At(t, w.path), k, d))
  THEN [w EXCEPT !.st = "none"] ELSE w

ivbkeylocaterowFirst(t, m, k, d) ==
  OnRow(t, StepTo(t, m, itreeload(t, k, 0)), k, d)

(* ivbkeylocaterow: from the first place of the key, by ISNEXT, until the  *)
(* row is met or the key ends.  (A handle that is on the row already takes *)
(* the path of that entry, which is the same.)                             *)
Onward(t, w, k, d) ==
  IF w.st # "ok" \/ (~OnDummy(t, w.path)
                      /\ (At(t, w.path).k # k \/ Same(At(t, w.path), k, d)))
  THEN w ELSE ivbkeyloadNext(t, w)

ivbkeylocaterow(t, m, k, d) ==
  LET walk[x \in 0..(MaxDup + 1)] ==
        IF x = 0 THEN StepTo(t, m, itreeload(t, k, 0))
        ELSE Onward(t, walk[x - 1], k, d)
  IN OnRow(t, walk[MaxDup + 1], k, d)

-----------------------------------------------------------------------------
(* Insertion: ivbkeyinsert, and ivbnodesave that may split the node.       *)

ivbnodefree(t, n) ==
  [t EXCEPT !.free = @ \union {n}, !.node = [@ EXCEPT ![n] = Blank]]

(* tvbnodeallocate: any free number will do.                               *)
Allocate(t) == CHOOSE n \in t.free : \A x \in t.free : n <= x

(* The node as ivbnodesave writes it at its end.  The short cut for an     *)
(* index without compression (iquicknodesave) is left out.                 *)
Store(t, n, l, s) ==
  [t EXCEPT !.free = @ \ {n},
            !.node = [@ EXCEPT ![n] = [level |-> l, keys |-> s]]]

(* Where ivbnodesave cuts an overfull node: in the middle, but before the  *)
(* new entry when that is the last, so that ascending keys leave full      *)
(* nodes behind.  An entry of the highest key takes 340 to 501 bytes of a  *)
(* node of 1024, or 255 to 339: the middle falls behind the second entry.  *)
halfway(s, l, j) ==
  CASE j = Len(s)                -> Len(s) - 1
    [] l > 0 /\ j = Len(s) - 1   -> Len(s) - 2
    [] OTHER                     -> 2

Closed(s, l) ==          \* the last entry of an interior node is iishigh
  IF l = 0 THEN s ELSE [s EXCEPT ![Len(s)] = High(@.to)]

inewrootLossy(t, l, s, h) ==
  LET low  == Allocate(t)
      t1   == Store(t, low, l, Closed(Take(s, h), l))
      high == Allocate(t1)
      t2   == Store(t1, high, l, Drop(s, h + 1))
      root == <<Entry(s[h].k, s[h].d, low), High(high)>>
  IN [t |-> Store(t2, 1, l + 1, root), low |-> low, high |-> high]

(* inewroot: both halves move to new nodes below the root.                 *)
inewroot(t, l, s, h) ==
  LET low  == Allocate(t)
      t1   == Store(t, low, l, Closed(Take(s, h), l))
      high == Allocate(t1)
      t2   == Store(t1, high, l, Drop(s, h))
      root == <<Entry(s[h].k, s[h].d, low), High(high)>>
  IN [t |-> Store(t2, 1, l + 1, root), low |-> low, high |-> high]

inodesplitAbove(t, n, l, s, h) ==
  LET low == Allocate(t)
      t1  == Store(t, low, l, Closed(Take(s, h), l))
  IN [t |-> Store(t1, n, l, Drop(s, h)), low |-> low,
      e |-> Entry(s[h + 1].k, s[h + 1].d, low)]

(* A node that is not the root: the low half moves to a new node, and the  *)
(* parent gets an entry for it.                                            *)
inodesplit(t, n, l, s, h) ==
  LET low == Allocate(t)
      t1  == Store(t, low, l, Closed(Take(s, h), l))
  IN [t |-> Store(t1, n, l, Drop(s, h)), low |-> low,
      e |-> Entry(s[h].k, s[h].d, low)]

Moved(t, m, more, e) == [t |-> t, m |-> m, more |-> more, e |-> e]

(* The new node of a split, and the two of a new root, take the marks of   *)
(* the side they are on.                                                   *)
Halves(m, low, high, of) ==
  [x \in DOMAIN m \union {low, high} |->
     CASE x = low  -> [tof |-> of.tof, eof |-> FALSE]
       [] x = high -> [tof |-> FALSE, eof |-> of.eof]
       [] OTHER    -> m[x]]

RootSplit(g, r) ==
  Moved(r.t, Halves(g.m, r.low, r.high, RootMarks), FALSE, g.e)

NodeSplit(g, n, c) ==
  Moved(c.t, Halves(g.m, c.low, n, g.m[n]), TRUE, c.e)

Saved(g, n, l, s, i) ==
  CASE Len(s) <= Cap -> Moved(Store(g.t, n, l, s), g.m, FALSE, g.e)
    [] Len(s) > Cap /\ n = 1 ->
         RootSplit(g, inewroot(g.t, l, s, halfway(s, l, i)))
    [] OTHER -> NodeSplit(g, n, inodesplit(g.t, n, l, s, halfway(s, l, i)))

(* The entry g.e takes the place p[l].i of the node at level l.            *)
ivbnodesave(g, p, l) ==
  Saved(g, p[l].n, l, InsertAt(Keys(g.t, p[l].n), p[l].i, g.e), p[l].i)

ivbkeyinsert(t, m, p, e) ==
  LET upto[l \in -1..Top(t)] ==
        IF l = -1 THEN Moved(t, m, TRUE, e)
        ELSE IF upto[l - 1].more THEN ivbnodesave(upto[l - 1], p, l)
        ELSE upto[l - 1]
  IN upto[Top(t)]

-----------------------------------------------------------------------------
(* Deletion: ivbkeydelete.                                                 *)

KeptAll(t, m) == m

(* The nodes that stay in memory when n is freed with what hangs below it. *)
Kept(t, m) == [x \in DOMAIN m \ t.free |-> m[x]]

WithoutChildKept(s, i) == IF i < Len(s) THEN RemoveAt(s, i)
                          ELSE RemoveAt(s, i - 1)

(* The entry i of an interior node goes.  The high entry stays and takes   *)
(* the child of the one before it.                                         *)
WithoutChild(s, i) ==
  IF i < Len(s) THEN RemoveAt(s, i)
  ELSE [RemoveAt(s, i - 1) EXCEPT ![i - 1] = High(s[i - 1].to)]

(* A root with one child takes over what is in it; only the root is kept   *)
(* in memory.                                                              *)
Collapsed(t, s) ==
  LET c == s[1].to IN
  ivbnodefree(Store(t, 1, t.node[c].level, Keys(t, c)), c)

(* The entry at level l of the path goes; g.more: the node became empty    *)
(* and goes too.                                                           *)
removed(g, p, l) ==
  LET n == p[l].n
      s == Keys(g.t, n)
      r == IF l = 0 THEN RemoveAt(s, p[l].i) ELSE WithoutChild(s, p[l].i)
      emptied == ivbnodefree(g.t, n)
  IN
  CASE Len(s) = 1 /\ (n # 1 \/ l > 0) ->
         Moved(emptied, Kept(emptied, g.m), TRUE, g.e)
    [] Len(s) = 2 /\ n = 1 /\ l > 0 ->
         Moved(Collapsed(g.t, r), [x \in {1} |-> RootMarks], FALSE, g.e)
    [] OTHER -> Moved(Store(g.t, n, l, r), g.m, FALSE, g.e)

(* Where g.more is left above the root the root was freed, and the code    *)
(* goes on with its parent, NULL.                                          *)
ivbkeydelete(t, m, p) ==
  LET upto[l \in -1..Top(t)] ==
        IF l = -1 THEN Moved(t, m, TRUE, High(0))
        ELSE LET g == upto[l - 1] IN IF g.more THEN removed(g, p, l) ELSE g
  IN upto[Top(t)]

-----------------------------------------------------------------------------
(* The operations on the index.                                            *)

Init ==
  /\ tree \in [node : {[n \in Node |-> Blank]}, free : {Node \ {1}},
               isdups : BOOLEAN]
  /\ mem = [n \in {} |-> RootMarks]
  /\ crashed = FALSE

Crash == crashed' = TRUE /\ UNCHANGED <<tree, mem>>
Hold(m) == mem' = m /\ UNCHANGED <<tree, crashed>>

(* irowinsert on this index: the entry before the first greater key tells  *)
(* the duplicate number, or EDUPL.                                         *)
NumberOf(t, w, k) ==
  IF w.st = "ok" /\ At(t, w.path).k = k THEN At(t, w.path).d + 1 ELSE 0

Before(k) ==
  ivbkeyloadPrev(tree, StepTo(tree, mem, itreeload(tree, k, AnyDup)))

Changed(g) ==
  /\ tree' = g.t
  /\ mem' = g.m
  /\ UNCHANGED crashed

InsertedAt(w, e) == ivbkeyinsert(tree, w.mem, w.path, e)

Inserted(k, w) ==
  LET d == NumberOf(tree, w, k) IN
  /\ w.st # "null"
  /\ IF d > 0 /\ ~tree.isdups
     THEN Hold(w.mem)                                           \* EDUPL
     ELSE /\ d <= MaxDup
          /\ Cardinality(tree.free) >= Top(tree) + 2
          /\ Changed(InsertedAt(StepTo(tree, w.mem, itreeload(tree, k, d)),
                                Entry(k, d, 0)))

InsertFrom(k, w) ==
  \/ Inserted(k, w)
  \/ w.st = "null" /\ Crash         \* memcmp (pskey->ckey, ..), no pskey

Insert(k) == ~crashed /\ InsertFrom(k, Before(k))

(* irowdelete on this index.                                               *)
Deleted(g) ==
  \/ ~g.more /\ Changed(g)
  \/ g.more /\ Crash                          \* pstree->psparent is NULL

DeleteAt(w) ==
  /\ w.st = "ok"
  /\ Deleted(ivbkeydelete(tree, w.mem, w.path))

Delete(k, d) == ~crashed /\ DeleteAt(ivbkeylocaterow(tree, mem, k, d))

(* isread on this index.                                                   *)
Modes == {"first", "last", "equal", "gteq", "great"}

OnKeyAny(t, w, k) == IF w.st = "end" THEN [w EXCEPT !.st = "none"] ELSE w

OnKey(t, w, k) ==          \* ISEQUAL: is it a row of the key at all?
  IF w.st = "end" \/ (w.st = "ok" /\ At(t, w.path).k # k)
  THEN [w EXCEPT !.st = "none"] ELSE w

PastDummy(t, w) == IF OnDummy(t, w.path) THEN ivbkeyloadNext(t, w) ELSE w

EndOnDummy(t, w) ==
  IF OnDummy(t, w.path) THEN [w EXCEPT !.st = "end"] ELSE w

isread(t, m, mode, k) ==
  LET search(x, d) == StepTo(t, m, itreeload(t, x, d)) IN
  CASE mode = "first" -> EndOnDummy(t, search(Lowest, NoDup))
    [] mode = "last"  -> ivbkeyloadPrev(t, search(Highest, AnyDup))
    [] mode = "equal" -> OnKey(t, PastDummy(t, search(k, 0)), k)
    [] mode = "gteq"  -> EndOnDummy(t, search(k, 0))
    [] mode = "great" -> EndOnDummy(t, search(k, AnyDup))

(* ISCURR, ISNEXT and ISPREV: the current row is located first.            *)
Moves == {"curr", "next", "prev"}

isreadfrom(t, w, move) ==
  CASE w.st # "ok" \/ move = "curr"  -> w
    [] w.st = "ok" /\ move = "next"  -> ivbkeyloadNext(t, w)
    [] w.st = "ok" /\ move = "prev"  -> ivbkeyloadPrev(t, w)

Outcome(w) ==
  /\ ~crashed
  /\ IF w.st = "null" THEN Crash ELSE Hold(w.mem)

Read(k) == \E mode \in Modes : Outcome(isread(tree, mem, mode, k))

Move(k, d) ==
  \E move \in Moves :
    Outcome(isreadfrom(tree, ivbkeylocaterow(tree, mem, k, d), move))

(* The tree in memory is dropped: the table was changed by another handle, *)
(* or it is closed and opened again.                                       *)
Reload ==
  /\ ~crashed
  /\ Hold([n \in {} |-> RootMarks])

Next ==
  \/ \E k \in Key : Insert(k) \/ Read(k)
  \/ \E k \in Key, d \in Dup : Delete(k, d) \/ Move(k, d)
  \/ Reload

Spec == Init /\ [][Next]_vars

-----------------------------------------------------------------------------
(* Properties.                                                             *)

TypeOK ==
  /\ tree \in Tree
  /\ DOMAIN mem \subseteq Node \ tree.free
  /\ \A n \in DOMAIN mem : mem[n] \in Marks
  /\ crashed \in BOOLEAN

Pair(e)  == <<e.k, e.d>>
PairsOf(N) == UNION {{Pair(e) : e \in Range(Keys(tree, n))} : n \in N}
Pairs    == PairsOf({n \in Node \ tree.free : tree.node[n].level = 0})

Index == INSTANCE VBIndex WITH entries <- Pairs, isdups <- tree.isdups

(* The tree behaves as an index: splits and collapses neither lose nor     *)
(* invent an entry, and a new duplicate comes after the ones that are      *)
(* there (irowinsert looks for them with one search and one step back).    *)
ImplementsIndex == Index!Spec

Slots == {x \in Node \X (1..Cap) :
            /\ tree.node[x[1]].level > 0
            /\ x[2] <= Len(Keys(tree, x[1]))}
Child(x) == Keys(tree, x[1])[x[2]].to

(* Every node is free, or hangs on exactly one entry of a node one level   *)
(* above: splits, emptied nodes and root changes neither lose a node nor   *)
(* free one that is in use.                                                *)
NodesAccounted ==
  ~crashed =>
    /\ \A x, y \in Slots : Child(x) = Child(y) => x = y
    /\ \A x \in Slots :
         tree.node[Child(x)].level = tree.node[x[1]].level - 1
    /\ {1} \union {Child(x) : x \in Slots} = Node \ tree.free

(* The leaves below a node.                                                *)
Leaves(t, n) ==
  LET at[x \in 0..t.node[n].level] ==
        IF x = 0 THEN {n}
        ELSE {e.to : e \in UNION {Range(Keys(t, m)) : m \in at[x - 1]}}
  IN at[t.node[n].level]

Below(x, y) == x[1] < y[1] \/ (x[1] = y[1] /\ x[2] < y[2])

(* The entries of a node ascend, and those below an interior entry are     *)
(* above the entry before it and not above it, whatever was split, emptied *)
(* or moved to the high entry: this is what the search relies on.          *)
TreeOrdered ==
  /\ \A n \in Node : \A i \in 2..Len(Keys(tree, n)) :
       Below(Pair(Keys(tree, n)[i - 1]), Pair(Keys(tree, n)[i]))
  /\ \A x \in Slots :
       LET s == Keys(tree, x[1]) IN
       \A y \in PairsOf(Leaves(tree, Child(x))) :
         /\ ~Below(Pair(s[x[2]]), y)
         /\ x[2] > 1 => Below(Pair(s[x[2] - 1]), y)

(* Every entry is found from its key: isdelete, isrewrite, ISNEXT and      *)
(* ISPREV depend on ivbkeylocaterow, which searches for the key and steps  *)
(* on from where the search ends, in a tree whose separators may name      *)
(* entries deleted long ago.                                               *)
RowsFound ==
  ~crashed =>
    \A x \in Pairs : ivbkeylocaterow(tree, mem, x[1], x[2]).st = "ok"

(* A step from an entry never skips one and never ends early: where the    *)
(* marks in memory are stale the process dies rather than answer wrong.    *)
Least(y, X)    == y \in X /\ \A z \in X : ~Below(z, y)
Greatest(y, X) == y \in X /\ \A z \in X : ~Below(y, z)

NextSound(x, w) ==
  LET up == {y \in Pairs : Below(x, y)} IN
  /\ w.st = "ok" => Least(Pair(At(tree, w.path)), up)
  /\ w.st = "end" => up = {}

PrevSound(x, w) ==
  LET down == {y \in Pairs : Below(y, x)} IN
  /\ w.st = "ok" => Greatest(Pair(At(tree, w.path)), down)
  /\ w.st = "end" => down = {}

StepsSound(x, w) ==
  /\ NextSound(x, isreadfrom(tree, w, "next"))
  /\ PrevSound(x, isreadfrom(tree, w, "prev"))

MovesSound ==
  ~crashed =>
    \A x \in Pairs : StepsSound(x, ivbkeylocaterow(tree, mem, x[1], x[2]))

(* isread by key: ISEQUAL finds a row of the key if there is one and the   *)
(* others, when they find a row, find the right one.  An early EENDFILE of *)
(* ISGTEQ and ISGREAT is not excluded (GtEqFinds).                         *)
Wanted(mode, k) ==
  {x \in Pairs : CASE mode \in {"first", "last"} -> TRUE
                   [] mode = "equal" -> x[1] = k
                   [] mode = "gteq"  -> x[1] >= k
                   [] mode = "great" -> x[1] > k}

ReadSound(mode, X, w) ==
  /\ w.st = "none" => X = {}
  /\ w.st = "ok" => IF mode = "last" THEN Greatest(Pair(At(tree, w.path)), X)
                    ELSE Least(Pair(At(tree, w.path)), X)

ReadsSound ==
  ~crashed =>
    \A mode \in Modes, k \in Key :
      ReadSound(mode, Wanted(mode, k), isread(tree, mem, mode, k))

(* vbisam.h: ISGTEQ is "Position to >= value".  It should end only when no *)
(* entry is that high.                                                     *)
GtEqFinds ==
  ~crashed =>
    \A k \in Key :
      isread(tree, mem, "gteq", k).st = "end" => Wanted("gteq", k) = {}
=============================================================================
