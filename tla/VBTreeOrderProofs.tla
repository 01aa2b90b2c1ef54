------------------------- MODULE VBTreeOrderProofs -------------------------
(***************************************************************************)
(* Proofs about VBTree, of the order of its entries: TreeOrdered,          *)
(* RowsFound, MovesSound, ReadsSound, and that the tree implements         *)
(* VBIndex. They hold for every number of nodes, every capacity, any keys  *)
(* and duplicate numbers, and trees of any height.                         *)
(*                                                                         *)
(* A key and a duplicate number are one number here, the rank of the       *)
(* entry. The order is said with two numbers for each node, the span of    *)
(* its entries (lo and hi of Ordered). An entry of an interior node has    *)
(* the span of its child below it and the spans of the children behind     *)
(* above it; where the high entry took over the child of an entry that     *)
(* went, spans only got wider. TreeOrdered alone is not inductive: it says *)
(* nothing of a separator between a leaf and its neighbour, and an         *)
(* insertion relies on the room there is between two spans (Widen: a span  *)
(* may take the value that is searched for, whatever path leads to it).    *)
(*                                                                         *)
(* The other half of the invariant are the marks in memory (Marked): a     *)
(* node that is in memory has its parent in memory, and a mark iistof or   *)
(* iiseof only if the parent has it and the node is at that edge. So a     *)
(* step that ends on a mark is at the end of the tree. A mark may be       *)
(* missing where it should be, and then a step at the end of the tree goes *)
(* on and follows a NULL pointer: that is what the properties leave to it. *)
(*                                                                         *)
(* InsertOrder and DeleteOrder take an operation up the levels as          *)
(* SaveStage and RemoveStage of VBTreeProofs do. Between two levels the    *)
(* tree is ordered all the same, with the new half of a split node hanging *)
(* on nothing: Sliding says where its span lies, Sinking that only the     *)
(* entry that was deleted is gone. OrderHolds gathers the invariant;       *)
(* NextOrder says besides what a step does to the entries.                 *)
(***************************************************************************)
EXTENDS VBTreeProofs

-----------------------------------------------------------------------------
(* The order of the tree, and searches and steps in it.                    *)

(* More than there are duplicate numbers, those of a search included.      *)
W == MaxDup + 4
(* The rank of a key and duplicate number, and of an entry. Roof is that of*)
(* a high entry.                                                           *)
Rank(k, d) == k * W + d
RankOf(e)  == Rank(e.k, e.d)
Roof       == Rank(Highest, 0)

(* Ranks are ordered as keys and, with equal keys, duplicate numbers are.  *)
LEMMA RankOrder ==
  ASSUME NEW k \in Int, NEW j \in Int,
         NEW d \in -1..(MaxDup + 1), NEW c \in -1..(MaxDup + 1)
  PROVE  /\ Rank(k, d) \in Int
         /\ Rank(k, d) < Rank(j, c) <=> k < j \/ (k = j /\ d < c)
         /\ Rank(k, d) = Rank(j, c) <=> k = j /\ d = c
<1>1. MaxDup \in Nat /\ W \in Nat /\ W >= 4 /\ W = MaxDup + 4
  BY TreeAssumption DEF W
<1> HIDE DEF W
<1>2. ASSUME NEW a \in Int, NEW b \in Int, a < b,
             NEW u \in -1..(MaxDup + 1), NEW v \in -1..(MaxDup + 1)
      PROVE  a * W + u < b * W + v
  <2> DEFINE x == b - a - 1
  <2>1. x \in Nat /\ b = a + 1 + x
    BY <1>2
  <2>2. x * W \in Nat
    BY <1>1, <2>1
  <2>3. (a + 1 + x) * W = a * W + W + x * W /\ a * W \in Int
    BY <1>1, <1>2, <2>1
  <2> HIDE DEF x
  <2>4. b * W = a * W + W + x * W
    BY <2>1, <2>3
  <2>5. QED
    BY <1>1, <1>2, <2>2, <2>3, <2>4
<1>3. k * W \in Int /\ j * W \in Int
  BY <1>1
<1>4. k < j \/ j < k \/ k = j
  OBVIOUS
<1>5. CASE k < j
  BY <1>2, <1>3, <1>5 DEF Rank
<1>6. CASE j < k
  BY <1>2, <1>3, <1>6 DEF Rank
<1>7. CASE k = j
  BY <1>1, <1>3, <1>7 DEF Rank
<1>8. QED
  BY <1>4, <1>5, <1>6, <1>7

(* The rank of an entry is below the roof if it has a key of a row.        *)
LEMMA EntryRank ==
  ASSUME NEW e \in Entries
  PROVE  /\ e.k \in Int /\ e.d \in -1..(MaxDup + 1) /\ RankOf(e) \in Int
         /\ e.k \in Key <=> RankOf(e) < Roof
         /\ e.d \in Dup /\ e.k \in 1..Highest
<1>1. e.k \in 1..Highest /\ e.d \in Dup /\ MaxDup \in Nat /\ MaxKey \in Nat
  BY TreeAssumption DEF Entries
<1>2. /\ e.k \in Int /\ e.d \in -1..(MaxDup + 1) /\ 0 \in -1..(MaxDup + 1)
      /\ Highest \in Int /\ Highest = MaxKey + 1 /\ e.d >= 0
  BY <1>1 DEF Dup, Highest
<1>3. Rank(e.k, e.d) \in Int
  BY <1>2, RankOrder
<1>4. Rank(e.k, e.d) < Rank(Highest, 0)
        <=> e.k < Highest \/ (e.k = Highest /\ e.d < 0)
  BY <1>2, RankOrder
<1>5. e.k \in Key <=> e.k < Highest
  BY <1>1, <1>2 DEF Key
<1>6. QED
  BY <1>1, <1>2, <1>3, <1>4, <1>5 DEF RankOf, Roof

(* ivbkeycompare, in ranks.                                                *)
LEMMA CompareFacts ==
  ASSUME NEW e \in Entries, NEW k \in Int, NEW d \in -1..(MaxDup + 1)
  PROVE  /\ ivbkeycompare(e, k, d) = 1 <=> RankOf(e) < Rank(k, d)
         /\ Rank(k, d) \in Int
<1>1. e.k \in Int /\ e.d \in -1..(MaxDup + 1)
  BY EntryRank
<1>2. MaxDup \in Nat
  BY TreeAssumption
<1>3. Rank(e.k, e.d) < Rank(k, d) <=> e.k < k \/ (e.k = k /\ e.d < d)
  BY <1>1, RankOrder
<1>4. e.d \in Int /\ d \in Int
  BY <1>1, <1>2
<1>5. ivbkeycompare(e, k, d) = 1 <=> e.k < k \/ (e.k = k /\ e.d < d)
  <2>1. CASE k < e.k \/ (k = e.k /\ d < e.d)
    <3>0. ~(k = e.k /\ d = e.d)
      BY <1>1, <1>4, <2>1
    <3>1. ivbkeycompare(e, k, d) = -1
      BY <2>1, <3>0, Zenon DEF ivbkeycompare
    <3>2. QED
      BY <1>1, <1>4, <2>1, <3>1
  <2>2. CASE k = e.k /\ d = e.d
    <3>1. ~(k < e.k \/ (k = e.k /\ d < e.d))
      BY <1>1, <1>4, <2>2
    <3>2. ivbkeycompare(e, k, d) = 0
      BY <2>2, <3>1, Zenon DEF ivbkeycompare
    <3>3. QED
      BY <1>1, <1>4, <2>2, <3>2
  <2>3. CASE ~(k < e.k \/ (k = e.k /\ d < e.d)) /\ ~(k = e.k /\ d = e.d)
    <3>1. ivbkeycompare(e, k, d) = 1
      BY <2>3, Zenon DEF ivbkeycompare
    <3>2. QED
      BY <1>1, <1>4, <2>3, <3>1
  <2>4. QED
    BY <2>1, <2>2, <2>3
<1>6. QED
  BY <1>3, <1>5, RankOrder DEF RankOf

(* The entries of a node ascend.                                           *)
Ascends(s) == \A i, j \in DOMAIN s : i < j => RankOf(s[i]) < RankOf(s[j])

(* A set of places that is closed downwards is a first segment.            *)
LEMMA Segment ==
  ASSUME NEW n \in Nat, NEW P \in SUBSET (1..n),
         \A i, j \in 1..n : j \in P /\ i < j => i \in P
  PROVE  /\ P = 1..Cardinality(P) /\ Cardinality(P) \in 0..n
<1>1. PICK m \in 0..n : P = 1..m
  <2>1. CASE P = {}
    <3>1. P = 1..0 /\ 0 \in 0..n
      BY <2>1
    <3>2. QED
      BY <3>1
  <2>2. CASE P # {}
    <3>1. P \in SUBSET Nat /\ \A y \in P : y <= n
      OBVIOUS
    <3>2. Max(P) \in P /\ \A y \in P : y <= Max(P)
      BY <2>2, <3>1, MaxNumber
    <3>3. PICK m \in 1..n : m \in P /\ \A y \in P : y <= m
      BY <3>2
    <3>4. P = 1..m
      <4>1. ASSUME NEW x \in 1..m PROVE x \in P
        <5>1. x \in 1..n /\ (x < m \/ x = m)
          OBVIOUS
        <5>2. QED
          BY <3>3, <5>1
      <4>2. ASSUME NEW x \in P PROVE x \in 1..m
        BY <3>3
      <4>3. QED
        BY <4>1, <4>2
    <3>5. QED
      BY <3>4
  <2>3. QED
    BY <2>1, <2>2
<1>2. Cardinality(1..m) = m
  <2>1. 1 \in Int /\ m \in Int
    OBVIOUS
  <2>2. Cardinality(1..m) = IF 1 > m THEN 0 ELSE m - 1 + 1
    BY <2>1, FS_Interval
  <2>3. QED
    BY <2>2
<1>3. QED
  BY <1>1, <1>2

(* In a node in order the search settles behind the entries below the      *)
(* value.                                                                  *)
LEMMA PositionSplits ==
  ASSUME NEW t, NEW n, NEW k \in Int, NEW d \in -1..(MaxDup + 1),
         Keys(t, n) \in Seq(Entries), Len(Keys(t, n)) <= Cap,
         Ascends(Keys(t, n)), t.node[n].level \in Nat
  PROVE  LET s == Keys(t, n)
             i == position(t, n, k, d) IN
         /\ \A j \in 1..Len(s) :
              /\ j < i => RankOf(s[j]) < Rank(k, d)
              /\ j >= i /\ (t.node[n].level = 0 \/ j < Len(s)) =>
                   Rank(k, d) <= RankOf(s[j])
<1> DEFINE s == Keys(t, n)
           P == Passed(s, k, d)
           c == Cardinality(P)
           i == position(t, n, k, d)
<1>1. i = IF t.node[n].level > 0 /\ c = Len(s) THEN Len(s) ELSE c + 1
  BY PositionExact
<1>2. s \in Seq(Entries) /\ Len(s) \in Nat /\ DOMAIN s = 1..Len(s)
      /\ \A j \in 1..Len(s) : s[j] \in Entries
  BY ElementOfSeq
<1>3. Ascends(s)
  OBVIOUS
<1> HIDE DEF s, i
<1>4. \A j \in 1..Len(s) : /\ RankOf(s[j]) \in Int /\ Rank(k, d) \in Int
                           /\ j \in P <=> RankOf(s[j]) < Rank(k, d)
  BY <1>2, EntryRank, CompareFacts DEF Passed
<1>5. P = 1..c /\ c \in 0..Len(s)
  <2>1. P \in SUBSET (1..Len(s))
    BY <1>2 DEF Passed
  <2>2. \A x, y \in 1..Len(s) : y \in P /\ x < y => x \in P
    BY <1>2, <1>3, <1>4, SMTT(30) DEF Ascends
  <2> HIDE DEF P
  <2>3. QED
    BY <1>2, <2>1, <2>2, Segment
<1> HIDE DEF P, c
<1>0. t.node[n].level \in Nat
  OBVIOUS
<1>6. ASSUME NEW j \in 1..Len(s)
      PROVE  /\ j < i => RankOf(s[j]) < Rank(k, d)
             /\ j >= i /\ (t.node[n].level = 0 \/ j < Len(s)) =>
                  Rank(k, d) <= RankOf(s[j])
  <2>0. PICK z \in Nat : z = Len(s)
    BY <1>2
  <2>1. j < i => j \in P
    <3>1. j \in 1..z /\ c \in 0..z /\ ((i = z /\ c = z) \/ i = c + 1)
      BY <1>1, <1>5, <2>0
    <3>2. j < i => j \in 1..c
      BY <3>1
    <3>3. QED
      BY <1>5, <3>2
  <2>2. j >= i /\ (t.node[n].level = 0 \/ j < Len(s)) => j \notin P
    <3>1. j \in 1..z /\ c \in 0..z
      BY <1>5, <2>0
    <3>2. CASE t.node[n].level = 0
      <4>1. i = c + 1
        BY <1>1, <3>2
      <4>2. QED
        BY <1>5, <3>1, <4>1
    <3>3. CASE t.node[n].level > 0
      <4>1. i = IF c = z THEN z ELSE c + 1
        BY <1>1, <2>0, <3>3
      <4>2. j >= i /\ j < z => j \notin 1..c
        BY <3>1, <4>1
      <4>3. QED
        BY <1>5, <2>0, <3>3, <4>2
    <3>4. QED
      BY <1>0, <3>2, <3>3
  <2>3. QED
    BY <1>4, <2>1, <2>2
<1>7. QED
  BY <1>6 DEF s, i

(* The child of entry i of a node with entries s: what is below it is      *)
(* above the entry before and not above the entry itself, and within what  *)
(* is below the node.                                                      *)
Fits(s, i, lo, hi, a, b) ==
  LET c == s[i].to IN
  /\ a <= lo[c] /\ hi[c] <= b
  /\ hi[c] <= RankOf(s[i])
  /\ i > 1 => RankOf(s[i - 1]) < lo[c]

(* The entries s of a node at level l are in order and from a to b.        *)
KeysOrdered(l, s, lo, hi, a, b) ==
  /\ Ascends(s)
  /\ a <= b /\ b <= Roof
  /\ l = 0 =>
       \A i \in DOMAIN s : /\ a <= RankOf(s[i]) /\ RankOf(s[i]) <= b
                           /\ RankOf(s[i]) < Roof
  /\ l > 0 =>
       /\ RankOf(s[Len(s)]) = Roof
       /\ \A i \in 1..(Len(s) - 1) : a <= RankOf(s[i]) /\ RankOf(s[i]) < b
       /\ \A i \in DOMAIN s : Fits(s, i, lo, hi, a, b)

(* The entries of a node, in its span.                                     *)
NodeOrdered(t, lo, hi, n) ==
  KeysOrdered(LevelOf(t, n), Keys(t, n), lo, hi, lo[n], hi[n])

(* Everything in the leaves below node n is from lo[n] to hi[n].           *)
Ordered(t, lo, hi) ==
  /\ lo \in [Node -> Int] /\ hi \in [Node -> Int]
  /\ \A n \in InUse(t) : NodeOrdered(t, lo, hi, n)

(* The order of one node.                                                  *)
LEMMA OrderFacts ==
  ASSUME NEW t, Sound(t), NEW lo, NEW hi, Ordered(t, lo, hi),
         NEW n \in InUse(t)
  PROVE  LET s == Keys(t, n) IN
         /\ n \in Node /\ Len(s) \in Nat /\ Len(s) <= Cap
         /\ lo[n] \in Int /\ hi[n] \in Int /\ Roof \in Int
         /\ lo[n] <= hi[n] /\ hi[n] <= Roof
         /\ \A i \in 1..Len(s) : s[i] \in Entries /\ RankOf(s[i]) \in Int
         /\ Ascends(s) /\ DOMAIN s = 1..Len(s)
         /\ \A i, j \in 1..Len(s) : i < j => RankOf(s[i]) < RankOf(s[j])
<1> DEFINE s == Keys(t, n)
<1>1. /\ n \in Node /\ s \in Seq(Entries) /\ Len(s) \in 0..Cap
      /\ DOMAIN s = 1..Len(s)
  BY UsedFacts
<1>2. NodeOrdered(t, lo, hi, n) /\ lo \in [Node -> Int] /\ hi \in [Node -> Int]
  BY DEF Ordered
<1>3. \A i \in 1..Len(s) : s[i] \in Entries /\ RankOf(s[i]) \in Int
  BY <1>1, ElementOfSeq, EntryRank
<1>4. Roof \in Int
  <2>1. Highest \in Int /\ 0 \in -1..(MaxDup + 1)
    BY TreeAssumption DEF Highest
  <2>2. QED
    BY <2>1, RankOrder DEF Roof
<1>5. Ascends(s) /\ lo[n] <= hi[n] /\ hi[n] <= Roof
  BY <1>2 DEF NodeOrdered, KeysOrdered
<1>6. \A i, j \in 1..Len(s) : i < j => RankOf(s[i]) < RankOf(s[j])
  BY <1>1, <1>5 DEF Ascends
<1>7. Len(s) \in Nat /\ Len(s) <= Cap /\ lo[n] \in Int /\ hi[n] \in Int
  BY <1>1, <1>2, TreeAssumption
<1>8. QED
  BY <1>1, <1>3, <1>4, <1>5, <1>6, <1>7

(* The entries of a leaf lie in its span.                                  *)
LEMMA OrderLeaf ==
  ASSUME NEW t, Sound(t), NEW lo, NEW hi, Ordered(t, lo, hi),
         NEW n \in InUse(t), LevelOf(t, n) = 0, NEW i \in 1..Len(Keys(t, n))
  PROVE  LET y == RankOf(Keys(t, n)[i]) IN
         y \in Int /\ lo[n] <= y /\ y <= hi[n] /\ y < Roof
<1>1. NodeOrdered(t, lo, hi, n)
  BY DEF Ordered
<1>2. DOMAIN Keys(t, n) = 1..Len(Keys(t, n)) /\ RankOf(Keys(t, n)[i]) \in Int
  BY OrderFacts
<1>3. QED
  BY <1>1, <1>2 DEF NodeOrdered, KeysOrdered

(* The spans of the children of an interior node, and its entries between  *)
(* them.                                                                   *)
LEMMA OrderInner ==
  ASSUME NEW t, Sound(t), NEW lo, NEW hi, Ordered(t, lo, hi),
         NEW n \in InUse(t), LevelOf(t, n) > 0, NEW i \in 1..Len(Keys(t, n))
  PROVE  LET s == Keys(t, n)
             c == s[i].to IN
         /\ c \in InUse(t) /\ lo[c] \in Int /\ hi[c] \in Int
         /\ lo[n] <= lo[c] /\ hi[c] <= hi[n] /\ lo[c] <= hi[c]
         /\ hi[c] <= RankOf(s[i])
         /\ i > 1 => i - 1 \in 1..Len(s) /\ RankOf(s[i - 1]) < lo[c]
         /\ i < Len(s) => lo[n] <= RankOf(s[i]) /\ RankOf(s[i]) < hi[n]
         /\ RankOf(s[Len(s)]) = Roof
<1> DEFINE s == Keys(t, n)
           c == s[i].to
<1>1. NodeOrdered(t, lo, hi, n)
  BY DEF Ordered
<1>2. DOMAIN s = 1..Len(s) /\ Len(s) \in Nat
  BY OrderFacts
<1>3. Fits(s, i, lo, hi, lo[n], hi[n]) /\ RankOf(s[Len(s)]) = Roof
  BY <1>1, <1>2 DEF NodeOrdered, KeysOrdered
<1>4. c \in InUse(t)
  BY ChildFacts
<1>5. lo[c] \in Int /\ hi[c] \in Int /\ lo[c] <= hi[c]
  BY <1>4, OrderFacts
<1>6. i < Len(s) => lo[n] <= RankOf(s[i]) /\ RankOf(s[i]) < hi[n]
  <2>1. i < Len(s) => i \in 1..(Len(s) - 1)
    BY <1>2
  <2>2. QED
    BY <1>1, <2>1 DEF NodeOrdered, KeysOrdered
<1>7. i > 1 => i - 1 \in 1..Len(s)
  BY <1>2
<1>8. QED
  BY <1>3, <1>4, <1>5, <1>6, <1>7 DEF Fits

(* The nodes of a path.                                                    *)
LEMMA PathNode ==
  ASSUME NEW t, Sound(t), NEW p, PathOf(t, p), NEW l \in 0..Top(t)
  PROVE  /\ p[l].n \in InUse(t) /\ LevelOf(t, p[l].n) = l
         /\ Len(Keys(t, p[l].n)) \in Nat /\ p[l].i \in Nat
         /\ p[l].i >= 1 /\ p[l].i <= Len(Keys(t, p[l].n)) + 1
         /\ Top(t) \in Nat
         /\ l > 0 => /\ p[l].i \in 1..Len(Keys(t, p[l].n))
                     /\ Keys(t, p[l].n)[p[l].i].to = p[l - 1].n
                     /\ l - 1 \in 0..Top(t)
<1>1. p[l].n \in InUse(t) /\ LevelOf(t, p[l].n) = l
      /\ p[l].i \in 1..(Len(Keys(t, p[l].n)) + 1)
  BY DEF PathOf
<1>2. Top(t) \in Nat /\ Len(Keys(t, p[l].n)) \in Nat
  BY <1>1, TopFacts, UsedFacts
<1>3. l > 0 => l \in 1..Top(t) /\ l - 1 \in 0..Top(t)
  BY <1>2
<1>4. l > 0 => /\ p[l].i <= Len(Keys(t, p[l].n))
               /\ Keys(t, p[l].n)[p[l].i].to = p[l - 1].n
  BY <1>3 DEF PathOf
<1>5. QED
  BY <1>1, <1>2, <1>3, <1>4

(* Along a path the bounds get narrower.                                   *)
LEMMA PathSpan ==
  ASSUME NEW t, Sound(t), NEW lo, NEW hi, Ordered(t, lo, hi),
         NEW p, PathOf(t, p), NEW l \in 0..Top(t), NEW x \in 0..l
  PROVE  lo[p[l].n] <= lo[p[x].n] /\ hi[p[x].n] <= hi[p[l].n]
<1> DEFINE T == {y \in x..Top(t) : ~(/\ lo[p[y].n] <= lo[p[x].n]
                                     /\ hi[p[x].n] <= hi[p[y].n])}
<1>1. Top(t) \in Nat
  BY TopFacts
<1>2. \A y \in 0..Top(t) : /\ p[y].n \in InUse(t) /\ LevelOf(t, p[y].n) = y
                           /\ lo[p[y].n] \in Int /\ hi[p[y].n] \in Int
  <2>1. \A y \in 0..Top(t) : p[y].n \in InUse(t) /\ LevelOf(t, p[y].n) = y
    BY DEF PathOf
  <2>2. QED
    BY <2>1, OrderFacts
<1>3. T = {}
  <2> SUFFICES ASSUME T # {} PROVE FALSE
    OBVIOUS
  <2>1. T \in SUBSET Nat
    BY <1>1
  <2>2. PICK y \in T : \A z \in T : y <= z
    <3> HIDE DEF T
    <3>1. QED
      BY <2>1, LeastNumber
  <2>3. y \in x..Top(t) /\ x \in Nat /\ x \in 0..Top(t)
    BY <1>1
  <2>4. y # x
    BY <1>2, <2>3
  <2>5. y - 1 \in x..Top(t) /\ ~(y <= y - 1) /\ y \in 1..Top(t)
    BY <1>1, <2>3, <2>4
  <2>6. y - 1 \notin T
    BY <2>2, <2>5
  <2>7. lo[p[y - 1].n] <= lo[p[x].n] /\ hi[p[x].n] <= hi[p[y - 1].n]
    BY <2>5, <2>6
  <2>8. y \in 0..Top(t) /\ y > 0 /\ y - 1 \in 0..Top(t)
    BY <1>1, <2>5
  <2>9. p[y].n \in InUse(t) /\ LevelOf(t, p[y].n) > 0
    BY <1>2, <2>8
  <2>11. /\ p[y].i \in 1..Len(Keys(t, p[y].n))
         /\ Keys(t, p[y].n)[p[y].i].to = p[y - 1].n
    BY <2>8, PathNode
  <2>12. /\ lo[p[y].n] <= lo[p[y - 1].n] /\ hi[p[y - 1].n] <= hi[p[y].n]
    BY <2>8, <2>9, <2>11, OrderInner
  <2>13. /\ lo[p[y].n] \in Int /\ lo[p[y - 1].n] \in Int /\ lo[p[x].n] \in Int
         /\ hi[p[y].n] \in Int /\ hi[p[y - 1].n] \in Int /\ hi[p[x].n] \in Int
    BY <1>2, <2>3, <2>8
  <2>14. lo[p[y].n] <= lo[p[x].n] /\ hi[p[x].n] <= hi[p[y].n]
    BY <2>7, <2>12, <2>13
  <2>15. QED
    BY <2>2, <2>14
<1>4. l \in x..Top(t)
  BY <1>1
<1>5. QED
  BY <1>3, <1>4

(* What is in the leaf of a path, against the entries of the nodes above.  *)
LEMMA PathEntries ==
  ASSUME NEW t, Sound(t), NEW lo, NEW hi, Ordered(t, lo, hi),
         NEW p, PathOf(t, p), NEW l \in 1..Top(t),
         NEW b \in 1..Len(Keys(t, p[l].n)), NEW x \in 0..(l - 1)
  PROVE  LET r == RankOf(Keys(t, p[l].n)[b]) IN
         /\ r \in Int /\ lo[p[x].n] \in Int /\ hi[p[x].n] \in Int
         /\ lo[p[x].n] <= hi[p[x].n]
         /\ b < p[l].i => r < lo[p[x].n]
         /\ b >= p[l].i => hi[p[x].n] <= r
<1> DEFINE s == Keys(t, p[l].n)
           i == p[l].i
<1>1. l \in 0..Top(t) /\ l > 0 /\ l - 1 \in 0..Top(t) /\ x \in 0..Top(t)
      /\ Top(t) \in Nat
  BY TopFacts
<1>2. /\ p[l].n \in InUse(t) /\ LevelOf(t, p[l].n) > 0 /\ Len(s) \in Nat
      /\ i \in 1..Len(s) /\ s[i].to = p[l - 1].n
  BY <1>1, PathNode
<1>3. /\ hi[p[l - 1].n] <= RankOf(s[i])
      /\ i > 1 => i - 1 \in 1..Len(s) /\ RankOf(s[i - 1]) < lo[p[l - 1].n]
  BY <1>2, OrderInner
<1>4. lo[p[l - 1].n] <= lo[p[x].n] /\ hi[p[x].n] <= hi[p[l - 1].n]
  BY <1>1, PathSpan
<1>5. /\ lo[p[l - 1].n] \in Int /\ hi[p[l - 1].n] \in Int
      /\ lo[p[x].n] \in Int /\ hi[p[x].n] \in Int /\ lo[p[x].n] <= hi[p[x].n]
  BY <1>1, PathNode, OrderFacts
<1>6. /\ \A j \in 1..Len(s) : RankOf(s[j]) \in Int
      /\ \A j, k \in 1..Len(s) : j < k => RankOf(s[j]) < RankOf(s[k])
  BY <1>2, OrderFacts
<1> HIDE DEF s, i
<1>7. b \in 1..Len(s)
  BY DEF s
<1>8. b < i => RankOf(s[b]) < lo[p[x].n]
  <2> SUFFICES ASSUME b < i PROVE RankOf(s[b]) < lo[p[x].n]
    OBVIOUS
  <2>1. i > 1 /\ (b = i - 1 \/ b < i - 1)
    BY <1>2, <1>7
  <2>2. RankOf(s[b]) <= RankOf(s[i - 1])
    BY <1>3, <1>6, <1>7, <2>1
  <2>3. QED
    BY <1>3, <1>4, <1>5, <1>6, <1>7, <2>1, <2>2
<1>9. b >= i => hi[p[x].n] <= RankOf(s[b])
  <2> SUFFICES ASSUME b >= i PROVE hi[p[x].n] <= RankOf(s[b])
    OBVIOUS
  <2>1. b = i \/ i < b
    BY <1>2, <1>7
  <2>2. RankOf(s[i]) <= RankOf(s[b])
    BY <1>2, <1>6, <1>7, <2>1
  <2>3. QED
    BY <1>2, <1>3, <1>4, <1>5, <1>6, <1>7, <2>2, SMTT(30)
<1>10. QED
  BY <1>5, <1>6, <1>7, <1>8, <1>9 DEF s, i

(* Two paths to different leaves part at a node, at different entries.     *)
LEMMA PathsPart ==
  ASSUME NEW t, Sound(t), NEW p, PathOf(t, p), NEW q, PathOf(t, q),
         NEW m \in 0..Top(t), q[m].n = p[m].n, q[0].n # p[0].n
  PROVE  \E l \in 1..m : q[l].n = p[l].n /\ q[l].i # p[l].i
<1> DEFINE T == {l \in 0..m : q[l].n = p[l].n}
<1>1. Top(t) \in Nat /\ m \in Nat
  BY TopFacts
<1>2. T \in SUBSET Nat /\ T # {}
  BY <1>1
<1>3. PICK l \in T : \A z \in T : l <= z
  <2> HIDE DEF T
  <2>1. QED
    BY <1>2, LeastNumber
<1>4. l \in 0..m /\ q[l].n = p[l].n /\ l # 0
  OBVIOUS
<1>5. l \in 1..m /\ l - 1 \in 0..m /\ ~(l <= l - 1) /\ l \in 0..Top(t) /\ l > 0
  BY <1>1, <1>4
<1>6. q[l - 1].n # p[l - 1].n
  BY <1>3, <1>5
<1>7. Keys(t, p[l].n)[p[l].i].to = p[l - 1].n
  BY <1>5, PathNode
<1>8. Keys(t, q[l].n)[q[l].i].to = q[l - 1].n
  BY <1>5, PathNode, SMTT(30)
<1>9. QED
  BY <1>4, <1>5, <1>6, <1>7, <1>8

(* A path ends on an entry of its leaf, not on the dummy; the rank of that *)
(* entry.                                                                  *)
OnEntry(t, p) == p[0].i <= Len(Keys(t, p[0].n))
RankAt(t, p)  == RankOf(Keys(t, p[0].n)[p[0].i])

(* The places of the entries of the leaves.                                *)
LeafSpots(t) == {s \in Spots : /\ s.n \in InUse(t) /\ LevelOf(t, s.n) = 0
                               /\ s.i \in 1..Len(Keys(t, s.n))}

(* The ranks of the entries of the leaves: what the index holds.           *)
Ranks(t) == {RankOf(Keys(t, s.n)[s.i]) : s \in LeafSpots(t)}

(* The entries of the leaf a path ends in.                                 *)
LEMMA RankOfPath ==
  ASSUME NEW t, Sound(t), NEW p, PathOf(t, p)
  PROVE  /\ \A j \in 1..Len(Keys(t, p[0].n)) :
              RankOf(Keys(t, p[0].n)[j]) \in Ranks(t)
         /\ OnEntry(t, p) => /\ RankAt(t, p) \in Ranks(t)
                             /\ p[0].i \in 1..Len(Keys(t, p[0].n))
<1>1. /\ p[0].n \in InUse(t) /\ LevelOf(t, p[0].n) = 0 /\ p[0].i \in Nat
      /\ p[0].i >= 1 /\ Len(Keys(t, p[0].n)) \in Nat
  BY TopFacts, PathNode
<1>2. ASSUME NEW j \in 1..Len(Keys(t, p[0].n))
      PROVE  RankOf(Keys(t, p[0].n)[j]) \in Ranks(t)
  <2>1. [n |-> p[0].n, i |-> j] \in LeafSpots(t)
    <3>1. j \in Nat /\ p[0].n \in Node
      BY <1>1, <1>2, UsedFacts
    <3>2. QED
      BY <1>1, <1>2, <3>1 DEF LeafSpots, Spots
  <2>2. QED
    BY <2>1 DEF Ranks
<1>3. OnEntry(t, p) => p[0].i \in 1..Len(Keys(t, p[0].n))
  BY <1>1 DEF OnEntry
<1>4. QED
  BY <1>2, <1>3 DEF RankAt

(* Every leaf hangs on the root, so there is a path to every entry.        *)
LEMMA RankPath ==
  ASSUME NEW t, Sound(t), NEW s \in LeafSpots(t)
  PROVE  \E p : PathOf(t, p) /\ p[0] = s
<1> DEFINE T == Top(t)
<1>1. /\ T \in Nat /\ 1 \in InUse(t) /\ LevelOf(t, 1) = T
      /\ InUse(t) \subseteq Node
  BY TopFacts
<1>2. PICK up : Hung(t, up, {}, {})
  BY DEF Sound, Hangs
<1> DEFINE Placed(l) ==
             {x \in Spots : /\ x.n \in InUse(t) /\ LevelOf(t, x.n) = l
                            /\ x.i \in 1..Len(Keys(t, x.n))}
           Kid(x, y) == /\ y.n \in InUse(t) /\ y.i \in 1..Len(Keys(t, y.n))
                        /\ Keys(t, y.n)[y.i].to = x.n
           F == [k \in 1..T |-> [x \in Spots |->
                   CHOOSE y \in Placed(k) : Kid(x, y)]]
           G == [k \in 0..T |-> Placed(k)]
<1>3. ASSUME NEW k \in 1..T, NEW x \in Placed(k - 1)
      PROVE  \E y \in Placed(k) : Kid(x, y)
  <2>1. x.n \in InUse(t) /\ LevelOf(t, x.n) = k - 1 /\ k - 1 \in Int
    BY <1>1
  <2>2. x.n # 1
    BY <1>1, <1>3, <2>1
  <2>3. up[x.n] \in InUse(t) /\ x.n \in Kids(t, up[x.n])
    BY <1>2, <2>1, <2>2 DEF Hung
  <2>4. LevelOf(t, up[x.n]) > 0
    BY <2>3 DEF Kids, KidsOf
  <2>5. PICK i \in DOMAIN Keys(t, up[x.n]) : Keys(t, up[x.n])[i].to = x.n
    BY <2>3, <2>4 DEF Kids, KidsOf
  <2>6. i \in 1..Len(Keys(t, up[x.n])) /\ LevelOf(t, up[x.n]) \in Nat
        /\ up[x.n] \in Node /\ Len(Keys(t, up[x.n])) \in Nat
    BY <2>3, <2>5, UsedFacts
  <2>7. LevelOf(t, up[x.n]) = k
    <3>1. LevelOf(t, x.n) = LevelOf(t, up[x.n]) - 1
      BY <2>3, <2>4, <2>5, <2>6, ChildFacts
    <3>2. QED
      BY <2>1, <2>6, <3>1
  <2> DEFINE y == [n |-> up[x.n], i |-> i]
  <2>8. y \in Placed(k)
    BY <2>3, <2>6, <2>7 DEF Spots
  <2>9. Kid(x, y)
    BY <2>3, <2>5, <2>6
  <2>10. QED
    BY <2>8, <2>9
<1>4. \A k \in 1..T : \A v \in G[k - 1] : F[k][v] \in G[k]
  <2>1. ASSUME NEW k \in 1..T, NEW v \in G[k - 1]
        PROVE  F[k][v] \in G[k]
    <3>1. k - 1 \in 0..T /\ k \in 0..T
      BY <1>1
    <3>2. v \in Placed(k - 1)
      BY <2>1, <3>1
    <3>3. \E y \in Placed(k) : Kid(v, y)
      BY <1>3, <3>2
    <3>4. v \in Spots
      BY <3>2
    <3>5. F[k][v] = CHOOSE y \in Placed(k) : Kid(v, y)
      BY <3>4
    <3>6. G[k] = Placed(k)
      BY <3>1
    <3> HIDE DEF Placed, Kid, F, G
    <3>7. QED
      BY <3>3, <3>5, <3>6
  <2>2. QED
    BY <2>1
<1>5. s \in G[0]
  BY <1>1 DEF LeafSpots
<1>6. \A k \in 1..T : \A v \in Placed(k - 1) : Kid(v, F[k][v])
  <2>1. ASSUME NEW k \in 1..T, NEW v \in Placed(k - 1)
        PROVE  Kid(v, F[k][v])
    <3>1. \E y \in Placed(k) : Kid(v, y)
      BY <1>3
    <3>2. v \in Spots
      OBVIOUS
    <3>3. F[k][v] = CHOOSE y \in Placed(k) : Kid(v, y)
      BY <3>2
    <3> HIDE DEF Placed, Kid, F
    <3>4. QED
      BY <3>1, <3>3
  <2>2. QED
    BY <2>1
<1>7. \A k \in 0..T : G[k] = Placed(k)
  OBVIOUS
<1> HIDE DEF F, G
<1>8. PICK g : Staged(g, T, G, s, F)
  BY <1>1, <1>4, <1>5, StagesExist
<1>9. /\ g = [k \in 0..T |-> g[k]] /\ g[0] = s
      /\ \A k \in 1..T : g[k] = F[k][g[k - 1]]
      /\ \A k \in 0..T : g[k] \in Placed(k)
  BY <1>7, <1>8 DEF Staged
<1>10. ASSUME NEW k \in 1..T
       PROVE  Kid(g[k - 1], g[k])
  <2>1. k - 1 \in 0..T
    BY <1>1
  <2>2. g[k - 1] \in Placed(k - 1)
    BY <1>9, <2>1
  <2> HIDE DEF Placed, Kid
  <2>3. QED
    BY <1>6, <1>9, <2>2
<1>11. \A k \in 0..T : /\ g[k] \in Spots /\ g[k].n \in InUse(t)
                       /\ LevelOf(t, g[k].n) = k
                       /\ g[k].i \in 1..Len(Keys(t, g[k].n))
  BY <1>9
<1>12. g[T].n = 1
  <2>1. T \in 0..T
    BY <1>1
  <2>2. g[T].n \in InUse(t) /\ LevelOf(t, g[T].n) = T
    BY <1>11, <2>1
  <2>3. QED
    BY <1>1, <2>2, UsedFacts
<1>13. ASSUME NEW k \in 1..T
       PROVE  /\ g[k].i <= Len(Keys(t, g[k].n))
              /\ Keys(t, g[k].n)[g[k].i].to = g[k - 1].n
  <2>1. k \in 0..T
    BY <1>1
  <2>2. g[k].i \in 1..Len(Keys(t, g[k].n)) /\ Len(Keys(t, g[k].n)) \in Nat
    BY <1>11, <2>1, UsedFacts
  <2>3. Keys(t, g[k].n)[g[k].i].to = g[k - 1].n
    BY <1>10
  <2>4. QED
    BY <2>2, <2>3
<1>14. \A k \in 0..T : g[k].i \in 1..(Len(Keys(t, g[k].n)) + 1)
  <2>1. ASSUME NEW k \in 0..T
        PROVE  g[k].i \in 1..(Len(Keys(t, g[k].n)) + 1)
    <3>1. g[k].i \in 1..Len(Keys(t, g[k].n)) /\ Len(Keys(t, g[k].n)) \in Nat
      BY <1>11, UsedFacts
    <3>2. QED
      BY <3>1
  <2>2. QED
    BY <2>1
<1>15. g \in [0..T -> Spots]
  BY <1>9, <1>11
<1> HIDE DEF At, Kid
<1>16. PathOf(t, g)
  BY <1>11, <1>12, <1>13, <1>14, <1>15 DEF PathOf
<1>17. QED
  BY <1>9, <1>16

(* Every entry is at the end of some path.                                 *)
LEMMA RankFound ==
  ASSUME NEW t, Sound(t), NEW y \in Ranks(t)
  PROVE  \E q : PathOf(t, q) /\ OnEntry(t, q) /\ RankAt(t, q) = y
<1>1. PICK z \in LeafSpots(t) : y = RankOf(Keys(t, z.n)[z.i])
  BY DEF Ranks
<1>2. PICK q : PathOf(t, q) /\ q[0] = z
  BY RankPath
<1>3. z.i <= Len(Keys(t, z.n))
  <2>1. z.n \in InUse(t) /\ z.i \in 1..Len(Keys(t, z.n))
    BY DEF LeafSpots
  <2>2. Len(Keys(t, z.n)) \in Nat
    BY <2>1, UsedFacts
  <2>3. QED
    BY <2>1, <2>2
<1>4. QED
  BY <1>1, <1>2, <1>3 DEF OnEntry, RankAt

(* The nodes above the leaf of p part the entries of the index in those    *)
(* below x and the others.  (An entry of a node above may be x - 1 itself: *)
(* what is left of it is not above it.)                                    *)
Cut(t, p, x) ==
  \A l \in 1..Top(t) : \A j \in 1..Len(Keys(t, p[l].n)) :
    LET r == RankOf(Keys(t, p[l].n)[j]) IN
    /\ j < p[l].i => r < x
    /\ j >= p[l].i /\ j < Len(Keys(t, p[l].n)) => x <= r + 1

(* The entries of the leaf a path ends in lie in its span.                 *)
LEMMA LeafBounds ==
  ASSUME NEW t, Sound(t), NEW lo, NEW hi, Ordered(t, lo, hi),
         NEW p, PathOf(t, p), NEW j \in 1..Len(Keys(t, p[0].n))
  PROVE  LET r == RankOf(Keys(t, p[0].n)[j]) IN
         /\ r \in Int /\ lo[p[0].n] \in Int /\ hi[p[0].n] \in Int
         /\ lo[p[0].n] <= r /\ r <= hi[p[0].n]
<1>1. p[0].n \in InUse(t) /\ LevelOf(t, p[0].n) = 0
  BY TopFacts, PathNode
<1>2. QED
  BY <1>1, OrderFacts, OrderLeaf

(* An entry of another leaf than the one a path ends in is on one side of  *)
(* it, and of any x that the path parts the interior entries at.           *)
LEMMA Sides ==
  ASSUME NEW t, Sound(t), NEW lo, NEW hi, Ordered(t, lo, hi),
         NEW p, PathOf(t, p), NEW q, PathOf(t, q), OnEntry(t, q),
         NEW m \in 0..Top(t), q[m].n = p[m].n, q[0].n # p[0].n,
         NEW x \in Int, Cut(t, p, x)
  PROVE  LET y == RankAt(t, q)
             s == Keys(t, p[0].n) IN
         \/ /\ y < x /\ \A j \in 1..Len(s) : y < RankOf(s[j])
            /\ \E l \in 1..m : p[l].i > 1
         \/ /\ y >= x /\ \A j \in 1..Len(s) : RankOf(s[j]) < y
            /\ \E l \in 1..m : p[l].i < Len(Keys(t, p[l].n))
<1> DEFINE y == RankAt(t, q)
           s == Keys(t, p[0].n)
<1>1. PICK l \in 1..m : q[l].n = p[l].n /\ q[l].i # p[l].i
  BY PathsPart
<1>2. l \in 1..Top(t) /\ l \in 0..Top(t) /\ l > 0 /\ 0 \in 0..(l - 1)
  BY TopFacts
<1> DEFINE u == Keys(t, p[l].n)
           a == p[l].i
           b == q[l].i
<1>3. a \in 1..Len(u) /\ Len(u) \in Nat
  BY <1>2, PathNode
<1>4. b \in 1..Len(u)
  BY <1>1, <1>2, PathNode
<1>5. /\ y \in Int /\ lo[q[0].n] \in Int /\ hi[q[0].n] \in Int
      /\ lo[q[0].n] <= y /\ y <= hi[q[0].n]
  <2>1. q[0].i \in 1..Len(Keys(t, q[0].n))
    BY RankOfPath
  <2>2. QED
    BY <2>1, LeafBounds DEF RankAt
<1>6. \A j \in 1..Len(s) :
        /\ RankOf(s[j]) \in Int /\ lo[p[0].n] \in Int /\ hi[p[0].n] \in Int
        /\ lo[p[0].n] <= RankOf(s[j]) /\ RankOf(s[j]) <= hi[p[0].n]
  BY LeafBounds
<1>7. \A c \in 1..Len(u) :
        /\ RankOf(u[c]) \in Int
        /\ c < a => RankOf(u[c]) < lo[p[0].n] /\ RankOf(u[c]) < x
        /\ c >= a => hi[p[0].n] <= RankOf(u[c])
        /\ c >= a /\ c < Len(u) => x <= RankOf(u[c]) + 1
  <2>1. ASSUME NEW c \in 1..Len(u)
        PROVE  /\ RankOf(u[c]) \in Int
               /\ c < a => RankOf(u[c]) < lo[p[0].n]
               /\ c >= a => hi[p[0].n] <= RankOf(u[c])
    BY <1>2, PathEntries
  <2>2. QED
    BY <1>2, <2>1 DEF Cut
<1>8. \A c \in 1..Len(u) :
        /\ c < b => RankOf(u[c]) < lo[q[0].n]
        /\ c >= b => hi[q[0].n] <= RankOf(u[c])
  <2>1. ASSUME NEW c \in 1..Len(u)
        PROVE  /\ c < b => RankOf(u[c]) < lo[q[0].n]
               /\ c >= b => hi[q[0].n] <= RankOf(u[c])
    <3>1. c \in 1..Len(Keys(t, q[l].n)) /\ u = Keys(t, q[l].n)
      BY <1>1
    <3>2. QED
      BY <1>2, <3>1, PathEntries
  <2>2. QED
    BY <2>1
<1>9. a < b \/ b < a
  BY <1>1, <1>3, <1>4
<1> HIDE DEF y, s, u, a, b
<1>10. CASE b < a
  <2>1. RankOf(u[b]) < x /\ y <= RankOf(u[b])
    BY <1>3, <1>4, <1>5, <1>7, <1>8, <1>10
  <2>2. y < x
    BY <1>4, <1>5, <1>7, <2>1
  <2>3. ASSUME NEW j \in 1..Len(s) PROVE y < RankOf(s[j])
    <3>1. RankOf(u[b]) < lo[p[0].n] /\ RankOf(u[b]) \in Int
      BY <1>4, <1>7, <1>10
    <3>2. QED
      BY <1>5, <1>6, <2>1, <3>1
  <2>4. a > 1
    BY <1>3, <1>4, <1>10
  <2>5. QED
    BY <2>2, <2>3, <2>4 DEF y, s, a
<1>11. CASE a < b
  <2>1. a < Len(u)
    BY <1>3, <1>4, <1>11
  <2>2. RankOf(u[a]) < y /\ x <= RankOf(u[a]) + 1 /\ RankOf(u[a]) \in Int
    BY <1>3, <1>4, <1>5, <1>7, <1>8, <1>11, <2>1
  <2>3. y >= x
    BY <1>5, <2>2
  <2>4. ASSUME NEW j \in 1..Len(s) PROVE RankOf(s[j]) < y
    <3>1. hi[p[0].n] <= RankOf(u[a])
      BY <1>3, <1>7
    <3>2. QED
      BY <1>5, <1>6, <2>2, <3>1
  <2>5. QED
    BY <2>1, <2>3, <2>4 DEF y, s, a, u
<1>12. QED
  BY <1>9, <1>10, <1>11

(* Around a place in the leaf nothing is between what is before it there   *)
(* and what is behind.                                                     *)
LEMMA CutHere ==
  ASSUME NEW t, Sound(t), NEW lo, NEW hi, Ordered(t, lo, hi),
         NEW p, PathOf(t, p), NEW x \in Int, Cut(t, p, x),
         NEW i \in 1..(Len(Keys(t, p[0].n)) + 1),
         \A j \in 1..Len(Keys(t, p[0].n)) :
           LET r == RankOf(Keys(t, p[0].n)[j]) IN
           /\ j < i => r < x
           /\ j >= i => x <= r,
         NEW y \in Ranks(t)
  PROVE  LET s == Keys(t, p[0].n) IN
         /\ y \in Int
         /\ i <= Len(s) => y < x \/ RankOf(s[i]) <= y
         /\ i > 1 => y <= RankOf(s[i - 1]) \/ x <= y
<1> DEFINE s == Keys(t, p[0].n)
<1>1. PICK q : PathOf(t, q) /\ OnEntry(t, q) /\ RankAt(t, q) = y
  BY RankFound
<1>2. /\ Len(s) \in Nat /\ p[0].n \in InUse(t)
      /\ \A j \in 1..Len(s) : RankOf(s[j]) \in Int
      /\ \A j, k \in 1..Len(s) : j < k => RankOf(s[j]) < RankOf(s[k])
  <2>1. p[0].n \in InUse(t)
    BY TopFacts, PathNode
  <2>2. QED
    BY <2>1, OrderFacts
<1>3. q[0].i \in 1..Len(Keys(t, q[0].n))
  BY <1>1, RankOfPath
<1>4. y \in Int
  BY <1>1, <1>3, LeafBounds DEF RankAt
<1>5. Top(t) \in 0..Top(t) /\ q[Top(t)].n = p[Top(t)].n
  BY <1>1, TopFacts DEF PathOf
<1>6. i > 1 => i - 1 \in 1..Len(s)
  BY <1>2
<1>7. i <= Len(s) => i \in 1..Len(s)
  BY <1>2
<1>8. \A j \in 1..Len(s) : /\ j < i => RankOf(s[j]) < x
                           /\ j >= i => x <= RankOf(s[j])
  OBVIOUS
<1>9. i \in 1..(Len(s) + 1)
  OBVIOUS
<1>10. CASE q[0].n = p[0].n
  <2>1. PICK j \in 1..Len(s) : y = RankOf(s[j])
    BY <1>1, <1>3, <1>10 DEF RankAt
  <2> HIDE DEF s
  <2>2. i <= Len(s) => y < x \/ RankOf(s[i]) <= y
    <3>1. j < i \/ j = i \/ i < j
      BY <1>2, <1>9
    <3>2. QED
      BY <1>2, <1>4, <1>7, <1>8, <2>1, <3>1
  <2>3. i > 1 => y <= RankOf(s[i - 1]) \/ x <= y
    <3>1. j >= i \/ j = i - 1 \/ j < i - 1
      BY <1>2, <1>9
    <3>2. QED
      BY <1>2, <1>4, <1>6, <1>8, <2>1, <3>1
  <2>4. QED
    BY <1>4, <2>2, <2>3 DEF s
<1>11. CASE q[0].n # p[0].n
  <2>1. \/ y < x /\ \A j \in 1..Len(s) : y < RankOf(s[j])
        \/ y >= x /\ \A j \in 1..Len(s) : RankOf(s[j]) < y
    BY <1>1, <1>5, <1>11, Sides
  <2> HIDE DEF s
  <2>2. i <= Len(s) => y < x \/ RankOf(s[i]) <= y
    BY <1>2, <1>4, <1>7, <2>1
  <2>3. i > 1 => y <= RankOf(s[i - 1]) \/ x <= y
    BY <1>2, <1>4, <1>6, <2>1
  <2>4. QED
    BY <1>4, <2>2, <2>3 DEF s
<1>12. QED
  BY <1>10, <1>11

(* An entry of the leaf is such a cut, before it and behind it.            *)
LEMMA EntryCut ==
  ASSUME NEW t, Sound(t), NEW lo, NEW hi, Ordered(t, lo, hi),
         NEW p, PathOf(t, p), NEW i \in 1..Len(Keys(t, p[0].n))
  PROVE  LET r == RankOf(Keys(t, p[0].n)[i]) IN
         r \in Int /\ Cut(t, p, r) /\ Cut(t, p, r + 1)
<1> DEFINE r == RankOf(Keys(t, p[0].n)[i])
<1>1. /\ r \in Int /\ lo[p[0].n] \in Int /\ hi[p[0].n] \in Int
      /\ lo[p[0].n] <= r /\ r <= hi[p[0].n]
  BY LeafBounds
<1> HIDE DEF r
<1>2. ASSUME NEW l \in 1..Top(t), NEW j \in 1..Len(Keys(t, p[l].n))
      PROVE  LET v == RankOf(Keys(t, p[l].n)[j]) IN
             /\ v \in Int
             /\ j < p[l].i => v < r
             /\ j >= p[l].i => r <= v
  <2> DEFINE v == RankOf(Keys(t, p[l].n)[j])
  <2>1. 0 \in 0..(l - 1)
    BY TopFacts
  <2>2. /\ v \in Int
        /\ j < p[l].i => v < lo[p[0].n]
        /\ j >= p[l].i => hi[p[0].n] <= v
    BY <2>1, PathEntries
  <2> HIDE DEF v
  <2>3. /\ j < p[l].i => v < r
        /\ j >= p[l].i => r <= v
    BY <1>1, <2>2
  <2>4. QED
    BY <2>2, <2>3 DEF v
<1>3. Cut(t, p, r)
  <2>1. ASSUME NEW l \in 1..Top(t), NEW j \in 1..Len(Keys(t, p[l].n))
        PROVE  LET v == RankOf(Keys(t, p[l].n)[j]) IN
               /\ j < p[l].i => v < r
               /\ j >= p[l].i /\ j < Len(Keys(t, p[l].n)) => r <= v + 1
    <3>1. PICK v \in Int : v = RankOf(Keys(t, p[l].n)[j])
      BY <1>2
    <3>2. /\ j < p[l].i => v < r
          /\ j >= p[l].i => r <= v
      BY <1>2, <3>1
    <3>3. j >= p[l].i => r <= v + 1
      BY <1>1, <3>2
    <3>4. QED
      BY <3>1, <3>2, <3>3
  <2>2. QED
    BY <2>1 DEF Cut
<1>4. Cut(t, p, r + 1)
  <2>1. ASSUME NEW l \in 1..Top(t), NEW j \in 1..Len(Keys(t, p[l].n))
        PROVE  LET v == RankOf(Keys(t, p[l].n)[j]) IN
               /\ j < p[l].i => v < r + 1
               /\ j >= p[l].i /\ j < Len(Keys(t, p[l].n)) => r + 1 <= v + 1
    <3>1. PICK v \in Int : v = RankOf(Keys(t, p[l].n)[j])
      BY <1>2
    <3>2. /\ j < p[l].i => v < r
          /\ j >= p[l].i => r <= v
      BY <1>2, <3>1
    <3>3. /\ j < p[l].i => v < r + 1
          /\ j >= p[l].i => r + 1 <= v + 1
      BY <1>1, <3>2
    <3>4. QED
      BY <3>1, <3>3
  <2>2. QED
    BY <2>1 DEF Cut
<1>5. QED
  BY <1>1, <1>3, <1>4 DEF r

(* A search.                                                               *)
LEMMA SearchCut ==
  ASSUME NEW t, Sound(t), NEW lo, NEW hi, Ordered(t, lo, hi),
         NEW k \in Int, NEW d \in -1..(MaxDup + 1)
  PROVE  LET p == itreeload(t, k, d)
             x == Rank(k, d) IN
         /\ PathOf(t, p) /\ x \in Int /\ Cut(t, p, x)
         /\ \A l \in 0..Top(t) : \A j \in 1..Len(Keys(t, p[l].n)) :
              LET r == RankOf(Keys(t, p[l].n)[j]) IN
              /\ j < p[l].i => r < x
              /\ j >= p[l].i /\ (l = 0 \/ j < Len(Keys(t, p[l].n))) => x <= r
<1> DEFINE p == itreeload(t, k, d)
           x == Rank(k, d)
<1>1. /\ PathOf(t, p)
      /\ \A l \in 0..Top(t) : p[l].i = position(t, p[l].n, k, d)
  BY LoadExists
<1>2. x \in Int
  BY RankOrder
<1> HIDE DEF p, x
<1>3. ASSUME NEW l \in 0..Top(t), NEW j \in 1..Len(Keys(t, p[l].n))
      PROVE  LET r == RankOf(Keys(t, p[l].n)[j]) IN
             /\ r \in Int
             /\ j < p[l].i => r < x
             /\ j >= p[l].i /\ (l = 0 \/ j < Len(Keys(t, p[l].n))) => x <= r
  <2>1. p[l].n \in InUse(t) /\ LevelOf(t, p[l].n) = l
    BY <1>1, PathNode
  <2>2. /\ Keys(t, p[l].n) \in Seq(Entries) /\ Len(Keys(t, p[l].n)) <= Cap
        /\ t.node[p[l].n].level = l /\ l \in Nat
    BY <2>1, UsedFacts, TreeAssumption DEF LevelOf
  <2>3. Ascends(Keys(t, p[l].n)) /\ RankOf(Keys(t, p[l].n)[j]) \in Int
    BY <2>1, OrderFacts
  <2>4. LET i == position(t, p[l].n, k, d) IN
        /\ j < i => RankOf(Keys(t, p[l].n)[j]) < Rank(k, d)
        /\ j >= i /\ (l = 0 \/ j < Len(Keys(t, p[l].n))) =>
             Rank(k, d) <= RankOf(Keys(t, p[l].n)[j])
    BY <2>2, <2>3, PositionSplits
  <2>5. QED
    BY <1>1, <2>3, <2>4 DEF x
<1>4. Cut(t, p, x)
  <2>1. ASSUME NEW l \in 1..Top(t), NEW j \in 1..Len(Keys(t, p[l].n))
        PROVE  LET r == RankOf(Keys(t, p[l].n)[j]) IN
               /\ j < p[l].i => r < x
               /\ j >= p[l].i /\ j < Len(Keys(t, p[l].n)) => x <= r + 1
    <3>1. l \in 0..Top(t) /\ l # 0
      BY TopFacts
    <3>2. PICK r \in Int : r = RankOf(Keys(t, p[l].n)[j])
      BY <1>3, <3>1
    <3>3. /\ j < p[l].i => r < x
          /\ j >= p[l].i /\ j < Len(Keys(t, p[l].n)) => x <= r
      BY <1>3, <3>1, <3>2
    <3>4. x <= r => x <= r + 1
      BY <1>2, <3>2
    <3>5. QED
      BY <3>2, <3>3, <3>4
  <2>2. QED
    BY <2>1 DEF Cut
<1>5. QED
  BY <1>1, <1>2, <1>3, <1>4 DEF p, x

(* Where the leaf ends and every node above is at its last entry, nothing  *)
(* follows; and so at the other end.                                       *)
LEMMA EdgeCut ==
  ASSUME NEW t, Sound(t), NEW lo, NEW hi, Ordered(t, lo, hi),
         NEW p, PathOf(t, p), NEW x \in Int, Cut(t, p, x),
         NEW last \in BOOLEAN,
         \A l \in 1..Top(t) :
           p[l].i = IF last THEN Len(Keys(t, p[l].n)) ELSE 1,
         \A j \in 1..Len(Keys(t, p[0].n)) :
           LET r == RankOf(Keys(t, p[0].n)[j]) IN
           IF last THEN r < x ELSE x <= r,
         NEW y \in Ranks(t)
  PROVE  y \in Int /\ IF last THEN y < x ELSE x <= y
<1> DEFINE s == Keys(t, p[0].n)
<1>1. PICK q : PathOf(t, q) /\ OnEntry(t, q) /\ RankAt(t, q) = y
  BY RankFound
<1>2. q[0].i \in 1..Len(Keys(t, q[0].n))
  BY <1>1, RankOfPath
<1>3. y \in Int
  BY <1>1, <1>2, LeafBounds DEF RankAt
<1>4. Top(t) \in 0..Top(t) /\ q[Top(t)].n = p[Top(t)].n
  BY <1>1, TopFacts DEF PathOf
<1>5. CASE q[0].n = p[0].n
  <2>1. q[0].i \in 1..Len(s) /\ y = RankOf(s[q[0].i])
    BY <1>1, <1>2, <1>5 DEF RankAt
  <2>2. QED
    BY <1>3, <2>1
<1>6. CASE q[0].n # p[0].n
  <2>1. \/ y < x /\ \E l \in 1..Top(t) : p[l].i > 1
        \/ y >= x /\ \E l \in 1..Top(t) : p[l].i < Len(Keys(t, p[l].n))
    BY <1>1, <1>4, <1>6, Sides
  <2>2. CASE last
    <3>1. \A l \in 1..Top(t) : ~(p[l].i < Len(Keys(t, p[l].n)))
      <4>1. ASSUME NEW l \in 1..Top(t)
            PROVE  ~(p[l].i < Len(Keys(t, p[l].n)))
        <5>1. l \in 0..Top(t)
          BY TopFacts
        <5>2. p[l].i = Len(Keys(t, p[l].n)) /\ Len(Keys(t, p[l].n)) \in Nat
          BY <2>2, <5>1, PathNode
        <5>3. QED
          BY <5>2
      <4>2. QED
        BY <4>1
    <3>2. QED
      BY <1>3, <2>1, <2>2, <3>1
  <2>3. CASE ~last
    <3>1. \A l \in 1..Top(t) : ~(p[l].i > 1)
      BY <2>3
    <3>2. QED
      BY <1>3, <2>1, <2>3, <3>1
  <2>4. QED
    BY <2>2, <2>3
<1>7. QED
  BY <1>5, <1>6

(* Of two paths that part, the one that is further left is below the other.*)
LEMMA PathsOrder ==
  ASSUME NEW t, Sound(t), NEW lo, NEW hi, Ordered(t, lo, hi),
         NEW p, PathOf(t, p), NEW q, PathOf(t, q), NEW l \in 1..Top(t),
         q[l].n = p[l].n, q[l].i < p[l].i,
         NEW i \in 1..Len(Keys(t, q[0].n)), NEW j \in 1..Len(Keys(t, p[0].n)),
         NEW a \in 1..Len(Keys(t, p[l].n)), q[l].i <= a, a < p[l].i
  PROVE  LET r == RankOf(Keys(t, p[l].n)[a]) IN
         /\ r \in Int
         /\ RankOf(Keys(t, q[0].n)[i]) \in Int
         /\ RankOf(Keys(t, p[0].n)[j]) \in Int
         /\ RankOf(Keys(t, q[0].n)[i]) <= r
         /\ r < RankOf(Keys(t, p[0].n)[j])
<1>1. PICK r \in Int, y \in Int, v \in Int :
        /\ r = RankOf(Keys(t, p[l].n)[a])
        /\ y = RankOf(Keys(t, q[0].n)[i])
        /\ v = RankOf(Keys(t, p[0].n)[j])
        /\ lo[p[0].n] \in Int /\ hi[q[0].n] \in Int
        /\ y <= hi[q[0].n] /\ lo[p[0].n] <= v
  <2>1. RankOf(Keys(t, q[0].n)[i]) \in Int /\ hi[q[0].n] \in Int
        /\ RankOf(Keys(t, q[0].n)[i]) <= hi[q[0].n]
    BY LeafBounds
  <2>2. RankOf(Keys(t, p[0].n)[j]) \in Int /\ lo[p[0].n] \in Int
        /\ lo[p[0].n] <= RankOf(Keys(t, p[0].n)[j])
    BY LeafBounds
  <2>3. RankOf(Keys(t, p[l].n)[a]) \in Int
    <3>1. l \in 0..Top(t)
      BY TopFacts
    <3>2. p[l].n \in InUse(t)
      BY <3>1, PathNode
    <3>3. QED
      BY <3>2, OrderFacts
  <2>4. QED
    BY <2>1, <2>2, <2>3
<1>2. 0 \in 0..(l - 1)
  BY TopFacts
<1>3. r < lo[p[0].n]
  BY <1>1, <1>2, PathEntries
<1>4. hi[q[0].n] <= r
  <2>1. a \in 1..Len(Keys(t, q[l].n)) /\ r = RankOf(Keys(t, q[l].n)[a])
        /\ a >= q[l].i
    <3>1. a \in Int /\ q[l].i \in Int
      BY TopFacts, PathNode, SMTT(30)
    <3>2. QED
      BY <1>1, <3>1
  <2>2. QED
    BY <1>2, <2>1, PathEntries
<1>5. y <= r /\ r < v
  BY <1>1, <1>3, <1>4, SMTT(30)
<1>6. QED
  BY <1>1, <1>5

(* q is the neighbour of p: up to level l, one entry to that side there,   *)
(* and down again along the side of p.                                     *)
Neighbour(t, p, q, l, last) ==
  /\ l \in 1..Top(t)
  /\ \A x \in 1..(l - 1) : p[x].i = IF last THEN 1 ELSE Len(Keys(t, p[x].n))
  /\ \A x \in (l + 1)..Top(t) : q[x] = p[x]
  /\ q[l].n = p[l].n /\ q[l].i = IF last THEN p[l].i - 1 ELSE p[l].i + 1
  /\ \A x \in 0..(l - 1) : q[x].i = IF last THEN Len(Keys(t, q[x].n)) ELSE 1

(* The path beside another ends on an entry, and parts the interior entries*)
(* there and behind it.                                                    *)
LEMMA NeighbourFacts ==
  ASSUME NEW t, Sound(t), NEW lo, NEW hi, Ordered(t, lo, hi),
         NEW p, PathOf(t, p), NEW q, PathOf(t, q), NEW l, NEW last \in BOOLEAN,
         Neighbour(t, p, q, l, last)
  PROVE  /\ OnEntry(t, q) /\ q[0].i \in 1..Len(Keys(t, q[0].n))
         /\ RankAt(t, q) \in Int
         /\ Cut(t, q, RankAt(t, q)) /\ Cut(t, q, RankAt(t, q) + 1)
<1>1. l \in 1..Top(t) /\ 0 \in 0..(l - 1) /\ Top(t) \in Nat /\ 0 \in 0..Top(t)
  BY TopFacts DEF Neighbour
<1>2. q[0].i = IF last THEN Len(Keys(t, q[0].n)) ELSE 1
  BY <1>1 DEF Neighbour
<1>3. q[0].n \in InUse(t) /\ LevelOf(t, q[0].n) = 0
  BY <1>1, PathNode
<1>4. q[0].n # 1
  BY <1>1, <1>3, TopFacts
<1>5. Len(Keys(t, q[0].n)) \in Nat /\ Len(Keys(t, q[0].n)) >= 1
  BY <1>3, <1>4, UsedFacts, TreeAssumption
<1>6. q[0].i \in 1..Len(Keys(t, q[0].n)) /\ q[0].i <= Len(Keys(t, q[0].n))
  BY <1>2, <1>5
<1>7. RankAt(t, q) \in Int
      /\ Cut(t, q, RankAt(t, q)) /\ Cut(t, q, RankAt(t, q) + 1)
  BY <1>6, EntryCut DEF RankAt
<1>8. QED
  BY <1>6, <1>7 DEF OnEntry

(* Nothing is between p and its neighbour.                                 *)
LEMMA NextCut ==
  ASSUME NEW t, Sound(t), NEW lo, NEW hi, Ordered(t, lo, hi),
         NEW p, PathOf(t, p), NEW q, PathOf(t, q), NEW l,
         Neighbour(t, p, q, l, FALSE), NEW x \in Int, Cut(t, p, x),
         p[l].i < Len(Keys(t, p[l].n)),
         \A j \in 1..Len(Keys(t, p[0].n)) : RankOf(Keys(t, p[0].n)[j]) < x
  PROVE  /\ x <= RankAt(t, q)
         /\ \A y \in Ranks(t) : y \in Int /\ (y < x \/ RankAt(t, q) <= y)
<1> DEFINE v == RankAt(t, q)
<1>1. l \in 1..Top(t) /\ Top(t) \in Nat /\ l \in 0..Top(t) /\ l > 0
      /\ 0 \in 0..(l - 1) /\ 0 \in 0..Top(t) /\ l - 1 \in 0..Top(t)
  BY TopFacts DEF Neighbour
<1>2. /\ OnEntry(t, q) /\ q[0].i \in 1..Len(Keys(t, q[0].n)) /\ v \in Int
      /\ Cut(t, q, v)
  BY NeighbourFacts
<1>3. v = RankOf(Keys(t, q[0].n)[q[0].i])
  BY DEF RankAt
<1> HIDE DEF v
<1>4. /\ \A z \in 1..(l - 1) : p[z].i = Len(Keys(t, p[z].n))
      /\ \A z \in (l + 1)..Top(t) : q[z] = p[z]
      /\ q[l].n = p[l].n /\ q[l].i = p[l].i + 1
      /\ \A z \in 0..(l - 1) : q[z].i = 1
  BY DEF Neighbour
<1>5. p[l].i \in 1..Len(Keys(t, p[l].n)) /\ Len(Keys(t, p[l].n)) \in Nat
  BY <1>1, PathNode
<1>6. x <= v
  <2>1. PICK r \in Int : r = RankOf(Keys(t, p[l].n)[p[l].i])
    BY <1>1, <1>5, PathEntries
  <2>2. x <= r + 1
    BY <1>1, <1>5, <2>1 DEF Cut
  <2>3. r < lo[q[0].n] /\ lo[q[0].n] \in Int
    <3>1. p[l].i \in 1..Len(Keys(t, q[l].n)) /\ p[l].i < q[l].i
          /\ r = RankOf(Keys(t, q[l].n)[p[l].i])
      BY <1>4, <1>5, <2>1
    <3>2. QED
      BY <1>1, <3>1, PathEntries
  <2>4. lo[q[0].n] <= v
    BY <1>2, <1>3, LeafBounds
  <2>5. QED
    BY <1>2, <2>1, <2>2, <2>3, <2>4
<1>7. ASSUME NEW y \in Ranks(t)
      PROVE  y \in Int /\ (y < x \/ v <= y)
  <2>1. PICK r : PathOf(t, r) /\ OnEntry(t, r) /\ RankAt(t, r) = y
    BY RankFound
  <2>2. r[0].i \in 1..Len(Keys(t, r[0].n))
    BY <2>1, RankOfPath
  <2>3. y \in Int /\ y = RankOf(Keys(t, r[0].n)[r[0].i])
    BY <2>1, <2>2, LeafBounds DEF RankAt
  <2>4. CASE r[0].n = q[0].n
    <3>1. q[0].i = 1 /\ (r[0].i = 1 \/ 1 < r[0].i)
      BY <1>1, <1>4, <2>2
    <3>2. q[0].n \in InUse(t)
      BY <1>1, PathNode
    <3>3. v <= y
      BY <1>2, <1>3, <2>2, <2>3, <2>4, <3>1, <3>2, OrderFacts
    <3>4. QED
      BY <2>3, <3>3
  <2>5. CASE r[0].n # q[0].n
    <3>1. Top(t) \in 0..Top(t) /\ r[Top(t)].n = q[Top(t)].n
      BY <2>1, TopFacts DEF PathOf
    <3>2. PICK z \in 1..Top(t) : r[z].n = q[z].n /\ r[z].i # q[z].i
      BY <2>1, <2>5, <3>1, PathsPart
    <3>3. z \in 0..Top(t) /\ z > 0
      BY <1>1
    <3>4. /\ r[z].i \in 1..Len(Keys(t, r[z].n))
          /\ q[z].i \in 1..Len(Keys(t, q[z].n))
      BY <2>1, <3>3, PathNode
    <3>5. CASE q[z].i < r[z].i
      <4>1. q[z].i \in 1..Len(Keys(t, r[z].n)) /\ q[z].i <= q[z].i
        BY <3>2, <3>4
      <4>2. PICK g \in Int : v <= g /\ g < y
        BY <1>2, <1>3, <2>1, <2>2, <2>3, <3>2, <3>5, <4>1, PathsOrder, SMTT(30)
      <4>3. QED
        BY <1>2, <2>3, <4>2
    <3>6. CASE r[z].i < q[z].i
      <4>1. z >= l
        <5>1. SUFFICES ASSUME ~(z >= l) PROVE FALSE
          OBVIOUS
        <5>2. z \in 0..(l - 1)
          BY <1>1, <3>3, <5>1
        <5>3. q[z].i = 1
          BY <1>4, <5>2
        <5>4. QED
          BY <3>4, <3>6, <5>3
      <4>2. CASE r[z].n = p[z].n /\ r[z].i < p[z].i
        <5>1. r[z].i \in 1..Len(Keys(t, p[z].n))
          BY <3>4, <4>2
        <5>2. PICK g \in Int : g = RankOf(Keys(t, p[z].n)[r[z].i])
          <6>1. 0 \in 0..(z - 1)
            BY <1>1
          <6>2. QED
            BY <5>1, <6>1, PathEntries
        <5>3. g < x
          BY <4>2, <5>1, <5>2 DEF Cut
        <5>4. y <= g
          <6>1. 0 \in 0..(z - 1) /\ r[z].i >= r[z].i
            BY <1>1, <3>4
          <6>2. r[z].i \in 1..Len(Keys(t, r[z].n))
                /\ g = RankOf(Keys(t, r[z].n)[r[z].i])
            BY <3>4, <4>2, <5>2
          <6>3. hi[r[0].n] <= g /\ hi[r[0].n] \in Int
            BY <2>1, <6>1, <6>2, PathEntries
          <6>4. y <= hi[r[0].n]
            BY <2>1, <2>2, <2>3, LeafBounds
          <6>5. QED
            BY <2>3, <5>2, <6>3, <6>4
        <5>5. QED
          BY <2>3, <5>2, <5>3, <5>4
      <4>3. CASE z > l
        <5>1. z \in (l + 1)..Top(t)
          BY <1>1, <4>3
        <5>2. r[z].n = p[z].n /\ r[z].i < p[z].i
          BY <1>4, <3>2, <3>6, <5>1
        <5>3. QED
          BY <4>2, <5>2
      <4>4. CASE z = l
        <5>1. r[l].n = p[l].n /\ (r[l].i < p[l].i \/ r[l].i = p[l].i)
          BY <1>4, <1>5, <3>2, <3>4, <3>6, <4>4
        <5>2. CASE r[l].i < p[l].i
          BY <4>2, <4>4, <5>1, <5>2
        <5>3. CASE r[l].i = p[l].i
          <6>1. Keys(t, p[l].n)[p[l].i].to = p[l - 1].n
            BY <1>1, PathNode
          <6>2. Keys(t, r[l].n)[r[l].i].to = r[l - 1].n
            BY <1>1, <2>1, PathNode
          <6>3. r[l - 1].n = p[l - 1].n
            BY <5>1, <5>3, <6>1, <6>2
          <6>4. CASE r[0].n = p[0].n
            <7>1. y < x
              BY <2>2, <2>3, <6>4
            <7>2. QED
              BY <2>3, <7>1
          <6>5. CASE r[0].n # p[0].n
            <7>1. \/ y < x
                  \/ \E g \in 1..(l - 1) : p[g].i < Len(Keys(t, p[g].n))
              BY <1>1, <2>1, <6>3, <6>5, Sides
            <7>2. ASSUME NEW g \in 1..(l - 1)
                  PROVE  ~(p[g].i < Len(Keys(t, p[g].n)))
              <8>1. g \in 0..Top(t)
                BY <1>1
              <8>2. p[g].i \in Nat /\ p[g].i = Len(Keys(t, p[g].n))
                BY <1>4, <8>1, PathNode
              <8>3. QED
                BY <8>2
            <7>3. QED
              BY <2>3, <7>1, <7>2
          <6>6. QED
            BY <6>4, <6>5
        <5>4. QED
          BY <5>1, <5>2, <5>3
      <4>5. QED
        BY <1>1, <3>3, <4>1, <4>3, <4>4
    <3>7. QED
      BY <3>2, <3>4, <3>5, <3>6
  <2>6. QED
    BY <2>4, <2>5
<1>8. QED
  BY <1>6, <1>7 DEF v

(* No entry lies between the one before the path and x.                    *)
LEMMA PrevCut ==
  ASSUME NEW t, Sound(t), NEW lo, NEW hi, Ordered(t, lo, hi),
         NEW p, PathOf(t, p), NEW q, PathOf(t, q), NEW l,
         Neighbour(t, p, q, l, TRUE), NEW x \in Int, Cut(t, p, x),
         p[l].i > 1,
         \A j \in 1..Len(Keys(t, p[0].n)) : x <= RankOf(Keys(t, p[0].n)[j])
  PROVE  /\ RankAt(t, q) < x
         /\ \A y \in Ranks(t) : y \in Int /\ (y <= RankAt(t, q) \/ x <= y)
<1> DEFINE v == RankAt(t, q)
<1>1. l \in 1..Top(t) /\ Top(t) \in Nat /\ l \in 0..Top(t) /\ l > 0
      /\ 0 \in 0..(l - 1) /\ 0 \in 0..Top(t) /\ l - 1 \in 0..Top(t)
  BY TopFacts DEF Neighbour
<1>2. /\ OnEntry(t, q) /\ q[0].i \in 1..Len(Keys(t, q[0].n)) /\ v \in Int
      /\ Cut(t, q, v)
  BY NeighbourFacts
<1>3. v = RankOf(Keys(t, q[0].n)[q[0].i])
  BY DEF RankAt
<1> HIDE DEF v
<1>4. /\ \A z \in 1..(l - 1) : p[z].i = 1
      /\ \A z \in (l + 1)..Top(t) : q[z] = p[z]
      /\ q[l].n = p[l].n /\ q[l].i = p[l].i - 1
      /\ \A z \in 0..(l - 1) : q[z].i = Len(Keys(t, q[z].n))
  BY DEF Neighbour
<1>5. p[l].i \in 1..Len(Keys(t, p[l].n)) /\ Len(Keys(t, p[l].n)) \in Nat
  BY <1>1, PathNode
<1>6. v < x
  <2>0. q[l].i \in 1..Len(Keys(t, p[l].n)) /\ q[l].i < p[l].i
    BY <1>4, <1>5
  <2>1. PICK r \in Int : r = RankOf(Keys(t, p[l].n)[q[l].i])
    BY <1>1, <2>0, PathEntries
  <2>2. r < x
    BY <1>1, <2>0, <2>1 DEF Cut
  <2>3. hi[q[0].n] <= r /\ hi[q[0].n] \in Int
    <3>1. q[l].i \in 1..Len(Keys(t, q[l].n)) /\ q[l].i >= q[l].i
          /\ r = RankOf(Keys(t, q[l].n)[q[l].i])
      BY <1>4, <2>0, <2>1
    <3>2. QED
      BY <1>1, <3>1, PathEntries
  <2>4. v <= hi[q[0].n]
    BY <1>2, <1>3, LeafBounds
  <2>5. QED
    BY <1>2, <2>1, <2>2, <2>3, <2>4
<1>7. ASSUME NEW y \in Ranks(t)
      PROVE  y \in Int /\ (y <= v \/ x <= y)
  <2>1. PICK r : PathOf(t, r) /\ OnEntry(t, r) /\ RankAt(t, r) = y
    BY RankFound
  <2>2. r[0].i \in 1..Len(Keys(t, r[0].n))
    BY <2>1, RankOfPath
  <2>3. y \in Int /\ y = RankOf(Keys(t, r[0].n)[r[0].i])
    BY <2>1, <2>2, LeafBounds DEF RankAt
  <2>4. CASE r[0].n = q[0].n
    <3>0. Len(Keys(t, q[0].n)) \in Nat
      BY <1>1, PathNode
    <3>1. q[0].i = r[0].i \/ r[0].i < q[0].i
      BY <1>1, <1>2, <1>4, <2>2, <2>4, <3>0
    <3>2. q[0].n \in InUse(t)
      BY <1>1, PathNode
    <3>3. y <= v
      BY <1>2, <1>3, <2>2, <2>3, <2>4, <3>1, <3>2, OrderFacts
    <3>4. QED
      BY <2>3, <3>3
  <2>5. CASE r[0].n # q[0].n
    <3>1. Top(t) \in 0..Top(t) /\ r[Top(t)].n = q[Top(t)].n
      BY <2>1, TopFacts DEF PathOf
    <3>2. PICK z \in 1..Top(t) : r[z].n = q[z].n /\ r[z].i # q[z].i
      BY <2>1, <2>5, <3>1, PathsPart
    <3>3. z \in 0..Top(t) /\ z > 0
      BY <1>1
    <3>4. /\ r[z].i \in 1..Len(Keys(t, r[z].n))
          /\ q[z].i \in 1..Len(Keys(t, q[z].n))
          /\ Len(Keys(t, r[z].n)) \in Nat
      BY <2>1, <3>3, PathNode
    <3>5. CASE r[z].i < q[z].i
      <4>1. r[z].i \in 1..Len(Keys(t, q[z].n)) /\ r[z].i <= r[z].i
        BY <3>2, <3>4
      <4>2. PICK g \in Int : y <= g /\ g < v
        BY <1>2, <1>3, <2>1, <2>2, <2>3, <3>2, <3>5, <4>1, PathsOrder
      <4>3. QED
        BY <1>2, <2>3, <4>2
    <3>6. CASE q[z].i < r[z].i
      <4>1. z >= l
        <5>1. SUFFICES ASSUME ~(z >= l) PROVE FALSE
          OBVIOUS
        <5>2. z \in 0..(l - 1)
          BY <1>1, <3>3, <5>1
        <5>3. q[z].i = Len(Keys(t, q[z].n))
          BY <1>4, <5>2
        <5>4. QED
          BY <3>2, <3>4, <3>6, <5>3
      <4>2. CASE r[z].n = p[z].n /\ p[z].i < r[z].i
        <5>1. p[z].i \in 1..Len(Keys(t, p[z].n)) /\ p[z].i >= p[z].i
              /\ p[z].i < Len(Keys(t, p[z].n))
          <6>1. p[z].i \in 1..Len(Keys(t, p[z].n))
            BY <3>3, PathNode
          <6>2. QED
            BY <3>4, <4>2, <6>1
        <5>2. PICK g \in Int : g = RankOf(Keys(t, p[z].n)[p[z].i])
          <6>1. 0 \in 0..(z - 1)
            BY <1>1
          <6>2. QED
            BY <5>1, <6>1, PathEntries
        <5>3. x <= g + 1
          BY <5>1, <5>2 DEF Cut
        <5>4. g < y
          <6>1. 0 \in 0..(z - 1)
            BY <1>1
          <6>2. p[z].i \in 1..Len(Keys(t, r[z].n))
                /\ g = RankOf(Keys(t, r[z].n)[p[z].i])
            BY <4>2, <5>1, <5>2
          <6>3. g < lo[r[0].n] /\ lo[r[0].n] \in Int
            BY <2>1, <4>2, <6>1, <6>2, PathEntries
          <6>4. lo[r[0].n] <= y
            BY <2>1, <2>2, <2>3, LeafBounds
          <6>5. QED
            BY <2>3, <5>2, <6>3, <6>4
        <5>5. QED
          BY <2>3, <5>2, <5>3, <5>4
      <4>3. CASE z > l
        <5>1. z \in (l + 1)..Top(t)
          BY <1>1, <4>3
        <5>2. r[z].n = p[z].n /\ p[z].i < r[z].i
          BY <1>4, <3>2, <3>6, <5>1
        <5>3. QED
          BY <4>2, <5>2
      <4>4. CASE z = l
        <5>1. r[l].n = p[l].n /\ (p[l].i < r[l].i \/ r[l].i = p[l].i)
          BY <1>4, <1>5, <3>2, <3>4, <3>6, <4>4
        <5>2. CASE p[l].i < r[l].i
          BY <4>2, <4>4, <5>1, <5>2
        <5>3. CASE r[l].i = p[l].i
          <6>1. Keys(t, p[l].n)[p[l].i].to = p[l - 1].n
            BY <1>1, PathNode
          <6>2. Keys(t, r[l].n)[r[l].i].to = r[l - 1].n
            BY <1>1, <2>1, PathNode
          <6>3. r[l - 1].n = p[l - 1].n
            BY <5>1, <5>3, <6>1, <6>2
          <6>4. CASE r[0].n = p[0].n
            <7>1. x <= y
              BY <2>2, <2>3, <6>4
            <7>2. QED
              BY <2>3, <7>1
          <6>5. CASE r[0].n # p[0].n
            <7>1. y >= x \/ \E g \in 1..(l - 1) : p[g].i > 1
              BY <1>1, <2>1, <6>3, <6>5, Sides
            <7>2. ASSUME NEW g \in 1..(l - 1)
                  PROVE  ~(p[g].i > 1)
              BY <1>4
            <7>3. QED
              BY <2>3, <7>1, <7>2
          <6>6. QED
            BY <6>4, <6>5
        <5>4. QED
          BY <5>1, <5>2, <5>3
      <4>5. QED
        BY <1>1, <3>3, <4>1, <4>3, <4>4
    <3>7. QED
      BY <3>2, <3>4, <3>5, <3>6
  <2>6. QED
    BY <2>4, <2>5
<1>8. QED
  BY <1>6, <1>7 DEF v

(* An entry of a node above is the only one that names its child.          *)
LEMMA OneSlot ==
  ASSUME NEW t, Sound(t), NEW n \in InUse(t), LevelOf(t, n) > 0,
         NEW m \in InUse(t), LevelOf(t, m) > 0,
         NEW i \in 1..Len(Keys(t, n)), NEW j \in 1..Len(Keys(t, m)),
         Keys(t, n)[i].to = Keys(t, m)[j].to
  PROVE  n = m /\ i = j
<1>1. PICK up : Hung(t, up, {}, {})
  BY DEF Sound, Hangs
<1>2. i \in DOMAIN Keys(t, n) /\ j \in DOMAIN Keys(t, m)
  BY UsedFacts
<1>3. Keys(t, n)[i].to \in Kids(t, n) /\ Keys(t, m)[j].to \in Kids(t, m)
  BY <1>2 DEF Kids, KidsOf
<1>4. n = m
  <2>1. up[Keys(t, n)[i].to] = n
    BY <1>1, <1>3 DEF Hung
  <2>2. up[Keys(t, m)[j].to] = m
    BY <1>1, <1>3 DEF Hung
  <2>3. QED
    BY <2>1, <2>2
<1>5. Distinct(LevelOf(t, n), Keys(t, n))
  BY <1>1 DEF Hung
<1>6. QED
  BY <1>2, <1>4, <1>5 DEF Distinct

(* The marks of the nodes in memory say no more than is true.              *)
Marked(t, m) ==
  /\ 1 \in DOMAIN m => m[1] = RootMarks
  /\ \A n \in InUse(t) : LevelOf(t, n) > 0 =>
       \A i \in 1..Len(Keys(t, n)) :
         LET c == Keys(t, n)[i].to IN
         c \in DOMAIN m =>
           /\ n \in DOMAIN m
           /\ m[c].tof => m[n].tof /\ i = 1
           /\ m[c].eof => m[n].eof /\ i = Len(Keys(t, n))

(* Loading a path keeps the marks right.                                   *)
LEMMA LoadMarked ==
  ASSUME NEW t, Sound(t), NEW p, PathOf(t, p), NEW m \in Memories(t),
         Marked(t, m)
  PROVE  Marked(t, Loaded(t, m, p))
<1> DEFINE D == Loaded(t, m, p)
           mk == MarksOf(t, m, p)
           S == {p[l].n : l \in 0..Top(t)}
<1>1. /\ DOMAIN D = DOMAIN m \union S
      /\ \A l \in 0..Top(t) : D[p[l].n] = mk[l]
      /\ \A n \in DOMAIN m \ S : D[n] = m[n]
  <2>1. Holding(t, m, p, D)
    BY LoadedFacts
  <2> HIDE DEF D
  <2>2. QED
    BY <2>1 DEF Holding
<1>2. /\ \A l \in 0..Top(t) : mk[l] \in Marks
      /\ mk[Top(t)] = RootMarks
      /\ \A l \in 0..(Top(t) - 1) :
           mk[l] = IF p[l].n \in DOMAIN m THEN m[p[l].n]
                   ELSE [tof |-> mk[l + 1].tof /\ p[l + 1].i = 1,
                         eof |-> mk[l + 1].eof
                                 /\ p[l + 1].i = Len(Keys(t, p[l + 1].n))]
  BY MarksFacts
<1>3. Top(t) \in Nat /\ Top(t) \in 0..Top(t) /\ p[Top(t)].n = 1
  BY TopFacts DEF PathOf
<1>4. D[1] = RootMarks
  BY <1>1, <1>2, <1>3
<1> HIDE DEF D, mk
<1>5. ASSUME NEW l \in 0..Top(t), p[l].n \in DOMAIN m
      PROVE  mk[l] = m[p[l].n]
  <2>1. CASE l = Top(t)
    BY <1>2, <1>3, <1>5, <2>1 DEF Marked
  <2>2. CASE l # Top(t)
    <3>1. l \in 0..(Top(t) - 1)
      BY <1>3, <2>2
    <3>2. QED
      BY <1>2, <1>5, <3>1
  <2>3. QED
    BY <2>1, <2>2
<1>6. ASSUME NEW n \in DOMAIN m
      PROVE  n \in DOMAIN D /\ D[n] = m[n]
  BY <1>1, <1>5
<1>7. ASSUME NEW n \in InUse(t), LevelOf(t, n) > 0,
             NEW i \in 1..Len(Keys(t, n)), Keys(t, n)[i].to \in DOMAIN D
      PROVE  LET c == Keys(t, n)[i].to IN
             /\ n \in DOMAIN D
             /\ D[c].tof => D[n].tof /\ i = 1
             /\ D[c].eof => D[n].eof /\ i = Len(Keys(t, n))
  <2> DEFINE c == Keys(t, n)[i].to
  <2>1. CASE c \in DOMAIN m
    <3>1. /\ n \in DOMAIN m
          /\ m[c].tof => m[n].tof /\ i = 1
          /\ m[c].eof => m[n].eof /\ i = Len(Keys(t, n))
      BY <1>7, <2>1 DEF Marked
    <3>2. D[c] = m[c] /\ D[n] = m[n] /\ n \in DOMAIN D
      BY <1>6, <2>1, <3>1
    <3>3. QED
      BY <3>1, <3>2
  <2>2. CASE c \notin DOMAIN m
    <3>1. PICK l \in 0..Top(t) : c = p[l].n
      BY <1>1, <1>7, <2>2
    <3>2. LevelOf(t, c) = l /\ LevelOf(t, c) = LevelOf(t, n) - 1
          /\ LevelOf(t, n) \in Nat /\ LevelOf(t, n) <= Top(t)
      <4>1. LevelOf(t, c) = LevelOf(t, n) - 1
        BY <1>7, ChildFacts
      <4>2. LevelOf(t, n) \in Nat /\ LevelOf(t, n) <= Top(t)
        BY UsedFacts
      <4>3. LevelOf(t, c) = l
        BY <3>1, PathNode
      <4>4. QED
        BY <4>1, <4>2, <4>3
    <3>3. l \in 0..(Top(t) - 1) /\ l + 1 \in 0..Top(t) /\ l + 1 > 0
          /\ (l + 1) - 1 = l
      BY <1>3, <3>2
    <3>4. /\ p[l + 1].n \in InUse(t) /\ LevelOf(t, p[l + 1].n) = l + 1
          /\ p[l + 1].i \in 1..Len(Keys(t, p[l + 1].n))
          /\ Keys(t, p[l + 1].n)[p[l + 1].i].to = p[l].n
      BY <3>3, PathNode
    <3>5. n = p[l + 1].n /\ i = p[l + 1].i
      BY <1>7, <3>1, <3>3, <3>4, OneSlot
    <3>6. D[c] = mk[l] /\ D[n] = mk[l + 1] /\ n \in DOMAIN D
      BY <1>1, <3>1, <3>3, <3>5
    <3>7. mk[l] = [tof |-> mk[l + 1].tof /\ p[l + 1].i = 1,
                   eof |-> mk[l + 1].eof
                           /\ p[l + 1].i = Len(Keys(t, p[l + 1].n))]
      BY <1>2, <2>2, <3>1, <3>3
    <3>8. /\ mk[l].tof => mk[l + 1].tof /\ i = 1
          /\ mk[l].eof => mk[l + 1].eof /\ i = Len(Keys(t, n))
      <4>1. mk[l].tof = (mk[l + 1].tof /\ p[l + 1].i = 1)
            /\ mk[l].eof = (mk[l + 1].eof
                            /\ p[l + 1].i = Len(Keys(t, p[l + 1].n)))
        <5> DEFINE a == mk[l + 1].tof /\ p[l + 1].i = 1
                   b == mk[l + 1].eof /\ p[l + 1].i = Len(Keys(t, p[l + 1].n))
        <5>1. mk[l] = [tof |-> a, eof |-> b]
          BY <3>7, Zenon
        <5> HIDE DEF a, b
        <5>2. mk[l].tof = a /\ mk[l].eof = b
          BY <5>1
        <5>3. QED
          BY <5>2, Zenon DEF a, b
      <4>2. QED
        BY <3>5, <4>1
    <3>9. QED
      BY <3>6, <3>8
  <2>3. QED
    BY <2>1, <2>2
<1>8. QED
  BY <1>4, <1>7 DEF Marked, D

(* A leaf that is marked hangs at the edge of the tree all the way up.     *)
LEMMA MarksEdge ==
  ASSUME NEW t, Sound(t), NEW p, PathOf(t, p), NEW m, Marked(t, m),
         p[0].n \in DOMAIN m, NEW last \in BOOLEAN,
         IF last THEN m[p[0].n].eof ELSE m[p[0].n].tof
  PROVE  \A l \in 1..Top(t) :
           p[l].i = IF last THEN Len(Keys(t, p[l].n)) ELSE 1
<1> DEFINE Edged(l) == /\ p[l].n \in DOMAIN m
                       /\ IF last THEN m[p[l].n].eof ELSE m[p[l].n].tof
           T == {l \in 0..Top(t) : ~Edged(l)}
<1>1. Top(t) \in Nat
  BY TopFacts
<1>2. ASSUME NEW l \in 1..Top(t), Edged(l - 1)
      PROVE  /\ Edged(l)
             /\ p[l].i = IF last THEN Len(Keys(t, p[l].n)) ELSE 1
  <2>1. l \in 0..Top(t) /\ l > 0
    BY <1>1
  <2>2. /\ p[l].n \in InUse(t) /\ LevelOf(t, p[l].n) > 0
        /\ p[l].i \in 1..Len(Keys(t, p[l].n))
        /\ Keys(t, p[l].n)[p[l].i].to = p[l - 1].n
    BY <2>1, PathNode, SMTT(30)
  <2>3. /\ p[l].n \in DOMAIN m
        /\ m[p[l - 1].n].tof => m[p[l].n].tof /\ p[l].i = 1
        /\ m[p[l - 1].n].eof => m[p[l].n].eof
                                /\ p[l].i = Len(Keys(t, p[l].n))
    BY <1>2, <2>2 DEF Marked
  <2>4. QED
    BY <1>2, <2>3
<1>3. T = {}
  <2> SUFFICES ASSUME T # {} PROVE FALSE
    OBVIOUS
  <2>1. T \in SUBSET Nat
    BY <1>1
  <2>2. PICK y \in T : \A z \in T : y <= z
    <3> HIDE DEF T
    <3>1. QED
      BY <2>1, LeastNumber
  <2>3. Edged(0)
    OBVIOUS
  <2>4. y \in 0..Top(t) /\ y # 0 /\ ~Edged(y)
    BY <2>2, <2>3
  <2>5. y \in 1..Top(t) /\ y - 1 \in 0..Top(t) /\ ~(y <= y - 1)
    BY <1>1, <2>4
  <2>6. Edged(y - 1)
    BY <2>2, <2>5
  <2> HIDE DEF Edged
  <2>7. QED
    BY <1>2, <2>4, <2>5, <2>6
<1>4. \A l \in 1..Top(t) : l - 1 \in 0..Top(t)
  BY <1>1
<1>5. \A l \in 1..Top(t) : Edged(l - 1)
  BY <1>3, <1>4
<1> HIDE DEF Edged, T
<1>6. QED
  BY <1>2, <1>5

(* The leaf of p from place i on, and what is behind it, is from x on.     *)
Parts(t, p, i, x) ==
  /\ Cut(t, p, x)
  /\ \A j \in 1..Len(Keys(t, p[0].n)) :
       LET r == RankOf(Keys(t, p[0].n)[j]) IN
       /\ j < i => r < x
       /\ j >= i => x <= r

(* A path ends on the least entry from rank x on, or on the greatest below *)
(* it.                                                                     *)
LeastFrom(t, p, x) ==
  /\ OnEntry(t, p) /\ RankAt(t, p) \in Int /\ x <= RankAt(t, p)
  /\ \A y \in Ranks(t) : y \in Int /\ (y < x \/ RankAt(t, p) <= y)

(* Likewise for the greatest below.                                        *)
GreatestBelow(t, p, x) ==
  /\ OnEntry(t, p) /\ RankAt(t, p) \in Int /\ RankAt(t, p) < x
  /\ \A y \in Ranks(t) : y \in Int /\ (y <= RankAt(t, p) \/ x <= y)

(* An outcome of a search or of a step on: the least entry from rank x on, *)
(* or that there is none. A step through a NULL pointer (null) can only    *)
(* happen where there is none.                                             *)
StepsOn(t, v, x) ==
  /\ v \in Outs(t) /\ Marked(t, v.mem)
  /\ v.st \in {"ok", "end", "null"}
  /\ v.st = "ok" => LeastFrom(t, v.path, x)
  /\ v.st # "ok" => \A y \in Ranks(t) : y \in Int /\ y < x

(* An outcome of a step back: the greatest entry below rank x, or that there*)
(* is none.                                                                *)
StepsBack(t, v, x) ==
  /\ v \in Outs(t) /\ Marked(t, v.mem)
  /\ v.st \in {"ok", "end", "null"}
  /\ v.st = "ok" => GreatestBelow(t, v.path, x)
  /\ v.st = "end" => \A y \in Ranks(t) : y \in Int /\ x <= y

(* A climb, where it ends on an entry, ends on the neighbour.              *)
LEMMA ClimbEnds ==
  ASSUME NEW t, Sound(t), NEW w \in Outs(t), NEW last \in BOOLEAN,
         Marked(t, w.mem), w.st = "ok"
  PROVE  LET v == Climb(t, w, last) IN
         /\ v \in Outs(t) /\ Marked(t, v.mem) /\ v.st \in {"ok", "null"}
         /\ v.st = "null" => \A l \in 1..Top(t) : Edge(t, w.path, l, ~last)
         /\ v.st = "ok" =>
              \E l \in 1..Top(t) :
                /\ PathOf(t, v.path) /\ Neighbour(t, w.path, v.path, l, last)
                /\ IF last THEN w.path[l].i > 1
                   ELSE w.path[l].i < Len(Keys(t, w.path[l].n))
<1> DEFINE v == Climb(t, w, last)
           open == Open(t, w.path, last)
           l == Min(open)
           i == IF last THEN w.path[l].i - 1 ELSE w.path[l].i + 1
           q == Down(t, w.path, l, i, last)
<1>1. ClimbsTo(t, w, last) /\ v \in Outs(t)
  BY ClimbFacts DEF ClimbsTo
<1>2. w.mem \in Memories(t) /\ PathOf(t, w.path)
  BY OutsFacts
<1>3. CASE open = {}
  <2>1. v = [w EXCEPT !.st = "null"] /\ "null" \in States
    BY <1>1, <1>3 DEF ClimbsTo, States
  <2>2. v.st = "null" /\ v.mem = w.mem
    BY <2>1, EndFacts
  <2>3. \A x \in 1..Top(t) : Edge(t, w.path, x, ~last)
    BY <1>3 DEF Open
  <2>4. QED
    BY <1>1, <2>2, <2>3
<1>4. CASE open # {}
  <2>1. /\ l \in 1..Top(t) /\ i \in 1..Len(Keys(t, w.path[l].n))
        /\ \A x \in 1..(l - 1) : Edge(t, w.path, x, ~last)
        /\ v = StepTo(t, w.mem, q) /\ PathOf(t, q)
        /\ \A x \in (l + 1)..Top(t) : q[x] = w.path[x]
        /\ q[l] = [n |-> w.path[l].n, i |-> i]
        /\ \A x \in 0..(l - 1) :
             q[x].i = IF last THEN Len(Keys(t, q[x].n)) ELSE 1
    BY <1>1, <1>4 DEF ClimbsTo
  <2> HIDE DEF q, open, v
  <2>2. v.st = "ok" /\ v.path = q /\ v.mem = Loaded(t, w.mem, q)
    BY <1>2, <2>1, StepToFacts
  <2>3. Marked(t, v.mem)
    BY <1>2, <2>1, <2>2, LoadMarked
  <2>4. \A x \in 1..(l - 1) :
          w.path[x].i = IF last THEN 1 ELSE Len(Keys(t, w.path[x].n))
    BY <2>1 DEF Edge
  <2>5. q[l].n = w.path[l].n /\ q[l].i = i
    BY <2>1
  <2> HIDE DEF l
  <2>6. Neighbour(t, w.path, q, l, last)
    BY <2>1, <2>4, <2>5 DEF Neighbour
  <2>7. IF last THEN w.path[l].i > 1
        ELSE w.path[l].i < Len(Keys(t, w.path[l].n))
    <3>1. l \in 0..Top(t)
      BY <2>1, TopFacts
    <3>2. w.path[l].i \in Nat /\ Len(Keys(t, w.path[l].n)) \in Nat
      BY <1>2, <3>1, PathNode
    <3>3. QED
      BY <2>1, <3>2
  <2>8. QED
    BY <1>1, <2>1, <2>2, <2>3, <2>6, <2>7 DEF v
<1>5. QED
  BY <1>3, <1>4

(* ivbkeyload (ISNEXT) from a place in front of which all is below x.      *)
LEMMA NextStepFacts ==
  ASSUME NEW t, Sound(t), NEW lo, NEW hi, Ordered(t, lo, hi),
         NEW w \in Outs(t), w.st = "ok", Marked(t, w.mem), NEW x \in Int,
         Parts(t, w.path, w.path[0].i + 1, x)
  PROVE  StepsOn(t, ivbkeyloadNext(t, w), x)
<1> DEFINE v == ivbkeyloadNext(t, w)
           p == w.path
           s == Keys(t, p[0].n)
           i == p[0].i
<1>1. /\ PathOf(t, p) /\ w.mem \in Memories(t) /\ p[0].n \in DOMAIN w.mem
      /\ i \in 1..(Len(s) + 1) /\ Len(s) \in Nat
  <2>1. PathOf(t, p) /\ w.mem \in Memories(t)
        /\ \A l \in 0..Top(t) : p[l].n \in DOMAIN w.mem
    BY OutsFacts
  <2>2. QED
    BY <2>1, LeafFacts
<1>2. /\ v \in Outs(t)
      /\ i < Len(s) => v = Shift(w, 1)
      /\ ~(i < Len(s)) => v = IF w.mem[p[0].n].eof
                              THEN [w EXCEPT !.st = "end"]
                              ELSE Climb(t, w, FALSE)
  BY NextFacts
<1>3. /\ Cut(t, p, x)
      /\ \A j \in 1..Len(s) : /\ j < i + 1 => RankOf(s[j]) < x
                              /\ j >= i + 1 => x <= RankOf(s[j])
  BY DEF Parts
<1>0. w.st = "ok" /\ Marked(t, w.mem)
  OBVIOUS
<1> HIDE DEF v, p
<1>4. CASE i < Len(s)
  <2>1. i + 1 \in 1..(Len(s) + 1) /\ i + 1 \in 1..Len(s) /\ i + 1 <= Len(s)
    BY <1>1, <1>4
  <2>2. /\ v.st = "ok" /\ v.mem = w.mem
        /\ v.path[0].n = p[0].n /\ v.path[0].i = i + 1
    <3>1. w.path[0].i + 1 \in 1..(Len(Keys(t, w.path[0].n)) + 1)
      BY <2>1 DEF p
    <3>2. 1 \in Int /\ 0 \in 0..Top(t)
      BY TopFacts
    <3>3. /\ Shift(w, 1).st = w.st /\ Shift(w, 1).mem = w.mem
          /\ \A l \in 0..Top(t) : Shift(w, 1).path[l].n = w.path[l].n
          /\ Shift(w, 1).path[0].i = w.path[0].i + 1
      BY <3>1, <3>2, ShiftFacts
    <3>4. QED
      BY <1>0, <1>2, <1>4, <3>2, <3>3 DEF p
  <2>3. RankAt(t, v.path) = RankOf(s[i + 1]) /\ OnEntry(t, v.path)
    BY <2>1, <2>2 DEF RankAt, OnEntry
  <2>4. x <= RankOf(s[i + 1]) /\ RankOf(s[i + 1]) \in Int
    <3>1. i + 1 >= i + 1
      BY <1>1
    <3>2. RankOf(s[i + 1]) \in Int
      BY <1>1, <2>1, LeafBounds
    <3>3. QED
      BY <1>3, <2>1, <3>1, <3>2
  <2>5. ASSUME NEW y \in Ranks(t)
        PROVE  y \in Int /\ (y < x \/ RankOf(s[i + 1]) <= y)
    BY <1>1, <1>3, <2>1, CutHere
  <2>6. LeastFrom(t, v.path, x)
    BY <2>3, <2>4, <2>5 DEF LeastFrom
  <2>7. QED
    BY <1>0, <1>2, <2>2, <2>6 DEF StepsOn, v
<1>5. CASE ~(i < Len(s)) /\ w.mem[p[0].n].eof
  <2>1. v = [w EXCEPT !.st = "end"] /\ "end" \in States
    BY <1>2, <1>5 DEF States
  <2>2. v.st = "end" /\ v.mem = w.mem
    BY <2>1, EndFacts
  <2>3. \A l \in 1..Top(t) : p[l].i = IF TRUE THEN Len(Keys(t, p[l].n)) ELSE 1
    <3>1. TRUE \in BOOLEAN /\ IF TRUE THEN w.mem[p[0].n].eof
                              ELSE w.mem[p[0].n].tof
      BY <1>5
    <3>2. QED
      BY <1>0, <1>1, <3>1, MarksEdge
  <2>4. \A j \in 1..Len(s) : IF TRUE THEN RankOf(s[j]) < x
          ELSE x <= RankOf(s[j])
    BY <1>1, <1>3, <1>5
  <2>5. ASSUME NEW y \in Ranks(t)
        PROVE  y \in Int /\ y < x
    <3>1. y \in Int /\ IF TRUE THEN y < x ELSE x <= y
      BY <1>1, <1>3, <2>3, <2>4, EdgeCut
    <3>2. QED
      BY <3>1
  <2>6. QED
    BY <1>0, <1>2, <2>2, <2>5 DEF StepsOn, v
<1>6. CASE ~(i < Len(s)) /\ ~w.mem[p[0].n].eof
  <2>1. v = Climb(t, w, FALSE) /\ FALSE \in BOOLEAN
    BY <1>2, <1>6
  <2>2. /\ Marked(t, v.mem) /\ v.st \in {"ok", "null"}
        /\ v.st = "ok" =>
             \E l \in 1..Top(t) :
               /\ PathOf(t, v.path) /\ Neighbour(t, w.path, v.path, l, FALSE)
               /\ w.path[l].i < Len(Keys(t, w.path[l].n))
        /\ v.st = "null" => \A l \in 1..Top(t) : Edge(t, w.path, l, ~FALSE)
    BY <1>0, <2>1, ClimbEnds
  <2>5. ASSUME v.st = "null", NEW y \in Ranks(t)
        PROVE  y \in Int /\ y < x
    <3>1. \A l \in 1..Top(t) : p[l].i = IF TRUE THEN Len(Keys(t, p[l].n))
            ELSE 1
      BY <2>2, <2>5 DEF Edge, p
    <3>2. \A j \in 1..Len(s) :
            IF TRUE THEN RankOf(s[j]) < x ELSE x <= RankOf(s[j])
      BY <1>1, <1>3, <1>6
    <3>3. TRUE \in BOOLEAN
      OBVIOUS
    <3>4. y \in Int /\ IF TRUE THEN y < x ELSE x <= y
      BY <1>1, <1>3, <3>1, <3>2, <3>3, EdgeCut
    <3>5. QED
      BY <3>4
  <2>3. ASSUME v.st = "ok" PROVE LeastFrom(t, v.path, x)
    <3>1. PICK l \in 1..Top(t) :
            /\ PathOf(t, v.path) /\ Neighbour(t, p, v.path, l, FALSE)
            /\ p[l].i < Len(Keys(t, p[l].n))
      BY <2>2, <2>3 DEF p
    <3>2. \A j \in 1..Len(s) : RankOf(s[j]) < x
      BY <1>1, <1>3, <1>6
    <3>3. /\ x <= RankAt(t, v.path)
          /\ \A y \in Ranks(t) : y \in Int /\ (y < x \/ RankAt(t, v.path) <= y)
      BY <1>1, <1>3, <3>1, <3>2, NextCut
    <3>4. OnEntry(t, v.path) /\ RankAt(t, v.path) \in Int
      BY <1>1, <3>1, NeighbourFacts
    <3>5. QED
      BY <3>3, <3>4 DEF LeastFrom
  <2>6. \A y \in Ranks(t) : v.st = "null" => y \in Int /\ y < x
    BY <2>5
  <2>4. QED
    BY <1>2, <2>2, <2>3, <2>6 DEF StepsOn, v
<1>7. QED
  BY <1>4, <1>5, <1>6

(* ivbkeyload (ISPREV) from a place from which on all is from x.           *)
LEMMA PrevStepFacts ==
  ASSUME NEW t, Sound(t), NEW lo, NEW hi, Ordered(t, lo, hi),
         NEW w \in Outs(t), w.st = "ok", Marked(t, w.mem), NEW x \in Int,
         Parts(t, w.path, w.path[0].i, x)
  PROVE  StepsBack(t, ivbkeyloadPrev(t, w), x)
<1> DEFINE v == ivbkeyloadPrev(t, w)
           p == w.path
           s == Keys(t, p[0].n)
           i == p[0].i
<1>1. /\ PathOf(t, p) /\ w.mem \in Memories(t) /\ p[0].n \in DOMAIN w.mem
      /\ i \in 1..(Len(s) + 1) /\ Len(s) \in Nat
  <2>1. PathOf(t, p) /\ w.mem \in Memories(t)
        /\ \A l \in 0..Top(t) : p[l].n \in DOMAIN w.mem
    BY OutsFacts
  <2>2. QED
    BY <2>1, LeafFacts
<1>2. /\ v \in Outs(t)
      /\ i > 1 => v = Shift(w, -1)
      /\ i = 1 => v = IF w.mem[p[0].n].tof
                      THEN [w EXCEPT !.st = "end"] ELSE Climb(t, w, TRUE)
  BY PrevFacts
<1>3. /\ Cut(t, p, x)
      /\ \A j \in 1..Len(s) : /\ j < i => RankOf(s[j]) < x
                              /\ j >= i => x <= RankOf(s[j])
  BY DEF Parts
<1>0. w.st = "ok" /\ Marked(t, w.mem)
  OBVIOUS
<1> HIDE DEF v, p
<1>4. CASE i > 1
  <2>1. i + (-1) \in 1..(Len(s) + 1) /\ i - 1 \in 1..Len(s) /\ i + (-1) = i - 1
        /\ i - 1 <= Len(s)
    BY <1>1, <1>4
  <2>2. /\ v.st = "ok" /\ v.mem = w.mem
        /\ v.path[0].n = p[0].n /\ v.path[0].i = i - 1
    <3>1. w.path[0].i + (-1) \in 1..(Len(Keys(t, w.path[0].n)) + 1)
      BY <2>1 DEF p
    <3>2. -1 \in Int /\ 0 \in 0..Top(t)
      BY TopFacts
    <3>3. /\ Shift(w, -1).st = w.st /\ Shift(w, -1).mem = w.mem
          /\ \A l \in 0..Top(t) : Shift(w, -1).path[l].n = w.path[l].n
          /\ Shift(w, -1).path[0].i = w.path[0].i + (-1)
      BY <3>1, <3>2, ShiftFacts
    <3>4. QED
      BY <1>0, <1>2, <1>4, <2>1, <3>2, <3>3 DEF p
  <2>3. RankAt(t, v.path) = RankOf(s[i - 1]) /\ OnEntry(t, v.path)
    BY <2>1, <2>2 DEF RankAt, OnEntry
  <2>4. RankOf(s[i - 1]) < x /\ RankOf(s[i - 1]) \in Int
    <3>1. i - 1 < i
      BY <1>1
    <3>2. RankOf(s[i - 1]) \in Int
      BY <1>1, <2>1, LeafBounds
    <3>3. QED
      BY <1>3, <2>1, <3>1, <3>2
  <2>5. ASSUME NEW y \in Ranks(t)
        PROVE  y \in Int /\ (y <= RankOf(s[i - 1]) \/ x <= y)
    BY <1>1, <1>3, <1>4, CutHere
  <2>6. GreatestBelow(t, v.path, x)
    BY <2>3, <2>4, <2>5 DEF GreatestBelow
  <2>7. QED
    BY <1>0, <1>2, <2>2, <2>6 DEF StepsBack, v
<1>5. CASE i = 1 /\ w.mem[p[0].n].tof
  <2>1. v = [w EXCEPT !.st = "end"] /\ "end" \in States
    BY <1>2, <1>5 DEF States
  <2>2. v.st = "end" /\ v.mem = w.mem
    BY <2>1, EndFacts
  <2>3. \A l \in 1..Top(t) : p[l].i = IF FALSE THEN Len(Keys(t, p[l].n)) ELSE 1
    <3>1. FALSE \in BOOLEAN /\ IF FALSE THEN w.mem[p[0].n].eof
                               ELSE w.mem[p[0].n].tof
      BY <1>5
    <3>2. QED
      BY <1>0, <1>1, <3>1, MarksEdge
  <2>4. \A j \in 1..Len(s) : IF FALSE THEN RankOf(s[j]) < x
          ELSE x <= RankOf(s[j])
    BY <1>1, <1>3, <1>5
  <2>5. ASSUME NEW y \in Ranks(t)
        PROVE  y \in Int /\ x <= y
    <3>1. y \in Int /\ IF FALSE THEN y < x ELSE x <= y
      BY <1>1, <1>3, <2>3, <2>4, EdgeCut
    <3>2. QED
      BY <3>1
  <2>6. QED
    BY <1>0, <1>2, <2>2, <2>5 DEF StepsBack, v
<1>6. CASE i = 1 /\ ~w.mem[p[0].n].tof
  <2>1. v = Climb(t, w, TRUE) /\ TRUE \in BOOLEAN
    BY <1>2, <1>6
  <2>2. /\ Marked(t, v.mem) /\ v.st \in {"ok", "null"}
        /\ v.st = "ok" =>
             \E l \in 1..Top(t) :
               /\ PathOf(t, v.path) /\ Neighbour(t, w.path, v.path, l, TRUE)
               /\ w.path[l].i > 1
    BY <1>0, <2>1, ClimbEnds
  <2>3. ASSUME v.st = "ok" PROVE GreatestBelow(t, v.path, x)
    <3>1. PICK l \in 1..Top(t) :
            /\ PathOf(t, v.path) /\ Neighbour(t, p, v.path, l, TRUE)
            /\ p[l].i > 1
      BY <2>2, <2>3 DEF p
    <3>2. \A j \in 1..Len(s) : x <= RankOf(s[j])
      BY <1>1, <1>3, <1>6
    <3>3. /\ RankAt(t, v.path) < x
          /\ \A y \in Ranks(t) : y \in Int
               /\ (y <= RankAt(t, v.path) \/ x <= y)
      BY <1>1, <1>3, <3>1, <3>2, PrevCut
    <3>4. OnEntry(t, v.path) /\ RankAt(t, v.path) \in Int
      BY <1>1, <3>1, NeighbourFacts
    <3>5. QED
      BY <3>3, <3>4 DEF GreatestBelow
  <2>4. QED
    BY <1>2, <2>2, <2>3 DEF StepsBack, v
<1>7. QED
  BY <1>1, <1>4, <1>5, <1>6

(* A search parts the entries at its value.                                *)
LEMMA SearchParts ==
  ASSUME NEW t, Sound(t), NEW lo, NEW hi, Ordered(t, lo, hi),
         NEW m \in Memories(t), Marked(t, m),
         NEW k \in Int, NEW d \in -1..(MaxDup + 1)
  PROVE  LET w == StepTo(t, m, itreeload(t, k, d)) IN
         /\ w \in Outs(t) /\ w.st = "ok" /\ Marked(t, w.mem)
         /\ w.path = itreeload(t, k, d) /\ PathOf(t, w.path)
         /\ Rank(k, d) \in Int
         /\ Parts(t, w.path, w.path[0].i, Rank(k, d))
<1> DEFINE w == StepTo(t, m, itreeload(t, k, d))
           p == itreeload(t, k, d)
<1>1. /\ PathOf(t, p) /\ Rank(k, d) \in Int /\ Cut(t, p, Rank(k, d))
      /\ \A l \in 0..Top(t) : \A j \in 1..Len(Keys(t, p[l].n)) :
           LET r == RankOf(Keys(t, p[l].n)[j]) IN
           /\ j < p[l].i => r < Rank(k, d)
           /\ j >= p[l].i /\ (l = 0 \/ j < Len(Keys(t, p[l].n))) =>
                Rank(k, d) <= r
  BY SearchCut
<1> HIDE DEF p
<1>2. StepTo(t, m, p) \in Outs(t) /\ StepTo(t, m, p).st = "ok"
      /\ StepTo(t, m, p).path = p /\ StepTo(t, m, p).mem = Loaded(t, m, p)
  BY <1>1, StepToFacts
<1>3. Marked(t, Loaded(t, m, p))
  BY <1>1, LoadMarked
<1>4. Parts(t, p, p[0].i, Rank(k, d))
  <2>1. 0 \in 0..Top(t)
    BY TopFacts
  <2>2. QED
    BY <1>1, <2>1 DEF Parts
<1>5. QED
  BY <1>1, <1>2, <1>3, <1>4 DEF p

(* Where a path ends on an entry it parts the entries there.               *)
LEMMA EntryParts ==
  ASSUME NEW t, Sound(t), NEW lo, NEW hi, Ordered(t, lo, hi),
         NEW p, PathOf(t, p), OnEntry(t, p)
  PROVE  /\ RankAt(t, p) \in Int /\ RankAt(t, p) \in Ranks(t)
         /\ Parts(t, p, p[0].i, RankAt(t, p))
         /\ Parts(t, p, p[0].i + 1, RankAt(t, p) + 1)
<1>1. p[0].i \in 1..Len(Keys(t, p[0].n)) /\ RankAt(t, p) \in Ranks(t)
  BY RankOfPath
<1>2. /\ RankAt(t, p) \in Int /\ Cut(t, p, RankAt(t, p))
      /\ Cut(t, p, RankAt(t, p) + 1)
  BY <1>1, EntryCut DEF RankAt
<1>3. /\ Len(Keys(t, p[0].n)) \in Nat
      /\ \A j \in 1..Len(Keys(t, p[0].n)) :
           RankOf(Keys(t, p[0].n)[j]) \in Int
      /\ \A i, j \in 1..Len(Keys(t, p[0].n)) :
           i < j => RankOf(Keys(t, p[0].n)[i]) < RankOf(Keys(t, p[0].n)[j])
  <2>1. p[0].n \in InUse(t)
    BY TopFacts, PathNode
  <2>2. QED
    BY <2>1, OrderFacts
<1>4. ASSUME NEW j \in 1..Len(Keys(t, p[0].n))
      PROVE  LET r == RankOf(Keys(t, p[0].n)[j]) IN
             /\ r \in Int
             /\ j < p[0].i => r < RankAt(t, p)
             /\ j >= p[0].i => RankAt(t, p) <= r
             /\ j < p[0].i + 1 => r < RankAt(t, p) + 1
             /\ j >= p[0].i + 1 => RankAt(t, p) + 1 <= r
  <2>1. j < p[0].i \/ j = p[0].i \/ p[0].i < j
    BY <1>1, <1>3
  <2>2. PICK r \in Int : r = RankOf(Keys(t, p[0].n)[j])
    BY <1>3
  <2>3. PICK v \in Int : v = RankAt(t, p)
    BY <1>2
  <2>4. /\ j < p[0].i => r < v
        /\ p[0].i < j => v < r
        /\ j = p[0].i => r = v
    BY <1>1, <1>3, <2>2, <2>3 DEF RankAt
  <2>5. j \in Nat /\ p[0].i \in Nat
    BY <1>1, <1>3
  <2>6. /\ j < p[0].i => r < v
        /\ j >= p[0].i => v <= r
        /\ j < p[0].i + 1 => r < v + 1
        /\ j >= p[0].i + 1 => v + 1 <= r
    BY <2>1, <2>4, <2>5
  <2>7. QED
    BY <2>2, <2>3, <2>6
<1>5. Parts(t, p, p[0].i, RankAt(t, p))
  BY <1>2, <1>4 DEF Parts
<1>6. Parts(t, p, p[0].i + 1, RankAt(t, p) + 1)
  BY <1>2, <1>4 DEF Parts
<1>7. QED
  BY <1>1, <1>2, <1>5, <1>6

-----------------------------------------------------------------------------
(* The entries of one node.                                                *)

(* r has the entries of s and e at place i.                                *)
PutIn(s, i, e, r) ==
  /\ r \in Seq(Entries) /\ Len(r) = Len(s) + 1
  /\ \A k \in 1..(Len(s) + 1) :
       r[k] = IF k < i THEN s[k] ELSE IF k = i THEN e ELSE s[k - 1]

(* An entry is put in.                                                     *)
LEMMA EntryInserted ==
  ASSUME NEW s \in Seq(Entries), NEW i \in 1..(Len(s) + 1), NEW e \in Entries
  PROVE  PutIn(s, i, e, InsertAt(s, i, e))
<1>1. /\ InsertAt(s, i, e) \in Seq(Entries)
      /\ Len(InsertAt(s, i, e)) = Len(s) + 1
      /\ \A k \in 1..(Len(s) + 1) :
           InsertAt(s, i, e)[k] = IF k < i THEN s[k]
                                  ELSE IF k = i THEN e ELSE s[k - 1]
  BY InsertAtFacts, SMTT(30)
<1>2. QED
  BY <1>1 DEF PutIn

(* The entries of a node that is in order.                                 *)
LEMMA KeysFacts ==
  ASSUME NEW s \in Seq(Entries), NEW l \in Nat, NEW lo \in [Node -> Int],
         NEW hi \in [Node -> Int], NEW a \in Int, NEW b \in Int,
         KeysOrdered(l, s, lo, hi, a, b)
  PROVE  /\ Len(s) \in Nat /\ DOMAIN s = 1..Len(s)
         /\ \A i \in 1..Len(s) : s[i] \in Entries /\ RankOf(s[i]) \in Int
         /\ \A i, j \in 1..Len(s) : i < j => RankOf(s[i]) < RankOf(s[j])
         /\ Roof \in Int /\ a <= b /\ b <= Roof
         /\ l = 0 => \A i \in 1..Len(s) :
                       /\ a <= RankOf(s[i]) /\ RankOf(s[i]) <= b
                       /\ RankOf(s[i]) < Roof
         /\ l > 0 =>
              /\ RankOf(s[Len(s)]) = Roof
              /\ \A i \in 1..Len(s) :
                   /\ i < Len(s) => a <= RankOf(s[i]) /\ RankOf(s[i]) < b
                   /\ a <= lo[s[i].to] /\ hi[s[i].to] <= b
                   /\ hi[s[i].to] <= RankOf(s[i])
                   /\ i > 1 => RankOf(s[i - 1]) < lo[s[i].to]
<1>1. Len(s) \in Nat /\ DOMAIN s = 1..Len(s)
      /\ \A i \in 1..Len(s) : s[i] \in Entries
  BY ElementOfSeq
<1>2. \A i \in 1..Len(s) : RankOf(s[i]) \in Int
  BY <1>1, EntryRank
<1>3. Roof \in Int
  <2>1. Highest \in Int /\ 0 \in -1..(MaxDup + 1)
    BY TreeAssumption DEF Highest
  <2>2. QED
    BY <2>1, RankOrder DEF Roof
<1>4. \A i, j \in 1..Len(s) : i < j => RankOf(s[i]) < RankOf(s[j])
  BY <1>1 DEF KeysOrdered, Ascends
<1>5. l = 0 => \A i \in 1..Len(s) :
                 /\ a <= RankOf(s[i]) /\ RankOf(s[i]) <= b
                 /\ RankOf(s[i]) < Roof
  BY <1>1 DEF KeysOrdered
<1>6. ASSUME l > 0, NEW i \in 1..Len(s)
      PROVE  /\ i < Len(s) => a <= RankOf(s[i]) /\ RankOf(s[i]) < b
             /\ a <= lo[s[i].to] /\ hi[s[i].to] <= b
             /\ hi[s[i].to] <= RankOf(s[i])
             /\ i > 1 => RankOf(s[i - 1]) < lo[s[i].to]
  <2>1. i < Len(s) => i \in 1..(Len(s) - 1)
    BY <1>1
  <2>2. i < Len(s) => a <= RankOf(s[i]) /\ RankOf(s[i]) < b
    BY <1>6, <2>1 DEF KeysOrdered
  <2>3. Fits(s, i, lo, hi, a, b)
    BY <1>1, <1>6 DEF KeysOrdered
  <2>4. QED
    BY <2>2, <2>3 DEF Fits
<1>7. a <= b /\ b <= Roof /\ (l > 0 => RankOf(s[Len(s)]) = Roof)
  BY DEF KeysOrdered
<1>8. QED
  BY <1>1, <1>2, <1>3, <1>4, <1>5, <1>6, <1>7

(* The children may get narrower.                                          *)
LEMMA KeysNarrow ==
  ASSUME NEW s \in Seq(Entries), NEW l \in Nat, NEW lo \in [Node -> Int],
         NEW hi \in [Node -> Int], NEW a \in Int, NEW b \in Int,
         KeysOrdered(l, s, lo, hi, a, b),
         NEW lo2 \in [Node -> Int], NEW hi2 \in [Node -> Int],
         l > 0 => \A i \in 1..Len(s) :
                    /\ s[i].to \in Node
                    /\ lo[s[i].to] <= lo2[s[i].to]
                    /\ hi2[s[i].to] <= hi[s[i].to]
  PROVE  KeysOrdered(l, s, lo2, hi2, a, b)
<1>1. Len(s) \in Nat /\ DOMAIN s = 1..Len(s)
      /\ \A i \in 1..Len(s) : RankOf(s[i]) \in Int
  BY KeysFacts
<1>2. ASSUME l > 0, NEW i \in DOMAIN s
      PROVE  Fits(s, i, lo2, hi2, a, b)
  <2>1. i \in 1..Len(s) /\ (i > 1 => i - 1 \in 1..Len(s))
    BY <1>1
  <2>2. /\ a <= lo[s[i].to] /\ hi[s[i].to] <= b
        /\ hi[s[i].to] <= RankOf(s[i])
        /\ i > 1 => RankOf(s[i - 1]) < lo[s[i].to]
    BY <1>2, <2>1, KeysFacts
  <2>3. /\ s[i].to \in Node
        /\ lo[s[i].to] <= lo2[s[i].to] /\ hi2[s[i].to] <= hi[s[i].to]
    BY <1>2, <2>1
  <2>4. /\ lo[s[i].to] \in Int /\ lo2[s[i].to] \in Int
        /\ hi[s[i].to] \in Int /\ hi2[s[i].to] \in Int
    BY <2>3
  <2>5. PICK u \in Int : u = RankOf(s[i])
    BY <1>1, <2>1
  <2>6. i > 1 => RankOf(s[i - 1]) \in Int
    BY <1>1, <2>1
  <2>7. a <= lo2[s[i].to] /\ hi2[s[i].to] <= b /\ hi2[s[i].to] <= u
    BY <2>2, <2>3, <2>4, <2>5
  <2>8. i > 1 => RankOf(s[i - 1]) < lo2[s[i].to]
    BY <2>2, <2>3, <2>4, <2>6
  <2>9. QED
    BY <2>5, <2>7, <2>8 DEF Fits
<1>3. QED
  BY <1>2 DEF KeysOrdered

(* An entry in its place among the entries of a node; in an interior node  *)
(* in front of another, with its child between that and the one before.    *)
LEMMA KeysInsert ==
  ASSUME NEW s \in Seq(Entries), NEW l \in Nat, NEW lo \in [Node -> Int],
         NEW hi \in [Node -> Int], NEW a \in Int, NEW b \in Int,
         KeysOrdered(l, s, lo, hi, a, b),
         NEW i \in 1..(Len(s) + 1), NEW e \in Entries,
         a <= RankOf(e), RankOf(e) < Roof,
         \A j \in 1..Len(s) : /\ j < i => RankOf(s[j]) < RankOf(e)
                              /\ j >= i => RankOf(e) < RankOf(s[j]),
         l = 0 => RankOf(e) <= b,
         l > 0 => /\ i <= Len(s) /\ RankOf(e) < b
                  /\ e.to \in Node /\ s[i].to \in Node
                  /\ a <= lo[e.to] /\ hi[e.to] <= RankOf(e)
                  /\ i > 1 => RankOf(s[i - 1]) < lo[e.to]
                  /\ RankOf(e) < lo[s[i].to]
  PROVE  KeysOrdered(l, InsertAt(s, i, e), lo, hi, a, b)
<1> DEFINE r == InsertAt(s, i, e)
           n == Len(s)
<1>1. /\ r \in Seq(Entries) /\ Len(r) = n + 1
      /\ \A k \in 1..(n + 1) :
           r[k] = IF k < i THEN s[k] ELSE IF k = i THEN e ELSE s[k - 1]
  <2>1. PutIn(s, i, e, r)
    BY EntryInserted
  <2> HIDE DEF r
  <2>2. QED
    BY <2>1 DEF PutIn
<1>2. /\ n \in Nat /\ DOMAIN s = 1..n /\ DOMAIN r = 1..(n + 1)
      /\ \A j \in 1..n : RankOf(s[j]) \in Int
      /\ \A j, k \in 1..n : j < k => RankOf(s[j]) < RankOf(s[k])
      /\ Roof \in Int /\ a <= b /\ b <= Roof
  <2>1. /\ n \in Nat /\ DOMAIN s = 1..n
        /\ \A j \in 1..n : RankOf(s[j]) \in Int
        /\ \A j, k \in 1..n : j < k => RankOf(s[j]) < RankOf(s[k])
        /\ Roof \in Int /\ a <= b /\ b <= Roof
    BY KeysFacts
  <2> HIDE DEF r
  <2>2. DOMAIN r = 1..(n + 1)
    BY <1>1, <2>1
  <2>3. QED
    BY <2>1, <2>2
<1>3. RankOf(e) \in Int /\ i \in Nat /\ i >= 1 /\ i <= n + 1
  BY <1>2, EntryRank
<1> HIDE DEF r, n
<1>4. ASSUME NEW k \in 1..(n + 1)
      PROVE  /\ k < i => k \in 1..n /\ r[k] = s[k] /\ RankOf(s[k]) < RankOf(e)
             /\ k = i => r[k] = e
             /\ k > i => /\ k - 1 \in 1..n /\ r[k] = s[k - 1]
                         /\ RankOf(e) < RankOf(s[k - 1])
             /\ k < i \/ k = i \/ k > i
             /\ RankOf(r[k]) \in Int
  <2>1. k < i \/ k = i \/ k > i
    BY <1>3
  <2>2. k < i => k \in 1..n
    BY <1>2, <1>3
  <2>3. k > i => k - 1 \in 1..n /\ k - 1 >= i
    BY <1>2, <1>3
  <2>4. r[k] = IF k < i THEN s[k] ELSE IF k = i THEN e ELSE s[k - 1]
    BY <1>1
  <2>5. \A j \in 1..n : /\ j < i => RankOf(s[j]) < RankOf(e)
                        /\ j >= i => RankOf(e) < RankOf(s[j])
    BY DEF n
  <2>6. k = i => ~(k < i)
    BY <1>3
  <2>7. k > i => ~(k < i) /\ k # i
    BY <1>3
  <2>8. QED
    BY <1>2, <1>3, <2>1, <2>2, <2>3, <2>4, <2>5, <2>6, <2>7
<1>5. Ascends(r)
  <2>1. ASSUME NEW x \in 1..(n + 1), NEW y \in 1..(n + 1), x < y
        PROVE  RankOf(r[x]) < RankOf(r[y])
    <3>1. CASE y < i
      <4>1. x < i
        BY <1>3, <2>1, <3>1
      <4>2. QED
        BY <1>2, <1>4, <2>1, <3>1, <4>1
    <3>2. CASE y = i
      BY <1>4, <2>1, <3>2
    <3>3. CASE y > i
      <4>1. y - 1 \in 1..n /\ r[y] = s[y - 1] /\ RankOf(e) < RankOf(s[y - 1])
            /\ RankOf(s[y - 1]) \in Int
        BY <1>2, <1>4, <3>3
      <4>2. CASE x < i
        <5>1. r[x] = s[x] /\ RankOf(s[x]) < RankOf(e) /\ RankOf(s[x]) \in Int
          BY <1>2, <1>4, <4>2
        <5>2. QED
          BY <1>3, <4>1, <5>1
      <4>3. CASE x = i
        BY <1>4, <4>1, <4>3
      <4>4. CASE x > i
        <5>1. x - 1 \in 1..n /\ r[x] = s[x - 1] /\ x - 1 < y - 1
          BY <1>4, <2>1, <4>4
        <5>2. QED
          BY <1>2, <4>1, <5>1
      <4>5. QED
        BY <1>4, <4>2, <4>3, <4>4
    <3>4. QED
      BY <1>4, <3>1, <3>2, <3>3
  <2>2. QED
    BY <1>2, <2>1 DEF Ascends
<1>6. ASSUME l = 0, NEW k \in DOMAIN r
      PROVE  a <= RankOf(r[k]) /\ RankOf(r[k]) <= b /\ RankOf(r[k]) < Roof
  <2>1. \A j \in 1..n : /\ a <= RankOf(s[j]) /\ RankOf(s[j]) <= b
                        /\ RankOf(s[j]) < Roof
    BY <1>6, KeysFacts DEF n
  <2>2. k \in 1..(n + 1)
    BY <1>2
  <2>3. QED
    BY <1>4, <1>6, <2>1, <2>2
<1>7. ASSUME l > 0
      PROVE  /\ RankOf(r[Len(r)]) = Roof
             /\ \A k \in 1..(Len(r) - 1) :
                  a <= RankOf(r[k]) /\ RankOf(r[k]) < b
             /\ \A k \in DOMAIN r : Fits(r, k, lo, hi, a, b)
  <2>1. /\ i <= n /\ RankOf(e) < b /\ e.to \in Node /\ s[i].to \in Node
        /\ a <= lo[e.to] /\ hi[e.to] <= RankOf(e)
        /\ i > 1 => RankOf(s[i - 1]) < lo[e.to]
        /\ RankOf(e) < lo[s[i].to]
    BY <1>7 DEF n
  <2>2. /\ RankOf(s[n]) = Roof
        /\ \A j \in 1..n :
             /\ j < n => a <= RankOf(s[j]) /\ RankOf(s[j]) < b
             /\ a <= lo[s[j].to] /\ hi[s[j].to] <= b
             /\ hi[s[j].to] <= RankOf(s[j])
             /\ j > 1 => RankOf(s[j - 1]) < lo[s[j].to]
    BY <1>7, KeysFacts DEF n
  <2>3. RankOf(r[Len(r)]) = Roof
    <3>1. n + 1 \in 1..(n + 1) /\ n + 1 > i /\ (n + 1) - 1 = n
      BY <1>2, <1>3, <2>1
    <3>2. QED
      BY <1>1, <1>4, <2>2, <3>1
  <2>4. ASSUME NEW k \in 1..(Len(r) - 1)
        PROVE  a <= RankOf(r[k]) /\ RankOf(r[k]) < b
    <3>1. k \in 1..(n + 1) /\ k < n + 1
      BY <1>1, <1>2
    <3>2. CASE k < i
      <4>1. k \in 1..n /\ k < n /\ r[k] = s[k]
        BY <1>2, <1>3, <1>4, <2>1, <3>1, <3>2
      <4>2. QED
        BY <2>2, <4>1
    <3>3. CASE k = i
      BY <1>4, <2>1, <3>1, <3>3
    <3>4. CASE k > i
      <4>1. k - 1 \in 1..n /\ k - 1 < n /\ r[k] = s[k - 1]
        BY <1>2, <1>4, <3>1, <3>4
      <4>2. QED
        BY <2>2, <4>1
    <3>5. QED
      BY <1>4, <3>1, <3>2, <3>3, <3>4
  <2>5. ASSUME NEW k \in DOMAIN r
        PROVE  Fits(r, k, lo, hi, a, b)
    <3>0. k \in 1..(n + 1) /\ (k > 1 => k - 1 \in 1..(n + 1))
      BY <1>2
    <3>1. CASE k < i
      <4>1. k \in 1..n /\ r[k] = s[k]
        BY <1>4, <3>0, <3>1
      <4>2. k > 1 => r[k - 1] = s[k - 1]
        BY <1>3, <1>4, <3>0, <3>1
      <4>3. QED
        BY <2>2, <4>1, <4>2 DEF Fits
    <3>2. CASE k = i
      <4>1. r[k] = e
        BY <1>4, <3>0, <3>2
      <4>2. k > 1 => r[k - 1] = s[k - 1]
        <5>1. k - 1 < i
          BY <1>3, <3>2
        <5>2. QED
          BY <1>4, <3>0, <5>1
      <4>3. hi[e.to] <= b
        <5>1. hi[e.to] \in Int
          BY <2>1
        <5>2. QED
          BY <1>3, <2>1, <5>1
      <4>4. QED
        BY <2>1, <3>2, <4>1, <4>2, <4>3 DEF Fits
    <3>3. CASE k > i
      <4>1. k - 1 \in 1..n /\ r[k] = s[k - 1]
        BY <1>4, <3>0, <3>3
      <4>2. /\ a <= lo[s[k - 1].to] /\ hi[s[k - 1].to] <= b
            /\ hi[s[k - 1].to] <= RankOf(s[k - 1])
            /\ k - 1 > 1 => RankOf(s[(k - 1) - 1]) < lo[s[k - 1].to]
        BY <2>2, <4>1
      <4>3. RankOf(r[k - 1]) < lo[s[k - 1].to]
        <5>1. CASE k - 1 = i
          BY <1>4, <2>1, <3>0, <4>1, <5>1
        <5>2. CASE k - 1 > i
          <6>1. k - 1 > 1 /\ k - 1 \in 1..(n + 1) /\ r[k - 1] = s[(k - 1) - 1]
            <7>1. k - 1 > 1 /\ k - 1 \in 1..(n + 1)
              BY <1>2, <1>3, <4>1, <5>2
            <7>2. r[k - 1] = s[(k - 1) - 1]
              BY <1>4, <5>2, <7>1
            <7>3. QED
              BY <7>1, <7>2
          <6>2. QED
            BY <4>2, <6>1
        <5>3. QED
          BY <1>3, <3>0, <3>3, <5>1, <5>2
      <4>4. QED
        BY <4>1, <4>2, <4>3 DEF Fits
    <3>4. QED
      BY <1>4, <3>0, <3>1, <3>2, <3>3
  <2>6. QED
    BY <2>3, <2>4, <2>5
<1>8. KeysOrdered(l, r, lo, hi, a, b)
  BY <1>2, <1>5, <1>6, <1>7 DEF KeysOrdered
<1>9. QED
  BY <1>8 DEF r

(* The halves of a node that is split, each with its own bounds.           *)
LEMMA KeysSplit ==
  ASSUME NEW s \in Seq(Entries), NEW l \in Nat, NEW lo \in [Node -> Int],
         NEW hi \in [Node -> Int], NEW a \in Int, NEW b \in Int,
         KeysOrdered(l, s, lo, hi, a, b), NEW h \in 1..(Len(s) - 1),
         \A i \in 1..Len(s) : l > 0 => s[i].to \in Node
  PROVE  LET v == RankOf(s[h]) IN
         /\ v \in Int /\ a <= v /\ v < b /\ v < Roof
         /\ KeysOrdered(l, Closed(Take(s, h), l), lo, hi, a, v)
         /\ KeysOrdered(l, Drop(s, h), lo, hi, v + 1, b)
<1> DEFINE v == RankOf(s[h])
           n == Len(s)
           c == Closed(Take(s, h), l)
           d == Drop(s, h)
<1>1. /\ n \in Nat /\ DOMAIN s = 1..n
      /\ \A j \in 1..n : s[j] \in Entries /\ RankOf(s[j]) \in Int
      /\ \A j, k \in 1..n : j < k => RankOf(s[j]) < RankOf(s[k])
      /\ Roof \in Int /\ a <= b /\ b <= Roof
      /\ l = 0 => \A i \in 1..n : /\ a <= RankOf(s[i]) /\ RankOf(s[i]) <= b
                                  /\ RankOf(s[i]) < Roof
      /\ l > 0 => /\ RankOf(s[n]) = Roof
                  /\ \A i \in 1..n :
                       /\ i < n => a <= RankOf(s[i]) /\ RankOf(s[i]) < b
                       /\ a <= lo[s[i].to] /\ hi[s[i].to] <= b
                       /\ hi[s[i].to] <= RankOf(s[i])
                       /\ i > 1 => RankOf(s[i - 1]) < lo[s[i].to]
  BY KeysFacts
<1>2. /\ h \in 1..n /\ h < n /\ h + 1 \in 1..n /\ n \in 1..n /\ h \in Nat
      /\ h >= 1
      /\ h < h + 1
  BY <1>1
<1>3. /\ c \in Seq(Entries) /\ Len(c) = h /\ DOMAIN c = 1..h
      /\ \A i \in 1..h : /\ c[i].to = s[i].to
                         /\ i < h \/ l = 0 => c[i] = s[i]
      /\ l > 0 => c[h] = High(s[h].to)
      /\ d \in Seq(Entries) /\ Len(d) = n - h
      /\ DOMAIN d = 1..(n - h)
      /\ \A i \in 1..(n - h) : d[i] = s[h + i]
  BY SplitFacts
<1> HIDE DEF c, d, n
<1>4. v \in Int /\ v < RankOf(s[h + 1])
  BY <1>1, <1>2
<1> HIDE DEF v
<1>5. a <= v /\ v < b /\ v < Roof
  <2>1. CASE l = 0
    <3>1. /\ a <= v /\ v < Roof
          /\ RankOf(s[h + 1]) <= b /\ RankOf(s[h + 1]) \in Int
      BY <1>1, <1>2, <2>1 DEF v
    <3>2. QED
      BY <1>4, <3>1
  <2>2. CASE l > 0
    <3>1. a <= v /\ v < b
      BY <1>1, <1>2, <2>2 DEF v
    <3>2. QED
      BY <1>1, <1>4, <3>1
  <2>3. QED
    BY <2>1, <2>2
<1>6. l > 0 => RankOf(c[h]) = Roof
  <2>1. ASSUME l > 0 PROVE RankOf(c[h]) = Roof
    <3>1. s[h].to \in 0..MaxNode
      BY <1>1, <1>2 DEF Entries
    <3>2. QED
      BY <1>3, <2>1, <3>1, HighFacts DEF RankOf, Roof
  <2>2. QED
    BY <2>1
<1>7. ASSUME NEW i \in 1..h
      PROVE  /\ i \in 1..n /\ i <= h /\ RankOf(s[i]) \in Int
             /\ RankOf(s[i]) <= v
             /\ i < h \/ l = 0 => RankOf(c[i]) = RankOf(s[i])
             /\ i < h => i < n
             /\ l > 0 /\ i = h => RankOf(c[i]) = Roof
             /\ i < h \/ i = h
             /\ i < h => RankOf(s[i]) < v
             /\ RankOf(c[i]) \in Int
  <2>1. i \in 1..n /\ i <= h /\ (i < h \/ i = h) /\ (i < h => i < n)
    BY <1>1, <1>2
  <2>2. i < h => RankOf(s[i]) < v
    BY <1>1, <1>2, <2>1 DEF v
  <2>3. RankOf(s[i]) \in Int /\ RankOf(s[i]) <= v
    BY <1>1, <1>4, <2>1, <2>2 DEF v
  <2>4. i < h \/ l = 0 => RankOf(c[i]) = RankOf(s[i])
    BY <1>3
  <2>5. RankOf(c[i]) \in Int
    BY <1>1, <1>6, <2>1, <2>3, <2>4
  <2>6. QED
    BY <1>6, <2>1, <2>2, <2>3, <2>4, <2>5
<1>8. KeysOrdered(l, c, lo, hi, a, v)
  <2>1. ASSUME NEW i \in 1..h, NEW j \in 1..h, i < j
        PROVE  RankOf(c[i]) < RankOf(c[j])
    <3>1. i < h /\ RankOf(c[i]) = RankOf(s[i])
      BY <1>2, <1>7, <2>1
    <3>2. CASE j < h \/ l = 0
      BY <1>1, <1>7, <2>1, <3>1, <3>2
    <3>3. CASE l > 0 /\ j = h
      BY <1>1, <1>4, <1>5, <1>7, <3>1, <3>3
    <3>4. QED
      BY <1>7, <3>2, <3>3
  <2>2. Ascends(c)
    BY <1>3, <2>1 DEF Ascends
  <2>3. ASSUME l = 0, NEW i \in DOMAIN c
        PROVE  a <= RankOf(c[i]) /\ RankOf(c[i]) <= v /\ RankOf(c[i]) < Roof
    BY <1>1, <1>3, <1>7, <2>3
  <2>4. ASSUME l > 0
        PROVE  /\ RankOf(c[Len(c)]) = Roof
               /\ \A i \in 1..(Len(c) - 1) :
                    a <= RankOf(c[i]) /\ RankOf(c[i]) < v
               /\ \A i \in DOMAIN c : Fits(c, i, lo, hi, a, v)
    <3>1. ASSUME NEW i \in 1..(Len(c) - 1)
          PROVE  a <= RankOf(c[i]) /\ RankOf(c[i]) < v
      <4>1. i \in 1..h /\ i < h
        BY <1>2, <1>3, SMTT(30)
      <4>2. QED
        BY <1>1, <1>7, <2>4, <4>1
    <3>2. ASSUME NEW i \in DOMAIN c
          PROVE  Fits(c, i, lo, hi, a, v)
      <4>1. i \in 1..h /\ c[i].to = s[i].to /\ i \in 1..n
        BY <1>3, <1>7
      <4>2. /\ a <= lo[s[i].to] /\ hi[s[i].to] <= RankOf(s[i])
            /\ i > 1 => RankOf(s[i - 1]) < lo[s[i].to]
        BY <1>1, <2>4, <4>1
      <4>3. hi[s[i].to] \in Int /\ hi[s[i].to] <= v
        <5>1. s[i].to \in Node
          BY <2>4, <4>1 DEF n
        <5>2. hi[s[i].to] \in Int
          BY <5>1
        <5>3. QED
          BY <1>4, <1>7, <4>1, <4>2, <5>2
      <4>4. hi[s[i].to] <= RankOf(c[i])
        <5>1. CASE i < h
          BY <1>7, <4>1, <4>2, <5>1
        <5>2. CASE i = h
          <6>1. RankOf(c[i]) = Roof
            BY <1>7, <2>4, <4>1, <5>2
          <6>2. QED
            BY <1>1, <1>4, <1>5, <4>3, <6>1
        <5>3. QED
          BY <1>7, <4>1, <5>1, <5>2
      <4>5. i > 1 => RankOf(c[i - 1]) = RankOf(s[i - 1])
        <5>1. i > 1 => i - 1 \in 1..h /\ i - 1 < h
          BY <1>2, <4>1
        <5>2. QED
          BY <1>7, <5>1
      <4>6. QED
        BY <4>1, <4>2, <4>3, <4>4, <4>5 DEF Fits
    <3>3. QED
      BY <1>3, <1>6, <2>4, <3>1, <3>2
  <2>5. v <= Roof
    BY <1>1, <1>4, <1>5
  <2>6. QED
    BY <1>5, <2>2, <2>3, <2>4, <2>5 DEF KeysOrdered
<1>9. ASSUME NEW i \in 1..(n - h)
      PROVE  /\ h + i \in 1..n /\ d[i] = s[h + i] /\ h + i > h
             /\ v < RankOf(s[h + i]) /\ RankOf(s[h + i]) \in Int
             /\ v + 1 <= RankOf(s[h + i])
             /\ h + i > 1 /\ (i < n - h => h + i < n)
             /\ i > 1 => i - 1 \in 1..(n - h) /\ h + (i - 1) = (h + i) - 1
             /\ i = 1 => (h + i) - 1 = h
  <2>1. /\ h + i \in 1..n /\ h + i > h /\ d[i] = s[h + i]
        /\ h + i > 1 /\ (i < n - h => h + i < n)
        /\ i > 1 => i - 1 \in 1..(n - h) /\ h + (i - 1) = (h + i) - 1
        /\ i = 1 => (h + i) - 1 = h
    BY <1>1, <1>2, <1>3
  <2>2. v < RankOf(s[h + i]) /\ RankOf(s[h + i]) \in Int
    BY <1>1, <1>2, <2>1 DEF v
  <2>3. v + 1 <= RankOf(s[h + i])
    BY <1>4, <2>2
  <2>4. QED
    BY <2>1, <2>2, <2>3
<1>10. KeysOrdered(l, d, lo, hi, v + 1, b)
  <2>1. ASSUME NEW i \in 1..(n - h), NEW j \in 1..(n - h), i < j
        PROVE  RankOf(d[i]) < RankOf(d[j])
    <3>1. h + i < h + j
      BY <1>2, <2>1
    <3>2. QED
      BY <1>1, <1>9, <3>1
  <2>2. Ascends(d)
    BY <1>3, <2>1 DEF Ascends
  <2>3. ASSUME l = 0, NEW i \in DOMAIN d
        PROVE  /\ v + 1 <= RankOf(d[i]) /\ RankOf(d[i]) <= b
               /\ RankOf(d[i]) < Roof
    BY <1>1, <1>3, <1>9, <2>3
  <2>4. ASSUME l > 0
        PROVE  /\ RankOf(d[Len(d)]) = Roof
               /\ \A i \in 1..(Len(d) - 1) :
                    v + 1 <= RankOf(d[i]) /\ RankOf(d[i]) < b
               /\ \A i \in DOMAIN d : Fits(d, i, lo, hi, v + 1, b)
    <3>1. ASSUME NEW i \in 1..(Len(d) - 1)
          PROVE  v + 1 <= RankOf(d[i]) /\ RankOf(d[i]) < b
      <4>1. i \in 1..(n - h) /\ i < n - h
        BY <1>1, <1>2, <1>3, SMTT(30)
      <4>2. QED
        BY <1>1, <1>9, <2>4, <4>1
    <3>2. ASSUME NEW i \in DOMAIN d
          PROVE  Fits(d, i, lo, hi, v + 1, b)
      <4>1. i \in 1..(n - h)
        BY <1>3
      <4>2. /\ hi[s[h + i].to] <= b
            /\ hi[s[h + i].to] <= RankOf(s[h + i])
            /\ RankOf(s[(h + i) - 1]) < lo[s[h + i].to]
        BY <1>1, <1>9, <2>4, <4>1
      <4>3. v + 1 <= lo[s[h + i].to]
        <5>1. lo[s[h + i].to] \in Int
          <6>1. s[h + i].to \in Node
            BY <1>9, <2>4, <4>1 DEF n
          <6>2. QED
            BY <6>1
        <5>2. CASE i = 1
          <6>1. v < lo[s[h + i].to]
            BY <1>9, <4>1, <4>2, <5>2 DEF v
          <6>2. QED
            BY <1>4, <5>1, <6>1
        <5>3. CASE i > 1
          <6>1. /\ v < RankOf(s[(h + i) - 1]) /\ RankOf(s[(h + i) - 1]) \in Int
            BY <1>9, <4>1, <5>3
          <6>2. QED
            BY <1>4, <4>2, <5>1, <6>1
        <5>4. QED
          BY <4>1, <5>2, <5>3
      <4>4. i > 1 => RankOf(d[i - 1]) < lo[s[h + i].to]
        BY <1>9, <4>1, <4>2
      <4>5. d[i] = s[h + i]
        BY <1>9, <4>1
      <4>6. QED
        BY <4>2, <4>3, <4>4, <4>5 DEF Fits
    <3>3. RankOf(d[Len(d)]) = Roof
      <4>1. n - h \in 1..(n - h) /\ h + (n - h) = n
        BY <1>1, <1>2
      <4>2. QED
        BY <1>1, <1>3, <1>9, <2>4, <4>1
    <3>4. QED
      BY <3>1, <3>2, <3>3
  <2>5. v + 1 <= b
    BY <1>4, <1>5
  <2>6. QED
    BY <1>1, <2>2, <2>3, <2>4, <2>5 DEF KeysOrdered
<1>11. QED
  BY <1>4, <1>5, <1>8, <1>10 DEF v, c, d

(* An entry that goes leaves the others of a leaf in order.                *)
LEMMA KeysRemove ==
  ASSUME NEW s \in Seq(Entries), NEW lo \in [Node -> Int],
         NEW hi \in [Node -> Int], NEW a \in Int, NEW b \in Int,
         KeysOrdered(0, s, lo, hi, a, b), NEW i \in 1..Len(s)
  PROVE  KeysOrdered(0, RemoveAt(s, i), lo, hi, a, b)
<1> DEFINE r == RemoveAt(s, i)
           n == Len(s)
<1>1. /\ n \in Nat
      /\ \A j \in 1..n : RankOf(s[j]) \in Int
      /\ \A j, k \in 1..n : j < k => RankOf(s[j]) < RankOf(s[k])
      /\ a <= b /\ b <= Roof
      /\ \A j \in 1..n : /\ a <= RankOf(s[j]) /\ RankOf(s[j]) <= b
                         /\ RankOf(s[j]) < Roof
  BY KeysFacts
<1>2. /\ r \in Seq(Entries) /\ Len(r) = n - 1
      /\ \A k \in 1..(n - 1) : r[k] = IF k < i THEN s[k] ELSE s[k + 1]
  BY RemoveAtFacts
<1> HIDE DEF r, n
<1>3. DOMAIN r = 1..(n - 1)
  BY <1>2
<1>4. \A k \in 1..(n - 1) : k \in 1..n /\ k + 1 \in 1..n
  BY <1>1
<1>5. ASSUME NEW j \in 1..(n - 1), NEW k \in 1..(n - 1), j < k
      PROVE  RankOf(r[j]) < RankOf(r[k])
  <2>1. /\ r[j] = IF j < i THEN s[j] ELSE s[j + 1]
        /\ r[k] = IF k < i THEN s[k] ELSE s[k + 1]
    BY <1>2
  <2>2. j < k /\ j < k + 1 /\ j + 1 < k + 1 /\ (k < i => j < i)
    <3>1. i \in Int
      OBVIOUS
    <3>2. QED
      BY <1>1, <1>5, <3>1
  <2>3. QED
    BY <1>1, <1>4, <2>1, <2>2
<1>6. Ascends(r)
  BY <1>3, <1>5 DEF Ascends
<1>7. \A k \in DOMAIN r : /\ a <= RankOf(r[k]) /\ RankOf(r[k]) <= b
                          /\ RankOf(r[k]) < Roof
  BY <1>1, <1>2, <1>3, <1>4
<1>8. KeysOrdered(0, r, lo, hi, a, b)
  BY <1>1, <1>6, <1>7 DEF KeysOrdered
<1>9. QED
  BY <1>8 DEF r

(* A child that goes leaves the others of an interior node in order.       *)
LEMMA KeysWithout ==
  ASSUME NEW s \in Seq(Entries), Len(s) >= 2, NEW l \in Nat, l > 0,
         NEW lo \in [Node -> Int],
         NEW hi \in [Node -> Int], NEW a \in Int, NEW b \in Int,
         KeysOrdered(l, s, lo, hi, a, b), NEW i \in 1..Len(s),
         \A j \in 1..Len(s) : s[j].to \in Node
  PROVE  KeysOrdered(l, WithoutChild(s, i), lo, hi, a, b)
<1> DEFINE r == WithoutChild(s, i)
           n == Len(s)
<1>1. /\ n \in Nat
      /\ \A j \in 1..n : s[j] \in Entries /\ RankOf(s[j]) \in Int
      /\ \A j, k \in 1..n : j < k => RankOf(s[j]) < RankOf(s[k])
      /\ Roof \in Int /\ a <= b /\ b <= Roof
      /\ RankOf(s[n]) = Roof
      /\ \A j \in 1..n :
           /\ j < n => a <= RankOf(s[j]) /\ RankOf(s[j]) < b
           /\ a <= lo[s[j].to] /\ hi[s[j].to] <= b
           /\ hi[s[j].to] <= RankOf(s[j])
           /\ j > 1 => RankOf(s[j - 1]) < lo[s[j].to]
  BY KeysFacts
<1>2. /\ r \in Seq(Entries) /\ Len(r) = n - 1
      /\ \A k \in 1..(n - 1) :
           /\ r[k].to = IF k < i THEN s[k].to ELSE s[k + 1].to
           /\ i < n => r[k] = IF k < i THEN s[k] ELSE s[k + 1]
           /\ i = n /\ k < n - 1 => r[k] = s[k]
      /\ i = n => r[n - 1] = High(s[n - 1].to)
  BY WithoutFacts
<1>0. n >= 2 /\ i \in Nat /\ i >= 1 /\ i <= n
  OBVIOUS
<1> HIDE DEF r, n
<1>3. DOMAIN r = 1..(n - 1) /\ n - 1 \in 1..(n - 1)
  BY <1>0, <1>1, <1>2
<1>4. \A k \in 1..(n - 1) : /\ k \in 1..n /\ k + 1 \in 1..n /\ k < n
                            /\ k < n - 1 => k + 1 < n
                            /\ k + 1 > 1 /\ (k + 1) - 1 = k /\ k < k + 1
                            /\ k > 1 => k - 1 \in 1..(n - 1) /\ k - 1 < n - 1
                            /\ k > 1 => (k - 1) + 1 = k
  BY <1>0, <1>1
<1>5. CASE i < n
  <2>0. \A k \in 1..(n - 1) : r[k] = IF k < i THEN s[k] ELSE s[k + 1]
    BY <1>2, <1>5
  <2>1. ASSUME NEW j \in 1..(n - 1), NEW k \in 1..(n - 1), j < k
        PROVE  RankOf(r[j]) < RankOf(r[k])
    <3>1. /\ r[j] = IF j < i THEN s[j] ELSE s[j + 1]
          /\ r[k] = IF k < i THEN s[k] ELSE s[k + 1]
      BY <2>0
    <3>2. j < k /\ j < k + 1 /\ j + 1 < k + 1 /\ (k < i => j < i)
      BY <1>0, <1>1, <2>1
    <3>3. QED
      BY <1>1, <1>4, <3>1, <3>2
  <2>2. Ascends(r)
    BY <1>3, <2>1 DEF Ascends
  <2>3. RankOf(r[Len(r)]) = Roof
    <3>1. ~(n - 1 < i) /\ (n - 1) + 1 = n
      BY <1>0, <1>1, <1>5
    <3>2. QED
      BY <1>1, <1>2, <1>3, <2>0, <3>1
  <2>4. ASSUME NEW k \in 1..(Len(r) - 1)
        PROVE  a <= RankOf(r[k]) /\ RankOf(r[k]) < b
    <3>1. k \in 1..(n - 1) /\ k < n - 1
      BY <1>0, <1>1, <1>2
    <3>2. QED
      BY <1>1, <1>4, <2>0, <3>1
  <2>5. ASSUME NEW k \in DOMAIN r
        PROVE  Fits(r, k, lo, hi, a, b)
    <3>1. k \in 1..(n - 1)
      BY <1>3
    <3>2. r[k] = IF k < i THEN s[k] ELSE s[k + 1]
      BY <2>0, <3>1
    <3>3. k > 1 => r[k - 1] = IF k - 1 < i THEN s[k - 1] ELSE s[k]
      BY <1>4, <2>0, <3>1
    <3>4. CASE k < i
      <4>1. k > 1 => k - 1 < i
        BY <1>0, <1>1, <3>1, <3>4
      <4>2. k > 1 => r[k - 1] = s[k - 1]
        BY <3>3, <4>1
      <4>3. QED
        BY <1>1, <1>4, <3>1, <3>2, <3>4, <4>2 DEF Fits
    <3>5. CASE ~(k < i)
      <4>1. /\ a <= lo[s[k + 1].to] /\ hi[s[k + 1].to] <= b
            /\ hi[s[k + 1].to] <= RankOf(s[k + 1])
            /\ RankOf(s[k]) < lo[s[k + 1].to]
        BY <1>1, <1>4, <3>1
      <4>2. k > 1 => RankOf(r[k - 1]) < lo[s[k + 1].to]
        <5>1. ASSUME k > 1, k - 1 < i
              PROVE  RankOf(r[k - 1]) < lo[s[k + 1].to]
          <6>1. r[k - 1] = s[k - 1] /\ k - 1 \in 1..n /\ k \in 1..n
                  /\ k - 1 < k
            BY <1>4, <3>1, <3>3, <5>1
          <6>2. RankOf(s[k - 1]) < RankOf(s[k]) /\ RankOf(s[k - 1]) \in Int
                /\ RankOf(s[k]) \in Int
            BY <1>1, <6>1
          <6>3. s[k + 1].to \in Node
            BY <1>4, <3>1 DEF n
          <6>4. lo[s[k + 1].to] \in Int
            BY <6>3
          <6>5. QED
            BY <4>1, <6>1, <6>2, <6>4
        <5>2. ASSUME k > 1, ~(k - 1 < i)
              PROVE  RankOf(r[k - 1]) < lo[s[k + 1].to]
          BY <3>3, <4>1, <5>2
        <5>3. QED
          BY <5>1, <5>2
      <4>3. r[k] = s[k + 1]
        BY <3>2, <3>5
      <4>4. QED
        BY <4>1, <4>2, <4>3 DEF Fits
    <3>6. QED
      BY <3>4, <3>5
  <2>6. KeysOrdered(l, r, lo, hi, a, b)
    BY <1>1, <2>2, <2>3, <2>4, <2>5 DEF KeysOrdered
  <2>7. QED
    BY <2>6 DEF r
<1>6. CASE i = n
  <2>0. /\ \A k \in 1..(n - 1) : /\ k < n - 1 => r[k] = s[k]
                                 /\ r[k].to = s[k].to
        /\ r[n - 1] = High(s[n - 1].to)
    <3>1. \A k \in 1..(n - 1) : k < i
      BY <1>4, <1>6
    <3>2. QED
      BY <1>2, <1>6, <3>1
  <2>1. RankOf(r[n - 1]) = Roof
    <3>1. s[n - 1].to \in 0..MaxNode
      BY <1>1, <1>3, <1>4 DEF Entries
    <3>2. QED
      BY <2>0, <3>1, HighFacts DEF RankOf, Roof
  <2>2. ASSUME NEW j \in 1..(n - 1), NEW k \in 1..(n - 1), j < k
        PROVE  RankOf(r[j]) < RankOf(r[k])
    <3>1. j < n - 1 /\ (k < n - 1 \/ k = n - 1)
      BY <1>0, <1>1, <2>2
    <3>2. RankOf(s[j]) < b /\ RankOf(s[j]) \in Int
      BY <1>1, <1>4
    <3>3. RankOf(s[j]) < Roof
      BY <1>1, <3>2
    <3>4. QED
      BY <1>1, <1>4, <2>0, <2>1, <2>2, <3>1, <3>3
  <2>3. Ascends(r)
    BY <1>3, <2>2 DEF Ascends
  <2>4. ASSUME NEW k \in 1..(Len(r) - 1)
        PROVE  a <= RankOf(r[k]) /\ RankOf(r[k]) < b
    <3>1. k \in 1..(n - 1) /\ k < n - 1
      BY <1>0, <1>1, <1>2
    <3>2. QED
      BY <1>1, <1>4, <2>0, <3>1
  <2>5. ASSUME NEW k \in DOMAIN r
        PROVE  Fits(r, k, lo, hi, a, b)
    <3>1. k \in 1..(n - 1) /\ r[k].to = s[k].to
      BY <1>3, <2>0
    <3>2. /\ a <= lo[s[k].to] /\ hi[s[k].to] <= b
          /\ hi[s[k].to] <= RankOf(s[k])
          /\ k > 1 => RankOf(s[k - 1]) < lo[s[k].to]
      BY <1>1, <1>4, <3>1
    <3>3. k > 1 => r[k - 1] = s[k - 1]
      BY <1>4, <2>0, <3>1
    <3>4. hi[s[k].to] <= RankOf(r[k])
      <4>1. CASE k < n - 1
        BY <2>0, <3>1, <3>2, <4>1
      <4>2. CASE k = n - 1
        <5>1. s[k].to \in Node
          BY <1>4, <3>1 DEF n
        <5>2. hi[s[k].to] \in Int /\ hi[s[k].to] <= b
          BY <3>2, <5>1
        <5>3. QED
          BY <1>1, <2>1, <4>2, <5>2
      <4>3. QED
        BY <1>1, <3>1, <4>1, <4>2
    <3>5. QED
      BY <3>1, <3>2, <3>3, <3>4 DEF Fits
  <2>6. KeysOrdered(l, r, lo, hi, a, b)
    <3>1. RankOf(r[Len(r)]) = Roof
      BY <1>2, <2>1
    <3>2. QED
      BY <1>1, <2>3, <2>4, <2>5, <3>1 DEF KeysOrdered
  <2>7. QED
    BY <2>6 DEF r
<1>7. QED
  BY <1>0, <1>1, <1>5, <1>6

(* The nodes on the way of a search make room for the value.               *)
LEMMA Widen ==
  ASSUME NEW t, Sound(t), NEW lo, NEW hi, Ordered(t, lo, hi),
         NEW p, PathOf(t, p), NEW x \in Int, x < Roof,
         \A l \in 1..Top(t) : \A j \in 1..Len(Keys(t, p[l].n)) :
           LET r == RankOf(Keys(t, p[l].n)[j]) IN
           /\ j < p[l].i => r < x
           /\ j >= p[l].i /\ j < Len(Keys(t, p[l].n)) => x <= r
  PROVE  \E lo2, hi2 :
           /\ Ordered(t, lo2, hi2)
           /\ \A l \in 0..Top(t) : lo2[p[l].n] <= x /\ x <= hi2[p[l].n]
<1> DEFINE P == {p[l].n : l \in 0..Top(t)}
           lo2 == [n \in Node |-> IF n \in P /\ x < lo[n] THEN x ELSE lo[n]]
           hi2 == [n \in Node |-> IF n \in P /\ hi[n] < x THEN x ELSE hi[n]]
<1>1. /\ lo \in [Node -> Int] /\ hi \in [Node -> Int]
      /\ \A n \in InUse(t) : NodeOrdered(t, lo, hi, n)
  BY DEF Ordered
<1>2. Roof \in Int /\ InUse(t) \subseteq Node /\ Top(t) \in Nat
  <2>1. 1 \in InUse(t) /\ InUse(t) \subseteq Node /\ Top(t) \in Nat
    BY TopFacts
  <2>2. QED
    BY <2>1, OrderFacts
<1>3. /\ lo2 \in [Node -> Int] /\ hi2 \in [Node -> Int]
      /\ \A n \in Node : /\ lo2[n] \in Int /\ hi2[n] \in Int
                         /\ lo[n] \in Int /\ hi[n] \in Int
                         /\ lo2[n] <= lo[n] /\ hi[n] <= hi2[n]
                         /\ n \notin P => lo2[n] = lo[n] /\ hi2[n] = hi[n]
                         /\ n \in P => /\ lo2[n] <= x /\ x <= hi2[n]
                                       /\ lo2[n] = lo[n] \/ lo2[n] = x
                                       /\ hi2[n] = hi[n] \/ hi2[n] = x
  BY <1>1
<1>4. \A l \in 0..Top(t) : p[l].n \in P /\ p[l].n \in Node
  BY <1>2, PathNode
<1> HIDE DEF lo2, hi2
<1>5. ASSUME NEW n \in InUse(t), LevelOf(t, n) > 0,
             NEW i \in 1..Len(Keys(t, n))
      PROVE  Fits(Keys(t, n), i, lo2, hi2, lo2[n], hi2[n])
  <2> DEFINE s == Keys(t, n)
             c == s[i].to
  <2>1. /\ c \in InUse(t) /\ lo[n] <= lo[c] /\ hi[c] <= hi[n]
        /\ hi[c] <= RankOf(s[i])
        /\ i > 1 => i - 1 \in 1..Len(s) /\ RankOf(s[i - 1]) < lo[c]
        /\ RankOf(s[Len(s)]) = Roof
    BY <1>5, OrderInner
  <2>2. /\ Len(s) \in Nat /\ \A j \in 1..Len(s) : RankOf(s[j]) \in Int
    BY OrderFacts
  <2>3. n \in Node /\ c \in Node
    BY <1>2, <2>1
  <2>4. CASE c \notin P
    <3>1. lo2[n] <= lo2[c] /\ hi2[c] <= hi2[n] /\ hi2[c] = hi[c]
            /\ lo2[c] = lo[c]
      <4>1. hi2[c] = hi[c] /\ lo2[c] = lo[c]
        BY <1>3, <2>3, <2>4
      <4>2. /\ lo2[n] <= lo[n] /\ hi[n] <= hi2[n] /\ lo2[n] \in Int
            /\ hi2[n] \in Int /\ lo[n] \in Int /\ hi[n] \in Int
            /\ lo[c] \in Int /\ hi[c] \in Int
        BY <1>3, <2>3
      <4> HIDE DEF c
      <4>3. QED
        BY <2>1, <4>1, <4>2
    <3>2. QED
      BY <2>1, <3>1 DEF Fits
  <2>5. CASE c \in P
    <3>1. PICK m \in 0..Top(t) : c = p[m].n
      BY <2>5
    <3>2. LevelOf(t, c) = m /\ LevelOf(t, n) = m + 1 /\ LevelOf(t, n) <= Top(t)
      <4>1. LevelOf(t, c) = LevelOf(t, n) - 1
        BY <1>5, ChildFacts
      <4>2. LevelOf(t, n) \in Nat /\ LevelOf(t, n) <= Top(t)
        BY UsedFacts
      <4>3. LevelOf(t, c) = m
        BY <3>1, PathNode
      <4>4. QED
        BY <4>1, <4>2, <4>3
    <3>3. m + 1 \in 0..Top(t) /\ m + 1 > 0 /\ (m + 1) - 1 = m
            /\ m + 1 \in 1..Top(t)
      <4>1. m \in Nat /\ m + 1 <= Top(t)
        BY <1>2, <3>1, <3>2
      <4>2. QED
        BY <1>2, <4>1
    <3>4. /\ p[m + 1].n \in InUse(t) /\ LevelOf(t, p[m + 1].n) = m + 1
          /\ p[m + 1].i \in 1..Len(Keys(t, p[m + 1].n))
          /\ Keys(t, p[m + 1].n)[p[m + 1].i].to = p[m].n
      BY <3>3, PathNode
    <3>5. n = p[m + 1].n /\ i = p[m + 1].i
      BY <1>5, <3>1, <3>3, <3>4, OneSlot
    <3>6. n \in P
      BY <1>4, <3>3, <3>5
    <3>7. /\ lo2[n] <= lo[n] /\ hi[n] <= hi2[n] /\ lo2[n] \in Int
          /\ hi2[n] \in Int /\ lo[n] \in Int /\ hi[n] \in Int
          /\ lo2[n] <= x /\ x <= hi2[n]
      BY <1>3, <2>3, <3>6
    <3>8. /\ lo[c] \in Int /\ hi[c] \in Int
          /\ lo2[c] = lo[c] \/ lo2[c] = x
          /\ hi2[c] = hi[c] \/ hi2[c] = x
      BY <1>3, <2>3, <2>5
    <3>9. x <= RankOf(s[i])
      <4>1. CASE i < Len(s)
        <5>1. i >= p[m + 1].i
          BY <3>5
        <5>2. QED
          BY <3>3, <3>5, <4>1, <5>1
      <4>2. CASE i = Len(s)
        BY <1>2, <2>1, <4>2
      <4>3. QED
        BY <2>2, <4>1, <4>2
    <3>10. i > 1 => RankOf(s[i - 1]) < x
      <4>1. i > 1 => i - 1 < p[m + 1].i
        BY <2>2, <3>5
      <4>2. QED
        BY <2>1, <3>3, <3>5, <4>1
    <3>11. RankOf(s[i]) \in Int /\ (i > 1 => RankOf(s[i - 1]) \in Int)
      BY <2>1, <2>2
    <3> HIDE DEF c, s
    <3>12. lo2[n] <= lo2[c] /\ hi2[c] <= hi2[n] /\ hi2[c] <= RankOf(s[i])
      BY <2>1, <3>7, <3>8, <3>9, <3>11, SMTT(30)
    <3>13. i > 1 => RankOf(s[i - 1]) < lo2[c]
      BY <2>1, <3>8, <3>10, <3>11
    <3>14. QED
      BY <3>12, <3>13 DEF Fits, c, s
  <2>6. QED
    BY <2>4, <2>5
<1>6. ASSUME NEW n \in InUse(t)
      PROVE  NodeOrdered(t, lo2, hi2, n)
  <2> DEFINE s == Keys(t, n)
  <2>1. /\ lo[n] <= hi[n] /\ hi[n] <= Roof /\ Ascends(s)
        /\ DOMAIN s = 1..Len(s) /\ Len(s) \in Nat
        /\ \A i \in 1..Len(s) : RankOf(s[i]) \in Int
    BY OrderFacts
  <2>2. /\ lo2[n] \in Int /\ hi2[n] \in Int /\ lo[n] \in Int /\ hi[n] \in Int
        /\ lo2[n] <= lo[n] /\ hi[n] <= hi2[n]
        /\ hi2[n] = hi[n] \/ hi2[n] = x
    BY <1>2, <1>3
  <2>3. lo2[n] <= hi2[n] /\ hi2[n] <= Roof
    BY <1>2, <2>1, <2>2
  <2>4. ASSUME LevelOf(t, n) = 0, NEW i \in DOMAIN s
        PROVE  /\ lo2[n] <= RankOf(s[i]) /\ RankOf(s[i]) <= hi2[n]
               /\ RankOf(s[i]) < Roof
    <3>1. PICK y \in Int : y = RankOf(s[i])
      BY <2>1
    <3>2. lo[n] <= y /\ y <= hi[n] /\ y < Roof
      BY <2>1, <2>4, <3>1, OrderLeaf
    <3>3. QED
      BY <2>2, <3>1, <3>2
  <2>5. ASSUME LevelOf(t, n) > 0
        PROVE  /\ RankOf(s[Len(s)]) = Roof
               /\ \A i \in 1..(Len(s) - 1) :
                    lo2[n] <= RankOf(s[i]) /\ RankOf(s[i]) < hi2[n]
               /\ \A i \in DOMAIN s : Fits(s, i, lo2, hi2, lo2[n], hi2[n])
    <3>1. NodeOrdered(t, lo, hi, n)
      BY <1>1
    <3>2. /\ RankOf(s[Len(s)]) = Roof
          /\ \A i \in 1..(Len(s) - 1) :
               lo[n] <= RankOf(s[i]) /\ RankOf(s[i]) < hi[n]
      BY <2>5, <3>1 DEF NodeOrdered, KeysOrdered
    <3>3. \A i \in 1..(Len(s) - 1) : i \in 1..Len(s)
      BY <2>1
    <3>4. \A i \in 1..(Len(s) - 1) :
            lo2[n] <= RankOf(s[i]) /\ RankOf(s[i]) < hi2[n]
      BY <2>1, <2>2, <3>2, <3>3
    <3>5. \A i \in DOMAIN s : Fits(s, i, lo2, hi2, lo2[n], hi2[n])
      BY <1>5, <2>1, <2>5
    <3>6. QED
      BY <3>2, <3>4, <3>5
  <2>6. QED
    BY <2>1, <2>3, <2>4, <2>5 DEF NodeOrdered, KeysOrdered
<1>7. Ordered(t, lo2, hi2)
  BY <1>3, <1>6 DEF Ordered
<1>8. \A l \in 0..Top(t) : lo2[p[l].n] <= x /\ x <= hi2[p[l].n]
  BY <1>3, <1>4
<1>9. QED
  BY <1>7, <1>8

-----------------------------------------------------------------------------
(* Insertion.                                                              *)

(* The marks of the children of a node.                                    *)
KeysMarked(l, s, m, n) ==
  l > 0 =>
    \A i \in 1..Len(s) :
      s[i].to \in DOMAIN m =>
        /\ n \in DOMAIN m
        /\ m[s[i].to].tof => m[n].tof /\ i = 1
        /\ m[s[i].to].eof => m[n].eof /\ i = Len(s)

(* Marked, node by node.                                                   *)
LEMMA MarkedNodes ==
  ASSUME NEW t, NEW m
  PROVE  Marked(t, m) <=>
           /\ 1 \in DOMAIN m => m[1] = RootMarks
           /\ \A n \in InUse(t) : KeysMarked(LevelOf(t, n), Keys(t, n), m, n)
BY DEF Marked, KeysMarked

(* The entries of the children of a node that is in use are in use.        *)
LEMMA KidsUsed ==
  ASSUME NEW t \in Tree, NEW L, Hangs(t, L, {}), NEW n \in InUse(t),
         LevelOf(t, n) > 0, NEW i \in 1..Len(Keys(t, n))
  PROVE  /\ Keys(t, n)[i].to \in InUse(t) /\ Keys(t, n)[i].to # 1
         /\ LevelOf(t, Keys(t, n)[i].to) + 1 = LevelOf(t, n)
         /\ Keys(t, n)[i].to \notin L
<1>1. n \in Node
  BY DEF InUse
<1>2. DOMAIN Keys(t, n) = 1..Len(Keys(t, n))
  BY <1>1, NodeFacts
<1>3. PICK up : Hung(t, up, L, {})
  BY DEF Hangs
<1>4. Keys(t, n)[i].to \in Kids(t, n)
  BY <1>2 DEF Kids, KidsOf
<1>5. QED
  BY <1>3, <1>4 DEF Hung

(* Ranks, node by node.                                                    *)
LEMMA RanksIn ==
  ASSUME NEW t \in Tree, NEW y
  PROVE  y \in Ranks(t) <=>
           \E n \in InUse(t) : /\ LevelOf(t, n) = 0
                               /\ \E i \in 1..Len(Keys(t, n)) :
                                    y = RankOf(Keys(t, n)[i])
<1>1. ASSUME y \in Ranks(t)
      PROVE  \E n \in InUse(t) : /\ LevelOf(t, n) = 0
                                 /\ \E i \in 1..Len(Keys(t, n)) :
                                      y = RankOf(Keys(t, n)[i])
  BY <1>1 DEF Ranks, LeafSpots
<1>2. ASSUME NEW n \in InUse(t), LevelOf(t, n) = 0,
             NEW i \in 1..Len(Keys(t, n)), y = RankOf(Keys(t, n)[i])
      PROVE  y \in Ranks(t)
  <2>1. n \in Node /\ Len(Keys(t, n)) \in Nat
    BY NodeFacts DEF InUse
  <2>2. i \in Nat
    BY <2>1
  <2>3. [n |-> n, i |-> i] \in LeafSpots(t)
    BY <1>2, <2>1, <2>2 DEF LeafSpots, Spots
  <2>4. QED
    BY <1>2, <2>3 DEF Ranks
<1>3. QED
  BY <1>1, <1>2

(* A node that is written anew, with its entries in order.                 *)
LEMMA OrderWhole ==
  ASSUME NEW t \in Tree, NEW lo, NEW hi, Ordered(t, lo, hi),
         NEW n \in InUse(t), NEW l, NEW s,
         KeysOrdered(l, s, lo, hi, lo[n], hi[n]),
         NEW u, Written(t, n, l, s, u)
  PROVE  Ordered(u, lo, hi)
<1>1. n \in Node /\ InUse(u) = InUse(t) /\ InUse(u) \subseteq Node
  BY DEF Written, InUse
<1>2. ASSUME NEW x \in InUse(u)
      PROVE  NodeOrdered(u, lo, hi, x)
  <2>1. CASE x = n
    BY <2>1 DEF Written, NodeOrdered
  <2>2. CASE x # n
    <3>1. LevelOf(u, x) = LevelOf(t, x) /\ Keys(u, x) = Keys(t, x)
      BY <1>1, <2>2 DEF Written
    <3>2. NodeOrdered(t, lo, hi, x)
      BY <1>1 DEF Ordered
    <3>3. QED
      BY <3>1, <3>2 DEF NodeOrdered
  <2>3. QED
    BY <2>1, <2>2
<1>3. QED
  BY <1>2 DEF Ordered

(* A node that is split.                                                   *)
LEMMA OrderParts ==
  ASSUME NEW t \in Tree, NEW L, Hangs(t, L, {}),
         NEW lo, NEW hi, Ordered(t, lo, hi),
         NEW n \in InUse(t), NEW l, l = LevelOf(t, n), NEW s \in Seq(Entries),
         KeysOrdered(l, s, lo, hi, lo[n], hi[n]),
         \A i \in 1..Len(s) : l > 0 => s[i].to \in InUse(t) /\ s[i].to # n,
         NEW h \in 1..(Len(s) - 1), NEW c, Parted(t, n, l, s, h, c)
  PROVE  LET v == RankOf(s[h])
             lo2 == [[lo EXCEPT ![c.low] = lo[n]] EXCEPT ![n] = v + 1]
             hi2 == [hi EXCEPT ![c.low] = v] IN
         Ordered(c.t, lo2, hi2)
<1> DEFINE v == RankOf(s[h])
           b == c.low
           lo2 == [[lo EXCEPT ![c.low] = lo[n]] EXCEPT ![n] = v + 1]
           hi2 == [hi EXCEPT ![c.low] = v]
<1>1. /\ lo \in [Node -> Int] /\ hi \in [Node -> Int]
      /\ n \in Node /\ b \in Node /\ b \notin InUse(t) /\ b # n
      /\ InUse(t) \subseteq Node /\ l \in Nat
      /\ InUse(c.t) = InUse(t) \union {b}
  BY NodeFacts, SMTT(30) DEF Ordered, InUse, Parted
<1>2. /\ v \in Int /\ lo[n] <= v /\ v < hi[n] /\ v < Roof
      /\ KeysOrdered(l, Closed(Take(s, h), l), lo, hi, lo[n], v)
      /\ KeysOrdered(l, Drop(s, h), lo, hi, v + 1, hi[n])
  BY <1>1, KeysSplit
<1> HIDE DEF v
<1>3. /\ lo2 \in [Node -> Int] /\ hi2 \in [Node -> Int]
      /\ lo2[b] = lo[n] /\ lo2[n] = v + 1 /\ hi2[b] = v /\ hi2[n] = hi[n]
      /\ \A x \in Node \ {b, n} : lo2[x] = lo[x] /\ hi2[x] = hi[x]
  BY <1>1, <1>2
<1> HIDE DEF lo2, hi2
<1>4. ASSUME NEW x \in InUse(t)
      PROVE  lo[x] <= lo2[x] /\ hi2[x] <= hi[x]
  <2>1. x \in Node /\ x # b /\ lo[x] \in Int /\ hi[x] \in Int
    BY <1>1
  <2>2. CASE x = n
    BY <1>2, <1>3, <2>1, <2>2
  <2>3. CASE x # n
    <3>1. lo2[x] = lo[x] /\ hi2[x] = hi[x]
      BY <1>3, <2>1, <2>3
    <3>2. QED
      BY <2>1, <3>1
  <2>4. QED
    BY <2>2, <2>3
<1>5. /\ Closed(Take(s, h), l) \in Seq(Entries)
      /\ Len(Closed(Take(s, h), l)) = h
      /\ \A i \in 1..h : Closed(Take(s, h), l)[i].to = s[i].to
      /\ Drop(s, h) \in Seq(Entries) /\ Len(Drop(s, h)) = Len(s) - h
      /\ \A i \in 1..(Len(s) - h) : Drop(s, h)[i] = s[h + i]
  <2>1. l \in Nat
    BY <1>1
  <2>2. QED
    BY ONLY <2>1, SplitFacts, s \in Seq(Entries), h \in 1..(Len(s) - 1)
<1>6. Len(s) \in Nat /\ h \in Nat /\ h >= 1
  BY ElementOfSeq
<1>7. /\ \A i \in 1..h : i \in 1..Len(s)
      /\ \A i \in 1..(Len(s) - h) : h + i \in 1..Len(s)
  BY <1>6
<1>8. KeysOrdered(l, Closed(Take(s, h), l), lo2, hi2, lo[n], v)
  <2>1. PICK q \in Seq(Entries) : q = Closed(Take(s, h), l)
    BY <1>5
  <2>2. l > 0 => \A i \in 1..Len(q) :
                    /\ q[i].to \in Node
                    /\ lo[q[i].to] <= lo2[q[i].to]
                    /\ hi2[q[i].to] <= hi[q[i].to]
    BY <1>1, <1>4, <1>5, <1>7, <2>1
  <2>3. KeysOrdered(l, q, lo, hi, lo[n], v) /\ lo[n] \in Int
    BY <1>1, <1>2, <2>1
  <2>4. KeysOrdered(l, q, lo2, hi2, lo[n], v)
    BY <1>1, <1>2, <1>3, <2>2, <2>3, KeysNarrow
  <2>5. QED
    BY <2>1, <2>4
<1>9. KeysOrdered(l, Drop(s, h), lo2, hi2, v + 1, hi[n])
  <2>1. PICK q \in Seq(Entries) : q = Drop(s, h)
    BY <1>5
  <2>2. ASSUME l > 0, NEW i \in 1..Len(q)
        PROVE  /\ q[i].to \in Node
               /\ lo[q[i].to] <= lo2[q[i].to]
               /\ hi2[q[i].to] <= hi[q[i].to]
    <3>1. h + i \in 1..Len(s) /\ q[i] = s[h + i]
      BY <1>5, <1>7, <2>1
    <3>2. QED
      BY <1>1, <1>4, <2>2, <3>1
  <2>3. KeysOrdered(l, q, lo, hi, v + 1, hi[n]) /\ hi[n] \in Int
          /\ v + 1 \in Int
    BY <1>1, <1>2, <2>1
  <2>4. KeysOrdered(l, q, lo2, hi2, v + 1, hi[n])
    BY <1>1, <1>2, <1>3, <2>2, <2>3, KeysNarrow
  <2>5. QED
    BY <2>1, <2>4
<1>10. ASSUME NEW x \in InUse(c.t)
       PROVE  NodeOrdered(c.t, lo2, hi2, x)
  <2>1. CASE x = b
    BY <1>3, <1>8, <2>1 DEF Parted, NodeOrdered
  <2>2. CASE x = n
    BY <1>3, <1>9, <2>2 DEF Parted, NodeOrdered
  <2>3. CASE x # b /\ x # n
    <3>1. x \in InUse(t) /\ x \in Node
      BY <1>1, <2>3
    <3>2. LevelOf(c.t, x) = LevelOf(t, x) /\ Keys(c.t, x) = Keys(t, x)
      BY <2>3, <3>1 DEF Parted, LevelOf, Keys
    <3>3. KeysOrdered(LevelOf(t, x), Keys(t, x), lo, hi, lo[x], hi[x])
      BY <3>1 DEF Ordered, NodeOrdered
    <3>4. LevelOf(t, x) > 0 =>
            \A i \in 1..Len(Keys(t, x)) :
              /\ Keys(t, x)[i].to \in Node
              /\ lo[Keys(t, x)[i].to] <= lo2[Keys(t, x)[i].to]
              /\ hi2[Keys(t, x)[i].to] <= hi[Keys(t, x)[i].to]
      BY <1>1, <1>4, <3>1, KidsUsed
    <3>5. Keys(t, x) \in Seq(Entries) /\ LevelOf(t, x) \in Nat
          /\ lo[x] \in Int /\ hi[x] \in Int
      BY <1>1, <3>1, NodeFacts
    <3>6. KeysOrdered(LevelOf(t, x), Keys(t, x), lo2, hi2, lo[x], hi[x])
      BY <1>1, <1>3, <3>3, <3>4, <3>5, KeysNarrow
    <3>7. QED
      BY <1>3, <2>3, <3>1, <3>2, <3>6 DEF NodeOrdered
  <2>4. QED
    BY <2>1, <2>2, <2>3
<1>11. Ordered(c.t, lo2, hi2)
  BY <1>3, <1>10 DEF Ordered
<1>12. QED
  BY <1>11 DEF lo2, hi2, v
(* A root that is split, with the new root above its halves.               *)
LEMMA OrderRoot ==
  ASSUME NEW t \in Tree, NEW L, Hangs(t, L, {}), 1 \in InUse(t),
         NEW lo, NEW hi, Ordered(t, lo, hi),
         NEW l, l = LevelOf(t, 1), NEW s \in Seq(Entries),
         KeysOrdered(l, s, lo, hi, lo[1], hi[1]),
         \A i \in 1..Len(s) : l > 0 => s[i].to \in InUse(t),
         NEW h \in 1..(Len(s) - 1), NEW r, Rooted(t, l, s, h, r)
  PROVE  \E lo2, hi2 : Ordered(r.t, lo2, hi2)
<1> DEFINE v == RankOf(s[h])
           a == r.low
           b == r.high
           lo2 == [[lo EXCEPT ![r.low] = lo[1]] EXCEPT ![r.high] = v + 1]
           hi2 == [[hi EXCEPT ![r.low] = v] EXCEPT ![r.high] = hi[1]]
<1>1. /\ lo \in [Node -> Int] /\ hi \in [Node -> Int]
      /\ 1 \in Node /\ a \in Node /\ b \in Node /\ a # b
      /\ a \notin InUse(t) /\ b \notin InUse(t)
      /\ InUse(t) \subseteq Node /\ l \in Nat
      /\ InUse(r.t) = InUse(t) \union {a, b}
  <2>1. lo \in [Node -> Int] /\ hi \in [Node -> Int]
    BY DEF Ordered
  <2>2. 1 \in Node /\ InUse(t) \subseteq Node
    BY DEF InUse
  <2>3. l \in Nat
    BY <2>2, NodeFacts
  <2>4. /\ a \in Node /\ b \in Node /\ a # b
        /\ a \notin InUse(t) /\ b \notin InUse(t)
        /\ InUse(r.t) = InUse(t) \union {a, b}
    BY DEF InUse, Rooted
  <2>5. QED
    BY <2>1, <2>2, <2>3, <2>4
<1>0. a # 1 /\ b # 1
  BY <1>1
<1>2. /\ v \in Int /\ lo[1] <= v /\ v < hi[1] /\ v < Roof
      /\ KeysOrdered(l, Closed(Take(s, h), l), lo, hi, lo[1], v)
      /\ KeysOrdered(l, Drop(s, h), lo, hi, v + 1, hi[1])
  BY <1>1, KeysSplit
<1> HIDE DEF v
<1>3. /\ lo2 \in [Node -> Int] /\ hi2 \in [Node -> Int]
      /\ lo2[a] = lo[1] /\ lo2[b] = v + 1 /\ hi2[a] = v /\ hi2[b] = hi[1]
      /\ \A x \in Node \ {a, b} : lo2[x] = lo[x] /\ hi2[x] = hi[x]
  <2>1. lo[1] \in Int /\ hi[1] \in Int
    BY <1>1
  <2>2. lo2 \in [Node -> Int] /\ hi2 \in [Node -> Int]
    BY <1>1, <1>2, <2>1
  <2>3. lo2[a] = lo[1] /\ lo2[b] = v + 1 /\ hi2[a] = v /\ hi2[b] = hi[1]
    BY <1>1, <1>2, <2>1
  <2>4. \A x \in Node \ {a, b} : lo2[x] = lo[x] /\ hi2[x] = hi[x]
    BY <1>1, <1>2, <2>1
  <2>5. QED
    BY <2>2, <2>3, <2>4
<1> HIDE DEF lo2, hi2
<1>4. \A x \in InUse(t) : /\ x \in Node /\ lo[x] \in Int /\ hi[x] \in Int
                          /\ lo2[x] = lo[x] /\ hi2[x] = hi[x]
  BY <1>1, <1>3
<1>5. /\ Closed(Take(s, h), l) \in Seq(Entries)
      /\ Len(Closed(Take(s, h), l)) = h
      /\ \A i \in 1..h : Closed(Take(s, h), l)[i].to = s[i].to
      /\ Drop(s, h) \in Seq(Entries) /\ Len(Drop(s, h)) = Len(s) - h
      /\ \A i \in 1..(Len(s) - h) : Drop(s, h)[i] = s[h + i]
  <2>1. l \in Nat
    BY <1>1
  <2> HIDE DEF a, b
  <2>2. QED
    BY ONLY <2>1, SplitFacts, s \in Seq(Entries), h \in 1..(Len(s) - 1)
<1>6. Len(s) \in Nat /\ h \in Nat /\ h >= 1
        /\ \A i \in 1..Len(s) : s[i] \in Entries
  BY ElementOfSeq
<1>7. /\ \A i \in 1..h : i \in 1..Len(s)
      /\ \A i \in 1..(Len(s) - h) : h + i \in 1..Len(s)
  BY <1>6
<1>8. KeysOrdered(l, Closed(Take(s, h), l), lo2, hi2, lo[1], v)
  <2>1. PICK q \in Seq(Entries) : q = Closed(Take(s, h), l)
    BY <1>5
  <2>2. ASSUME l > 0, NEW i \in 1..Len(q)
        PROVE  /\ q[i].to \in Node
               /\ lo[q[i].to] <= lo2[q[i].to]
               /\ hi2[q[i].to] <= hi[q[i].to]
    <3>1. i \in 1..Len(s) /\ q[i].to = s[i].to
      BY <1>5, <1>7, <2>1
    <3>2. q[i].to \in InUse(t)
      BY <2>2, <3>1
    <3>3. QED
      BY <1>4, <3>2
  <2>3. KeysOrdered(l, q, lo, hi, lo[1], v) /\ lo[1] \in Int
    BY <1>1, <1>2, <2>1
  <2>4. KeysOrdered(l, q, lo2, hi2, lo[1], v)
    BY <1>1, <1>2, <1>3, <2>2, <2>3, KeysNarrow
  <2>5. QED
    BY <2>1, <2>4
<1>9. KeysOrdered(l, Drop(s, h), lo2, hi2, v + 1, hi[1])
  <2>1. PICK q \in Seq(Entries) : q = Drop(s, h)
    BY <1>5
  <2>2. ASSUME l > 0, NEW i \in 1..Len(q)
        PROVE  /\ q[i].to \in Node
               /\ lo[q[i].to] <= lo2[q[i].to]
               /\ hi2[q[i].to] <= hi[q[i].to]
    <3>1. h + i \in 1..Len(s) /\ q[i] = s[h + i]
      BY <1>5, <1>7, <2>1
    <3>2. q[i].to \in InUse(t)
      BY <2>2, <3>1
    <3>3. QED
      BY <1>4, <3>2
  <2>3. KeysOrdered(l, q, lo, hi, v + 1, hi[1]) /\ hi[1] \in Int
          /\ v + 1 \in Int
    BY <1>1, <1>2, <2>1
  <2>4. KeysOrdered(l, q, lo2, hi2, v + 1, hi[1])
    BY <1>1, <1>2, <1>3, <2>2, <2>3, KeysNarrow
  <2>5. QED
    BY <2>1, <2>4
<1>10. KeysOrdered(l + 1, Keys(r.t, 1), lo2, hi2, lo[1], hi[1])
  <2> DEFINE x == Entry(s[h].k, s[h].d, a)
             y == High(b)
             q == <<x, y>>
  <2>1. Keys(r.t, 1) = q
    BY DEF Rooted
  <2>2. /\ x \in Entries /\ x.to = a /\ x.k = s[h].k /\ x.d = s[h].d
        /\ y \in Entries /\ y.to = b /\ y.k = Highest /\ y.d = 0
    <3>1. s[h] \in Entries /\ a \in 0..MaxNode /\ b \in 0..MaxNode
      BY <1>1, <1>6, <1>7 DEF Node
    <3>2. x \in Entries /\ x.to = a /\ x.k = s[h].k /\ x.d = s[h].d
      BY <3>1 DEF Entries, Entry
    <3>3. QED
      BY <3>1, <3>2, HighFacts
  <2>3. RankOf(x) = v /\ RankOf(y) = Roof
    BY <2>2 DEF RankOf, Roof, v
  <2>4. Roof \in Int /\ hi[1] <= Roof /\ lo[1] \in Int /\ hi[1] \in Int
    BY <1>1, KeysFacts
  <2>5. /\ DOMAIN q = 1..2 /\ Len(q) = 2 /\ q[1] = x /\ q[2] = y
    OBVIOUS
  <2> HIDE DEF x, y, q
  <2>6. Ascends(q)
    BY <1>2, <2>3, <2>5 DEF Ascends
  <2>7. Fits(q, 1, lo2, hi2, lo[1], hi[1])
    BY <1>2, <1>3, <2>2, <2>3, <2>4, <2>5 DEF Fits
  <2>8. Fits(q, 2, lo2, hi2, lo[1], hi[1])
    <3>1. /\ q[2].to = b /\ lo2[b] = v + 1 /\ hi2[b] = hi[1]
          /\ RankOf(q[2]) = Roof /\ RankOf(q[2 - 1]) = v
      BY <1>3, <2>2, <2>3, <2>5
    <3>2. lo[1] <= v + 1 /\ hi[1] <= hi[1] /\ v < v + 1
      BY <1>2, <2>4
    <3>3. QED
      BY <2>4, <3>1, <3>2 DEF Fits
  <2>9. \A i \in DOMAIN q : Fits(q, i, lo2, hi2, lo[1], hi[1])
    <3>1. \A i \in DOMAIN q : i = 1 \/ i = 2
      BY <2>5
    <3>2. QED
      BY <2>7, <2>8, <3>1
  <2>10. \A i \in 1..(Len(q) - 1) : lo[1] <= RankOf(q[i])
           /\ RankOf(q[i]) < hi[1]
    BY <1>2, <2>3, <2>5
  <2>11. lo[1] <= hi[1]
    BY <1>2, <2>4
  <2>12. KeysOrdered(l + 1, q, lo2, hi2, lo[1], hi[1])
    BY <1>1, <2>3, <2>4, <2>5, <2>6, <2>9, <2>10, <2>11 DEF KeysOrdered
  <2>13. QED
    BY <2>1, <2>12
<1>11. ASSUME NEW x \in InUse(r.t)
       PROVE  NodeOrdered(r.t, lo2, hi2, x)
  <2>1. CASE x = a
    BY <1>3, <1>8, <2>1 DEF Rooted, NodeOrdered
  <2>2. CASE x = b
    BY <1>3, <1>9, <2>2 DEF Rooted, NodeOrdered
  <2>3. CASE x = 1
    <3>1. lo2[1] = lo[1] /\ hi2[1] = hi[1]
      BY <1>4
    <3>2. LevelOf(r.t, 1) = l + 1
      BY DEF Rooted
    <3>3. QED
      BY <1>10, <2>3, <3>1, <3>2 DEF NodeOrdered
  <2>4. CASE x # a /\ x # b /\ x # 1
    <3>1. x \in InUse(t) /\ x \in Node
      BY <1>1, <2>4
    <3>2. LevelOf(r.t, x) = LevelOf(t, x) /\ Keys(r.t, x) = Keys(t, x)
      BY <2>4, <3>1 DEF Rooted, LevelOf, Keys
    <3>3. KeysOrdered(LevelOf(t, x), Keys(t, x), lo, hi, lo[x], hi[x])
      BY <3>1 DEF Ordered, NodeOrdered
    <3>4. ASSUME LevelOf(t, x) > 0, NEW i \in 1..Len(Keys(t, x))
          PROVE  /\ Keys(t, x)[i].to \in Node
                 /\ lo[Keys(t, x)[i].to] <= lo2[Keys(t, x)[i].to]
                 /\ hi2[Keys(t, x)[i].to] <= hi[Keys(t, x)[i].to]
      <4>1. Keys(t, x)[i].to \in InUse(t)
        BY <3>1, <3>4, KidsUsed
      <4>2. QED
        BY <1>4, <4>1
    <3>5. Keys(t, x) \in Seq(Entries) /\ LevelOf(t, x) \in Nat
          /\ lo[x] \in Int /\ hi[x] \in Int
      BY <1>1, <3>1, NodeFacts
    <3>6. KeysOrdered(LevelOf(t, x), Keys(t, x), lo2, hi2, lo[x], hi[x])
      BY <1>1, <1>3, <3>3, <3>4, <3>5, KeysNarrow
    <3>7. QED
      BY <1>4, <3>1, <3>2, <3>6 DEF NodeOrdered
  <2>5. QED
    BY <2>1, <2>2, <2>3, <2>4
<1>12. QED
  BY <1>3, <1>11 DEF Ordered

(* A new child has its marks among those of the others.                    *)
LEMMA MarksInsert ==
  ASSUME NEW s \in Seq(Entries), NEW l \in Nat, NEW m, NEW n,
         KeysMarked(l, s, m, n), NEW i \in 1..(Len(s) + 1), NEW e \in Entries,
         l > 0 => /\ i <= Len(s) /\ n \in DOMAIN m
                  /\ s[i].to \in DOMAIN m => ~m[s[i].to].tof
                  /\ e.to \in DOMAIN m => /\ ~m[e.to].eof
                                          /\ m[e.to].tof => m[n].tof /\ i = 1
  PROVE  KeysMarked(l, InsertAt(s, i, e), m, n)
<1> DEFINE r == InsertAt(s, i, e)
           z == Len(s)
<1>1. /\ Len(r) = z + 1
      /\ \A k \in 1..(z + 1) :
           r[k] = IF k < i THEN s[k] ELSE IF k = i THEN e ELSE s[k - 1]
  <2>1. PutIn(s, i, e, r)
    BY EntryInserted
  <2> HIDE DEF r
  <2>2. QED
    BY <2>1 DEF PutIn
<1>2. z \in Nat /\ i \in Nat /\ i >= 1
  OBVIOUS
<1> HIDE DEF r
<1>3. ASSUME l > 0, NEW k \in 1..(z + 1), r[k].to \in DOMAIN m
      PROVE  /\ n \in DOMAIN m
             /\ m[r[k].to].tof => m[n].tof /\ k = 1
             /\ m[r[k].to].eof => m[n].eof /\ k = z + 1
  <2>1. /\ i <= z /\ n \in DOMAIN m
        /\ s[i].to \in DOMAIN m => ~m[s[i].to].tof
        /\ e.to \in DOMAIN m => /\ ~m[e.to].eof
                                /\ m[e.to].tof => m[n].tof /\ i = 1
    BY <1>3
  <2>2. \A j \in 1..z : s[j].to \in DOMAIN m =>
          /\ m[s[j].to].tof => m[n].tof /\ j = 1
          /\ m[s[j].to].eof => m[n].eof /\ j = z
    BY <1>3 DEF KeysMarked
  <2>3. r[k] = IF k < i THEN s[k] ELSE IF k = i THEN e ELSE s[k - 1]
    BY <1>1
  <2>4. CASE k < i
    <3>1. k \in 1..z /\ k # z /\ r[k] = s[k]
      BY <1>2, <2>1, <2>3, <2>4
    <3>2. QED
      BY <1>3, <2>1, <2>2, <3>1
  <2>5. CASE k = i
    <3>1. r[k] = e
      BY <1>2, <2>3, <2>5
    <3>2. QED
      BY <1>3, <2>1, <2>5, <3>1
  <2>6. CASE k > i
    <3>1. k - 1 \in 1..z /\ r[k] = s[k - 1] /\ (k - 1 = z => k = z + 1)
          /\ (k - 1 = 1 => k - 1 = i)
      BY <1>2, <2>3, <2>6
    <3>2. /\ m[s[k - 1].to].tof => m[n].tof /\ k - 1 = 1
          /\ m[s[k - 1].to].eof => m[n].eof /\ k - 1 = z
      BY <1>3, <2>2, <3>1
    <3>3. ~m[r[k].to].tof
      BY <1>3, <2>1, <3>1, <3>2
    <3>4. QED
      BY <2>1, <3>1, <3>2, <3>3
  <2>7. QED
    BY <1>2, <2>4, <2>5, <2>6
<1>4. KeysMarked(l, r, m, n)
  BY <1>1, <1>3 DEF KeysMarked
<1>5. QED
  BY <1>4 DEF r
(* The marks of the children of a node that is split: a takes the low half *)
(* and the left mark, b the other half and the right mark.                 *)
LEMMA MarksSplit ==
  ASSUME NEW s \in Seq(Entries), NEW l \in Nat, NEW m, NEW n,
         KeysMarked(l, s, m, n), NEW h \in 1..(Len(s) - 1), NEW m2,
         NEW a \in DOMAIN m2, NEW b \in DOMAIN m2, n \in DOMAIN m,
         m2[a].tof = m[n].tof, m2[b].eof = m[n].eof,
         \A i \in 1..Len(s) : l > 0 /\ s[i].to \in DOMAIN m2 =>
           s[i].to \in DOMAIN m /\ m2[s[i].to] = m[s[i].to]
  PROVE  /\ KeysMarked(l, Closed(Take(s, h), l), m2, a)
         /\ KeysMarked(l, Drop(s, h), m2, b)
<1> DEFINE c == Closed(Take(s, h), l)
           d == Drop(s, h)
           z == Len(s)
<1>1. /\ Len(c) = h /\ Len(d) = z - h
      /\ \A i \in 1..h : c[i].to = s[i].to
      /\ \A i \in 1..(z - h) : d[i] = s[h + i]
  BY SplitFacts
<1>2. z \in Nat /\ h \in Nat /\ h >= 1 /\ h < z
  OBVIOUS
<1> HIDE DEF c, d
<1>3. ASSUME l > 0, NEW i \in 1..h, c[i].to \in DOMAIN m2
      PROVE  /\ m2[c[i].to].tof => m2[a].tof /\ i = 1
             /\ m2[c[i].to].eof => m2[a].eof /\ i = h
  <2>1. i \in 1..z /\ i # z /\ c[i].to = s[i].to
    BY <1>1, <1>2
  <2>2. s[i].to \in DOMAIN m /\ m2[s[i].to] = m[s[i].to]
    BY <1>3, <2>1
  <2>3. /\ m[s[i].to].tof => m[n].tof /\ i = 1
        /\ ~m[s[i].to].eof
    BY <1>3, <2>1, <2>2 DEF KeysMarked
  <2>4. QED
    BY <2>1, <2>2, <2>3
<1>4. ASSUME l > 0, NEW i \in 1..(z - h), d[i].to \in DOMAIN m2
      PROVE  /\ m2[d[i].to].tof => m2[b].tof /\ i = 1
             /\ m2[d[i].to].eof => m2[b].eof /\ i = z - h
  <2>0. i \in Int /\ i >= 1 /\ i <= z - h
    BY <1>2
  <2>1. h + i \in 1..z /\ h + i # 1 /\ d[i] = s[h + i]
          /\ (h + i = z => i = z - h)
    BY <1>1, <1>2, <2>0
  <2>2. s[h + i].to \in DOMAIN m /\ m2[s[h + i].to] = m[s[h + i].to]
    BY <1>4, <2>1
  <2>3. /\ m[s[h + i].to].eof => m[n].eof /\ h + i = z
        /\ ~m[s[h + i].to].tof
    BY <1>4, <2>1, <2>2 DEF KeysMarked
  <2>4. QED
    BY <2>1, <2>2, <2>3
<1>5. KeysMarked(l, c, m2, a) /\ KeysMarked(l, d, m2, b)
  BY <1>1, <1>3, <1>4 DEF KeysMarked
<1>6. QED
  BY <1>5 DEF c, d

(* The marks below a node that is written anew.                            *)
LEMMA MarksWhole ==
  ASSUME NEW t \in Tree, NEW m, Marked(t, m), NEW n \in InUse(t), NEW l, NEW s,
         KeysMarked(l, s, m, n), NEW u, Written(t, n, l, s, u)
  PROVE  Marked(u, m)
<1>1. InUse(u) = InUse(t) /\ InUse(u) \subseteq Node
  BY DEF Written, InUse
<1>2. ASSUME NEW x \in InUse(u)
      PROVE  KeysMarked(LevelOf(u, x), Keys(u, x), m, x)
  <2>1. CASE x = n
    BY <2>1 DEF Written
  <2>2. CASE x # n
    <3>1. LevelOf(u, x) = LevelOf(t, x) /\ Keys(u, x) = Keys(t, x)
      BY <1>1, <2>2 DEF Written
    <3>2. KeysMarked(LevelOf(t, x), Keys(t, x), m, x)
      BY <1>1, MarkedNodes
    <3>3. QED
      BY <3>1, <3>2
  <2>3. QED
    BY <2>1, <2>2
<1>3. 1 \in DOMAIN m => m[1] = RootMarks
  BY MarkedNodes
<1>4. QED
  BY <1>2, <1>3, MarkedNodes

(* What a split makes of the marks.                                        *)
HalvesOf(m, a, b, of, m2) ==
  /\ DOMAIN m2 = DOMAIN m \union {a, b}
  /\ m2[a].tof = of.tof /\ m2[a].eof = FALSE
  /\ m2[b].tof = FALSE /\ m2[b].eof = of.eof
  /\ \A x \in DOMAIN m \ {a, b} : m2[x] = m[x]

(* What Halves does.                                                       *)
LEMMA HalvesMarks ==
  ASSUME NEW m, NEW a, NEW b, a # b, NEW of \in Marks
  PROVE  HalvesOf(m, a, b, of, Halves(m, a, b, of))
<1> DEFINE m2 == Halves(m, a, b, of)
<1>1. DOMAIN m2 = DOMAIN m \union {a, b}
  BY DEF Halves
<1>2. m2[a] = [tof |-> of.tof, eof |-> FALSE]
  BY Zenon DEF Halves
<1>3. m2[b] = [tof |-> FALSE, eof |-> of.eof]
  BY Zenon DEF Halves
<1>4. \A x \in DOMAIN m \ {a, b} : m2[x] = m[x]
  BY Zenon DEF Halves
<1>5. m2[a].tof = of.tof /\ m2[a].eof = FALSE
  BY <1>2
<1>6. m2[b].tof = FALSE /\ m2[b].eof = of.eof
  BY <1>3
<1>7. QED
  BY <1>1, <1>4, <1>5, <1>6 DEF HalvesOf
(* The marks after a node n was split in two: the two halves share those of*)
(* n.                                                                      *)
PartMarks(m, n, c, m2) ==
  /\ Marked(c.t, m2)
  /\ ~m2[c.low].eof /\ ~m2[n].tof
  /\ m2[c.low].tof => m[n].tof
  /\ \A x \in DOMAIN m \ {n} : m2[x] = m[x]

(* The marks after a split.                                                *)
LEMMA MarksParts ==
  ASSUME NEW t \in Tree, NEW L, Hangs(t, L, {}), NEW m \in Memories(t),
         Marked(t, m), NEW n \in InUse(t), n # 1, n \in DOMAIN m,
         NEW l, l = LevelOf(t, n), NEW s \in Seq(Entries),
         KeysMarked(l, s, m, n),
         \A i \in 1..Len(s) : l > 0 => s[i].to \in InUse(t) /\ s[i].to # n,
         NEW h \in 1..(Len(s) - 1), NEW c, Parted(t, n, l, s, h, c)
  PROVE  PartMarks(m, n, c, Halves(m, c.low, n, m[n]))
<1> DEFINE a == c.low
           m2 == Halves(m, a, n, m[n])
<1>1. /\ n \in Node /\ a \in Node /\ a # 1 /\ a \notin InUse(t) /\ a # n
      /\ InUse(t) \subseteq Node /\ l \in Nat
      /\ InUse(c.t) = InUse(t) \union {a}
  <2>1. n \in Node /\ InUse(t) \subseteq Node
    BY DEF InUse
  <2>2. l \in Nat
    BY <2>1, NodeFacts
  <2>3. a \in Node /\ a # 1 /\ a \notin InUse(t)
        /\ InUse(c.t) = InUse(t) \union {a}
    BY DEF InUse, Parted
  <2>4. QED
    BY <2>1, <2>2, <2>3
<1>2. m[n] \in Marks /\ DOMAIN m \subseteq InUse(t)
  BY MemoryFacts
<1>3. /\ DOMAIN m2 = DOMAIN m \union {a, n}
      /\ m2[a].tof = m[n].tof /\ m2[a].eof = FALSE
      /\ m2[n].tof = FALSE /\ m2[n].eof = m[n].eof
      /\ \A x \in DOMAIN m \ {a, n} : m2[x] = m[x]
  <2>1. HalvesOf(m, a, n, m[n], m2)
    BY <1>1, <1>2, HalvesMarks
  <2> HIDE DEF m2, a
  <2>2. QED
    BY <2>1 DEF HalvesOf
<1> HIDE DEF m2, a
<1>4. \A i \in 1..Len(s) : l > 0 /\ s[i].to \in DOMAIN m2 =>
        s[i].to \in DOMAIN m /\ m2[s[i].to] = m[s[i].to]
  BY <1>1, <1>3
<1>5. /\ KeysMarked(l, Closed(Take(s, h), l), m2, a)
      /\ KeysMarked(l, Drop(s, h), m2, n)
  <2>1. a \in DOMAIN m2 /\ n \in DOMAIN m2
    BY <1>3
  <2>2. m2[a].tof = m[n].tof /\ m2[n].eof = m[n].eof
    BY <1>3
  <2>3. QED
    BY ONLY <1>1, <1>4, <2>1, <2>2, n \in DOMAIN m, KeysMarked(l, s, m, n),
            s \in Seq(Entries), h \in 1..(Len(s) - 1), MarksSplit
<1>6. ASSUME NEW x \in InUse(t), x # n
      PROVE  KeysMarked(LevelOf(t, x), Keys(t, x), m2, x)
  <2>1. KeysMarked(LevelOf(t, x), Keys(t, x), m, x)
    BY MarkedNodes
  <2>2. ASSUME LevelOf(t, x) > 0, NEW i \in 1..Len(Keys(t, x)),
               Keys(t, x)[i].to \in DOMAIN m2
        PROVE  /\ x \in DOMAIN m2
               /\ m2[Keys(t, x)[i].to].tof => m2[x].tof /\ i = 1
               /\ m2[Keys(t, x)[i].to].eof => m2[x].eof /\ i = Len(Keys(t, x))
    <3>1. PICK y : y = Keys(t, x)[i].to
      OBVIOUS
    <3>2. y \in InUse(t)
      BY <2>2, <3>1, KidsUsed
    <3>3. y \in DOMAIN m
      BY <1>1, <1>3, <2>2, <3>1, <3>2
    <3>4. /\ x \in DOMAIN m
          /\ m[y].tof => m[x].tof /\ i = 1
          /\ m[y].eof => m[x].eof /\ i = Len(Keys(t, x))
      BY <2>1, <2>2, <3>1, <3>3 DEF KeysMarked
    <3>5. x \in DOMAIN m2 /\ m2[x] = m[x]
      BY <1>1, <1>3, <1>6, <3>4
    <3>6. CASE y = n
      BY <1>3, <3>1, <3>4, <3>5, <3>6
    <3>7. CASE y # n
      <4>1. m2[y] = m[y]
        BY <1>1, <1>3, <3>2, <3>3, <3>7
      <4>2. QED
        BY <3>1, <3>4, <3>5, <4>1
    <3>8. QED
      BY <3>6, <3>7
  <2>3. QED
    BY <2>2 DEF KeysMarked
<1>7. ASSUME NEW x \in InUse(c.t)
      PROVE  KeysMarked(LevelOf(c.t, x), Keys(c.t, x), m2, x)
  <2>1. CASE x = a
    BY <1>5, <2>1 DEF Parted, a
  <2>2. CASE x = n
    BY <1>5, <2>2 DEF Parted
  <2>3. CASE x # a /\ x # n
    <3>1. x \in InUse(t) /\ x \in Node
      BY <1>1, <2>3
    <3>2. LevelOf(c.t, x) = LevelOf(t, x) /\ Keys(c.t, x) = Keys(t, x)
      BY <2>3, <3>1 DEF Parted, LevelOf, Keys, a
    <3>3. QED
      BY <1>6, <2>3, <3>1, <3>2
  <2>4. QED
    BY <2>1, <2>2, <2>3
<1>8. 1 \in DOMAIN m2 => m2[1] = RootMarks
  <2>1. 1 \in DOMAIN m => m[1] = RootMarks
    BY MarkedNodes
  <2>2. QED
    BY <1>1, <1>3, <2>1
<1>9. Marked(c.t, m2)
  BY <1>7, <1>8, MarkedNodes
<1>10. /\ ~m2[a].eof /\ ~m2[n].tof
       /\ m2[a].tof => m[n].tof
       /\ \A x \in DOMAIN m \ {n} : m2[x] = m[x]
  BY <1>1, <1>2, <1>3
<1>11. QED
  BY <1>9, <1>10 DEF m2, a, PartMarks

(* The marks after the root was split.                                     *)
LEMMA MarksRoot ==
  ASSUME NEW t \in Tree, NEW L, Hangs(t, L, {}), NEW m \in Memories(t),
         Marked(t, m), 1 \in InUse(t), 1 \in DOMAIN m,
         NEW l, l = LevelOf(t, 1), NEW s \in Seq(Entries),
         KeysMarked(l, s, m, 1),
         \A i \in 1..Len(s) : l > 0 => s[i].to \in InUse(t) /\ s[i].to # 1,
         NEW h \in 1..(Len(s) - 1), NEW r, Rooted(t, l, s, h, r)
  PROVE  Marked(r.t, Halves(m, r.low, r.high, RootMarks))
<1> DEFINE a == r.low
           b == r.high
           m2 == Halves(m, a, b, RootMarks)
<1>1. /\ a \in Node /\ b \in Node /\ a # 1 /\ b # 1 /\ a # b
      /\ a \notin InUse(t) /\ b \notin InUse(t)
      /\ InUse(t) \subseteq Node /\ l \in Nat
      /\ InUse(r.t) = InUse(t) \union {a, b}
  <2>1. 1 \in Node /\ InUse(t) \subseteq Node
    BY DEF InUse
  <2>2. l \in Nat
    BY <2>1, NodeFacts
  <2>3. /\ a \in Node /\ b \in Node /\ a # b /\ a \notin InUse(t)
        /\ b \notin InUse(t) /\ InUse(r.t) = InUse(t) \union {a, b}
    BY DEF InUse, Rooted
  <2>4. QED
    BY <2>1, <2>2, <2>3
<1>2. RootMarks \in Marks /\ DOMAIN m \subseteq InUse(t) /\ m[1] = RootMarks
  <2>1. RootMarks \in Marks
    BY DEF RootMarks, Marks
  <2>2. QED
    BY <2>1, MemoryFacts, MarkedNodes
<1>0. RootMarks.tof = TRUE /\ RootMarks.eof = TRUE
  BY DEF RootMarks
<1>3. /\ DOMAIN m2 = DOMAIN m \union {a, b}
      /\ m2[a].tof = TRUE /\ m2[a].eof = FALSE
      /\ m2[b].tof = FALSE /\ m2[b].eof = TRUE
      /\ \A x \in DOMAIN m \ {a, b} : m2[x] = m[x]
  <2>1. HalvesOf(m, a, b, RootMarks, m2)
    BY <1>1, <1>2, HalvesMarks
  <2> HIDE DEF m2, a, b
  <2>2. QED
    BY <1>0, <2>1 DEF HalvesOf
<1> HIDE DEF m2, a, b
<1>4. \A i \in 1..Len(s) : l > 0 /\ s[i].to \in DOMAIN m2 =>
        s[i].to \in DOMAIN m /\ m2[s[i].to] = m[s[i].to]
  BY <1>1, <1>3
<1>5. /\ KeysMarked(l, Closed(Take(s, h), l), m2, a)
      /\ KeysMarked(l, Drop(s, h), m2, b)
  <2>1. a \in DOMAIN m2 /\ b \in DOMAIN m2
    BY <1>3
  <2>2. m2[a].tof = m[1].tof /\ m2[b].eof = m[1].eof
    BY <1>0, <1>2, <1>3
  <2>3. QED
    BY ONLY <1>1, <1>4, <2>1, <2>2, 1 \in DOMAIN m, KeysMarked(l, s, m, 1),
            s \in Seq(Entries), h \in 1..(Len(s) - 1), MarksSplit
<1>6. ASSUME NEW x \in InUse(t)
      PROVE  KeysMarked(LevelOf(t, x), Keys(t, x), m2, x)
  <2>1. KeysMarked(LevelOf(t, x), Keys(t, x), m, x)
    BY MarkedNodes
  <2>2. ASSUME LevelOf(t, x) > 0, NEW i \in 1..Len(Keys(t, x)),
               Keys(t, x)[i].to \in DOMAIN m2
        PROVE  /\ x \in DOMAIN m2
               /\ m2[Keys(t, x)[i].to].tof => m2[x].tof /\ i = 1
               /\ m2[Keys(t, x)[i].to].eof => m2[x].eof /\ i = Len(Keys(t, x))
    <3>1. PICK y : y = Keys(t, x)[i].to
      OBVIOUS
    <3>2. y \in InUse(t)
      BY <2>2, <3>1, KidsUsed
    <3>3. y \in DOMAIN m
      BY <1>1, <1>3, <2>2, <3>1, <3>2
    <3>4. /\ x \in DOMAIN m
          /\ m[y].tof => m[x].tof /\ i = 1
          /\ m[y].eof => m[x].eof /\ i = Len(Keys(t, x))
      BY <2>1, <2>2, <3>1, <3>3 DEF KeysMarked
    <3>5. x \in DOMAIN m2 /\ m2[x] = m[x] /\ m2[y] = m[y]
      BY <1>1, <1>3, <3>2, <3>3, <3>4
    <3>6. QED
      BY <3>1, <3>4, <3>5
  <2>3. QED
    BY <2>2 DEF KeysMarked
<1>7. KeysMarked(l + 1, Keys(r.t, 1), m2, 1)
  <2> DEFINE x == Entry(s[h].k, s[h].d, a)
             y == High(b)
  <2>1. Keys(r.t, 1) = <<x, y>> /\ x.to = a /\ y.to = b
    BY DEF Rooted, Entry, High, a, b
  <2> HIDE DEF x, y
  <2>2. 1 \in DOMAIN m2 /\ m2[1] = RootMarks
    BY <1>1, <1>2, <1>3
  <2>3. m2[1].tof = TRUE /\ m2[1].eof = TRUE
    BY <2>2 DEF RootMarks
  <2>4. ASSUME NEW i \in 1..Len(<<x, y>>)
        PROVE  /\ m2[<<x, y>>[i].to].tof => m2[1].tof /\ i = 1
               /\ m2[<<x, y>>[i].to].eof => m2[1].eof /\ i = Len(<<x, y>>)
    <3>1. i = 1 \/ i = 2
      OBVIOUS
    <3>2. CASE i = 1
      BY <1>3, <2>1, <2>3, <3>2
    <3>3. CASE i = 2
      BY <1>3, <2>1, <2>3, <3>3
    <3>4. QED
      BY <3>1, <3>2, <3>3
  <2>5. QED
    BY <2>1, <2>2, <2>4 DEF KeysMarked
<1>8. ASSUME NEW x \in InUse(r.t)
      PROVE  KeysMarked(LevelOf(r.t, x), Keys(r.t, x), m2, x)
  <2>1. CASE x = a
    BY <1>5, <2>1 DEF Rooted, a
  <2>2. CASE x = b
    BY <1>5, <2>2 DEF Rooted, b
  <2>3. CASE x = 1
    <3>1. LevelOf(r.t, 1) = l + 1
      BY DEF Rooted
    <3>2. QED
      BY <1>7, <2>3, <3>1
  <2>4. CASE x # a /\ x # b /\ x # 1
    <3>1. x \in InUse(t) /\ x \in Node
      BY <1>1, <2>4
    <3>2. LevelOf(r.t, x) = LevelOf(t, x) /\ Keys(r.t, x) = Keys(t, x)
      BY <2>4, <3>1 DEF Rooted, LevelOf, Keys, a, b
    <3>3. QED
      BY <1>6, <3>1, <3>2
  <2>5. QED
    BY <2>1, <2>2, <2>3, <2>4
<1>9. 1 \in DOMAIN m2 => m2[1] = RootMarks
  BY <1>1, <1>2, <1>3
<1>10. Marked(r.t, m2)
  BY <1>8, <1>9, MarkedNodes
<1>11. QED
  BY <1>10 DEF m2, a, b
(* The ranks of a leaf's own entries.                                      *)
OwnOf(l, s) == IF l = 0 THEN {RankOf(s[i]) : i \in 1..Len(s)} ELSE {}
Own(t, n)   == OwnOf(LevelOf(t, n), Keys(t, n))

(* Ranks, by the own entries of the nodes.                                 *)
LEMMA RanksOwn ==
  ASSUME NEW t \in Tree, NEW y
  PROVE  y \in Ranks(t) <=> \E n \in InUse(t) : y \in Own(t, n)
BY RanksIn DEF Own, OwnOf

(* The own entries of a node after an entry was put in.                    *)
LEMMA OwnInsert ==
  ASSUME NEW s \in Seq(Entries), NEW i \in 1..(Len(s) + 1), NEW e \in Entries,
         NEW l \in Nat
  PROVE  OwnOf(l, InsertAt(s, i, e))
           = OwnOf(l, s) \union IF l = 0 THEN {RankOf(e)} ELSE {}
<1> DEFINE r == InsertAt(s, i, e)
           z == Len(s)
<1>1. /\ Len(r) = z + 1
      /\ \A k \in 1..(z + 1) :
           r[k] = IF k < i THEN s[k] ELSE IF k = i THEN e ELSE s[k - 1]
  <2>1. PutIn(s, i, e, r)
    BY EntryInserted
  <2> HIDE DEF r
  <2>2. QED
    BY <2>1 DEF PutIn
<1>2. z \in Nat /\ i \in Nat /\ i >= 1 /\ i <= z + 1
  OBVIOUS
<1> HIDE DEF r
<1>3. ASSUME NEW k \in 1..(z + 1)
      PROVE  r[k] = e \/ \E j \in 1..z : r[k] = s[j]
  <2>1. r[k] = IF k < i THEN s[k] ELSE IF k = i THEN e ELSE s[k - 1]
    BY <1>1
  <2>2. (k < i /\ k \in 1..z) \/ k = i \/ (~(k < i) /\ k # i /\ k - 1 \in 1..z)
    BY <1>2
  <2>3. CASE k < i /\ k \in 1..z
    BY <2>1, <2>3
  <2>4. CASE k = i
    BY <1>2, <2>1, <2>4
  <2>5. CASE ~(k < i) /\ k # i /\ k - 1 \in 1..z
    BY <2>1, <2>5
  <2>6. QED
    BY <2>2, <2>3, <2>4, <2>5
<1>4. ASSUME NEW j \in 1..z
      PROVE  \E k \in 1..(z + 1) : r[k] = s[j]
  <2>1. CASE j < i
    <3>1. j \in 1..(z + 1) /\ r[j] = s[j]
      BY <1>1, <1>2, <2>1
    <3>2. QED
      BY <3>1
  <2>2. CASE ~(j < i)
    <3>1. j + 1 \in 1..(z + 1) /\ ~(j + 1 < i) /\ j + 1 # i /\ (j + 1) - 1 = j
      BY <1>2, <2>2
    <3>2. r[j + 1] = s[j]
      BY <1>1, <3>1
    <3>3. QED
      BY <3>1, <3>2
  <2>3. QED
    BY <2>1, <2>2
<1>5. i \in 1..(z + 1) /\ r[i] = e
  BY <1>1, <1>2
<1>6. {RankOf(r[k]) : k \in 1..Len(r)}
        = {RankOf(s[j]) : j \in 1..z} \union {RankOf(e)}
  BY <1>1, <1>3, <1>4, <1>5
<1>7. OwnOf(l, r) = OwnOf(l, s) \union IF l = 0 THEN {RankOf(e)} ELSE {}
  BY <1>6 DEF OwnOf
<1>8. QED
  BY <1>7 DEF r

(* The own entries of the two halves of a node.                            *)
LEMMA OwnSplit ==
  ASSUME NEW s \in Seq(Entries), NEW h \in 1..(Len(s) - 1), NEW l \in Nat
  PROVE  OwnOf(l, s) =
           OwnOf(l, Closed(Take(s, h), l)) \union OwnOf(l, Drop(s, h))
<1> DEFINE c == Closed(Take(s, h), l)
           d == Drop(s, h)
           z == Len(s)
<1>1. /\ Len(c) = h /\ Len(d) = z - h
      /\ l = 0 => \A i \in 1..h : c[i] = s[i]
      /\ \A i \in 1..(z - h) : d[i] = s[h + i]
  BY SplitFacts
<1>2. z \in Nat /\ h \in Nat /\ h >= 1 /\ h < z
  OBVIOUS
<1> HIDE DEF c, d
<1>3. ASSUME l = 0
      PROVE  {RankOf(s[i]) : i \in 1..z} =
               {RankOf(c[i]) : i \in 1..h} \union
                 {RankOf(d[i]) : i \in 1..(z - h)}
  <2>1. ASSUME NEW i \in 1..h PROVE \E j \in 1..z : c[i] = s[j]
    <3>1. i \in 1..z /\ c[i] = s[i]
      BY <1>1, <1>2, <1>3
    <3>2. QED
      BY <3>1
  <2>2. ASSUME NEW i \in 1..(z - h) PROVE \E j \in 1..z : d[i] = s[j]
    <3>0. i \in Int /\ i >= 1 /\ i <= z - h
      BY <1>2
    <3>1. h + i \in 1..z /\ d[i] = s[h + i]
      BY <1>1, <1>2, <3>0
    <3>2. QED
      BY <3>1
  <2>3. ASSUME NEW j \in 1..z
        PROVE  \/ \E i \in 1..h : c[i] = s[j]
               \/ \E i \in 1..(z - h) : d[i] = s[j]
    <3>1. CASE j <= h
      <4>1. j \in 1..h
        BY <1>2, <3>1
      <4>2. QED
        BY <1>1, <1>3, <4>1
    <3>2. CASE ~(j <= h)
      <4>1. j - h \in 1..(z - h) /\ h + (j - h) = j
        BY <1>2, <3>2
      <4>2. d[j - h] = s[j]
        BY <1>1, <4>1
      <4>3. QED
        BY <4>1, <4>2
    <3>3. QED
      BY <3>1, <3>2
  <2>4. ASSUME NEW i \in 1..h PROVE \E j \in 1..z : RankOf(c[i]) = RankOf(s[j])
    BY <2>1
  <2>5. ASSUME NEW i \in 1..(z - h)
        PROVE  \E j \in 1..z : RankOf(d[i]) = RankOf(s[j])
    BY <2>2
  <2>6. ASSUME NEW j \in 1..z
        PROVE  \/ \E i \in 1..h : RankOf(c[i]) = RankOf(s[j])
               \/ \E i \in 1..(z - h) : RankOf(d[i]) = RankOf(s[j])
    BY <2>3
  <2> DEFINE C == {RankOf(c[i]) : i \in 1..h}
             D == {RankOf(d[i]) : i \in 1..(z - h)}
             A == {RankOf(s[i]) : i \in 1..z}
  <2>7. C \subseteq A
    BY <2>4
  <2>8. D \subseteq A
    BY <2>5
  <2>9. ASSUME NEW y \in A PROVE y \in C \/ y \in D
    BY <2>6
  <2> HIDE DEF C, D, A
  <2>10. C \union D = A
    BY <2>7, <2>8, <2>9
  <2>11. QED
    BY <2>10 DEF C, D, A
<1>4. OwnOf(l, c) \union OwnOf(l, d) = OwnOf(l, s)
  BY <1>1, <1>3 DEF OwnOf
<1>5. QED
  BY <1>4 DEF c, d

(* The nodes S and n hold the ranks A.                                     *)
Shares(A, S, n, u) == \A y : y \in A
  <=> \E x \in S \union {n} : y \in Own(u, x)

(* Nodes that share what was in one, and more.                             *)
LEMMA RanksGrow ==
  ASSUME NEW t \in Tree, NEW u \in Tree, NEW n \in InUse(t), NEW S,
         InUse(u) = InUse(t) \union S, S \intersect InUse(t) = {},
         \A x \in Node \ (S \union {n}) : u.node[x] = t.node[x],
         NEW X, Shares(Own(t, n) \union X, S, n, u)
  PROVE  Ranks(u) = Ranks(t) \union X
<1>0. \A y : y \in Own(t, n) \union X
        <=> \E x \in S \union {n} : y \in Own(u, x)
  BY DEF Shares
<1>1. \A x \in InUse(t) \ {n} : /\ x \in InUse(u) /\ x \notin S
                                /\ Own(u, x) = Own(t, x)
  BY DEF Own, InUse, LevelOf, Keys
<1>2. n \in InUse(u) /\ S \subseteq InUse(u)
  OBVIOUS
<1>3. ASSUME NEW y \in Ranks(u)
      PROVE  y \in Ranks(t) \union X
  <2>1. PICK x \in InUse(u) : y \in Own(u, x)
    BY RanksOwn
  <2>2. CASE x \in S \union {n}
    <3>1. y \in Own(t, n) \union X
      BY <1>0, <2>1, <2>2
    <3>2. QED
      BY <3>1, RanksOwn
  <2>3. CASE x \notin S \union {n}
    <3>1. x \in InUse(t) \ {n} /\ y \in Own(t, x)
      BY <1>1, <2>1, <2>3
    <3>2. QED
      BY <3>1, RanksOwn
  <2>4. QED
    BY <2>2, <2>3
<1>4. ASSUME NEW y \in Ranks(t) \union X
      PROVE  y \in Ranks(u)
  <2>1. CASE y \in X
    <3>1. PICK x \in S \union {n} : y \in Own(u, x)
      BY <1>0, <2>1
    <3>2. QED
      BY <1>2, <3>1, RanksOwn
  <2>2. CASE y \in Ranks(t)
    <3>1. PICK x \in InUse(t) : y \in Own(t, x)
      BY <2>2, RanksOwn
    <3>2. CASE x = n
      <4>1. PICK z \in S \union {n} : y \in Own(u, z)
        BY <1>0, <3>1, <3>2
      <4>2. QED
        BY <1>2, <4>1, RanksOwn
    <3>3. CASE x # n
      <4>1. x \in InUse(u) /\ y \in Own(u, x)
        BY <1>1, <3>1, <3>3
      <4>2. QED
        BY <4>1, RanksOwn
    <3>4. QED
      BY <3>2, <3>3
  <2>3. QED
    BY <2>1, <2>2
<1>5. QED
  BY <1>3, <1>4
(* What a stage of an insertion starts from.                               *)
Starting(t, p, l, g, n, s, i) ==
  /\ l \in Nat /\ n = p[l].n /\ i = p[l].i /\ s = Keys(t, n) /\ n \in InUse(t)
  /\ g.t \in Tree /\ Shapely(g.t) /\ Top(g.t) = Top(t)
  /\ g.m \in Memories(g.t) /\ g.e \in Entries
  /\ Hangs(g.t, IF l = 0 THEN {} ELSE {g.e.to}, {})
  /\ n \in InUse(g.t) /\ n \in DOMAIN g.m
  /\ LevelOf(g.t, n) = l /\ Keys(g.t, n) = s
  /\ s \in Seq(Entries) /\ i \in 1..(Len(s) + 1) /\ (l > 0 => i <= Len(s))
  /\ l > 0 => /\ g.e.to \in InUse(g.t) /\ g.e.to # 1
              /\ LevelOf(g.t, g.e.to) + 1 = l
              /\ i \in 1..Len(s)

(* What ivbnodesave finds at level l.                                      *)
LEMMA StageStarts ==
  ASSUME NEW t, Sound(t), NEW p, PathOf(t, p), NEW l \in 0..Top(t),
         NEW g \in Upto(t, p, l), g.more
  PROVE  Starting(t, p, l, g, p[l].n, Keys(t, p[l].n), p[l].i)
<1> DEFINE n == p[l].n
           i == p[l].i
<1>1. Rising(t, p, l, g) /\ g.t \in Tree /\ g.e \in Entries
  BY DEF Upto, Stages
<1>2. /\ Shapely(g.t) /\ Top(g.t) = Top(t)
      /\ Hangs(g.t, IF l = 0 THEN {} ELSE {g.e.to}, {})
      /\ l > 0 => /\ g.e.to \in InUse(g.t) /\ g.e.to # 1
                  /\ LevelOf(g.t, g.e.to) + 1 = l
      /\ \A j \in l..Top(t) : /\ p[j].n \in InUse(g.t) /\ p[j].n \in DOMAIN g.m
                              /\ g.t.node[p[j].n] = t.node[p[j].n]
      /\ g.m \in Memories(g.t)
  BY <1>1 DEF Rising
<1>3. l \in Nat /\ l \in l..Top(t)
  <2>1. Top(t) \in Nat
    BY TopFacts
  <2>2. QED
    BY <2>1
<1>4. /\ n \in InUse(t) /\ LevelOf(t, n) = l
      /\ Len(Keys(t, n)) \in Nat /\ i \in Nat
      /\ i >= 1 /\ i <= Len(Keys(t, n)) + 1
      /\ l > 0 => i \in 1..Len(Keys(t, n))
  BY PathNode
<1>5. /\ n \in InUse(g.t) /\ n \in DOMAIN g.m
      /\ LevelOf(g.t, n) = l /\ Keys(g.t, n) = Keys(t, n)
  <2>1. n \in InUse(g.t) /\ n \in DOMAIN g.m /\ g.t.node[n] = t.node[n]
    BY <1>2, <1>3
  <2>2. QED
    BY <1>4, <2>1 DEF LevelOf, Keys
<1>6. Keys(t, n) \in Seq(Entries)
  BY <1>4, UsedFacts
<1>7. i \in 1..(Len(Keys(t, n)) + 1) /\ (l > 0 => i <= Len(Keys(t, n)))
  BY <1>4
<1>8. QED
  BY <1>1, <1>2, <1>3, <1>4, <1>5, <1>6, <1>7 DEF Starting

(* The entry of a new node has room in front of the entry of the other     *)
(* half, and the marks of the new node are right for that place.           *)
Loose(lo, hi, m, n, s, i, e) ==
  /\ lo[n] <= lo[e.to] /\ hi[e.to] <= RankOf(e) /\ RankOf(e) < lo[s[i].to]
  /\ i > 1 => RankOf(s[i - 1]) < lo[e.to]
  /\ ~m[s[i].to].tof /\ ~m[e.to].eof
  /\ m[e.to].tof => m[n].tof /\ i = 1

(* The entry to insert has room in the leaf.                               *)
Roomy(lo, hi, n, s, i, x) ==
  /\ lo[n] <= x /\ x <= hi[n] /\ x < Roof
  /\ \A j \in 1..Len(s) : /\ j < i => RankOf(s[j]) < x
                          /\ j >= i => x < RankOf(s[j])

(* How far an insertion of rank x has come below level l: the order holds, *)
(* and the entry that is carried up finds its place.                       *)
Sliding(t, x, l, g, lo, hi, n, s, i) ==
  /\ Ordered(g.t, lo, hi) /\ Marked(g.t, g.m) /\ g.t.isdups = t.isdups
  /\ l = 0 => /\ Ranks(g.t) = Ranks(t) /\ RankOf(g.e) = x
              /\ Roomy(lo, hi, n, s, i, x)
  /\ l > 0 => /\ Ranks(g.t) = Ranks(t) \union {x}
              /\ Loose(lo, hi, g.m, n, s, i, g.e)

(* The node with its new entry.                                            *)
Filled(g, l, lo, hi, n, s, i, r) ==
  /\ r \in Seq(Entries) /\ KeysOrdered(l, r, lo, hi, lo[n], hi[n])
  /\ KeysMarked(l, r, g.m, n)
  /\ \A j \in 1..Len(r) : l > 0 => /\ r[j].to \in InUse(g.t) /\ r[j].to # 1
                                   /\ r[j].to # n
  /\ OwnOf(l, r) = OwnOf(l, s) \union IF l = 0 THEN {RankOf(g.e)} ELSE {}

(* The entries of the node with the new one are in order, marked, and in the*)
(* span of the node.                                                       *)
LEMMA StageFills ==
  ASSUME NEW t, NEW p, NEW l, NEW g, NEW n, NEW s, NEW i,
         Starting(t, p, l, g, n, s, i), NEW x \in Int, NEW lo, NEW hi,
         Sliding(t, x, l, g, lo, hi, n, s, i)
  PROVE  Filled(g, l, lo, hi, n, s, i, InsertAt(s, i, g.e))
<1> DEFINE r == InsertAt(s, i, g.e)
           e == g.e
           b == e.to
           c == s[i].to
<1>1. /\ l \in Nat /\ g.t \in Tree /\ e \in Entries
      /\ Hangs(g.t, IF l = 0 THEN {} ELSE {g.e.to}, {})
      /\ n \in InUse(g.t) /\ n \in DOMAIN g.m
      /\ LevelOf(g.t, n) = l /\ Keys(g.t, n) = s
      /\ s \in Seq(Entries) /\ i \in 1..(Len(s) + 1) /\ (l > 0 => i <= Len(s))
      /\ l > 0 => /\ b \in InUse(g.t) /\ b # 1 /\ LevelOf(g.t, b) + 1 = l
                  /\ i \in 1..Len(s)
  BY DEF Starting
<1>2. /\ lo \in [Node -> Int] /\ hi \in [Node -> Int] /\ n \in Node
      /\ InUse(g.t) \subseteq Node /\ lo[n] \in Int /\ hi[n] \in Int
  BY <1>1 DEF Sliding, Ordered, InUse
<1>3. NodeOrdered(g.t, lo, hi, n)
  BY <1>1 DEF Sliding, Ordered
<1>4. KeysOrdered(l, s, lo, hi, lo[n], hi[n])
  BY <1>1, <1>3 DEF NodeOrdered
<1>5. KeysMarked(l, s, g.m, n)
  <2>1. Marked(g.t, g.m)
    BY DEF Sliding
  <2>2. KeysMarked(LevelOf(g.t, n), Keys(g.t, n), g.m, n)
    BY <1>1, <2>1, MarkedNodes
  <2>3. QED
    BY <1>1, <2>2
<1>6. /\ Len(r) = Len(s) + 1 /\ r \in Seq(Entries)
      /\ \A k \in 1..(Len(s) + 1) :
           r[k] = IF k < i THEN s[k] ELSE IF k = i THEN e ELSE s[k - 1]
  <2>1. PutIn(s, i, e, r)
    BY <1>1, EntryInserted
  <2> HIDE DEF r
  <2>2. QED
    BY <2>1 DEF PutIn
<1>7. Len(s) \in Nat /\ i \in Nat /\ i >= 1 /\ i <= Len(s) + 1
  BY <1>1
<1>8. /\ \A j \in 1..Len(s) : RankOf(s[j]) \in Int
      /\ \A j, k \in 1..Len(s) : j < k => RankOf(s[j]) < RankOf(s[k])
      /\ Roof \in Int /\ lo[n] <= hi[n] /\ hi[n] <= Roof
      /\ l > 0 =>
           \A j \in 1..Len(s) :
             /\ lo[n] <= lo[s[j].to] /\ hi[s[j].to] <= hi[n]
             /\ hi[s[j].to] <= RankOf(s[j])
  BY <1>1, <1>2, <1>4, KeysFacts
<1>9. RankOf(e) \in Int
  BY <1>1, EntryRank
<1>10. l > 0 => \A j \in 1..Len(s) : /\ s[j].to \in InUse(g.t) /\ s[j].to # 1
                                     /\ LevelOf(g.t, s[j].to) + 1 = l
  <2>1. ASSUME l > 0, NEW j \in 1..Len(s)
        PROVE  /\ s[j].to \in InUse(g.t) /\ s[j].to # 1
               /\ LevelOf(g.t, s[j].to) + 1 = l
    <3>1. LevelOf(g.t, n) > 0 /\ j \in 1..Len(Keys(g.t, n))
      BY <1>1, <2>1
    <3>2. /\ Keys(g.t, n)[j].to \in InUse(g.t) /\ Keys(g.t, n)[j].to # 1
          /\ LevelOf(g.t, Keys(g.t, n)[j].to) + 1 = LevelOf(g.t, n)
      BY <1>1, <3>1, KidsUsed
    <3>3. QED
      BY <1>1, <3>2
  <2>2. QED
    BY <2>1
<1> HIDE DEF r
<1>11. KeysOrdered(l, r, lo, hi, lo[n], hi[n])
  <2>1. CASE l = 0
    <3>1. /\ RankOf(e) = x /\ lo[n] <= x /\ x <= hi[n] /\ x < Roof
          /\ \A j \in 1..Len(s) : /\ j < i => RankOf(s[j]) < x
                                  /\ j >= i => x < RankOf(s[j])
      BY <2>1 DEF Sliding, Roomy
    <3>2. QED
      BY <1>1, <1>2, <1>4, <2>1, <3>1, KeysInsert DEF r
  <2>2. CASE l > 0
    <3>1. /\ lo[n] <= lo[b] /\ hi[b] <= RankOf(e) /\ RankOf(e) < lo[c]
          /\ i > 1 => RankOf(s[i - 1]) < lo[b]
      BY <2>2 DEF Sliding, Loose
    <3>2. b \in InUse(g.t) /\ c \in InUse(g.t) /\ b \in Node /\ c \in Node
          /\ i \in 1..Len(s)
      BY <1>1, <1>2, <1>10, <2>2
    <3>3. lo[b] <= hi[b] /\ lo[c] <= hi[c]
      <4>1. NodeOrdered(g.t, lo, hi, b) /\ NodeOrdered(g.t, lo, hi, c)
        BY <3>2 DEF Sliding, Ordered
      <4>2. QED
        BY <4>1 DEF NodeOrdered, KeysOrdered
    <3>4. lo[b] \in Int /\ hi[b] \in Int /\ lo[c] \in Int /\ hi[c] \in Int
      BY <1>2, <3>2
    <3>5. /\ hi[c] <= hi[n] /\ hi[c] <= RankOf(s[i])
      BY <1>8, <2>2, <3>2
    <3>6. PICK v \in Int : v = RankOf(e)
      BY <1>9
    <3>7. /\ lo[n] <= v /\ v < Roof /\ v < hi[n] /\ v < RankOf(s[i])
          /\ lo[b] <= v
      <4>1. RankOf(s[i]) \in Int
        BY <1>8, <3>2
      <4> HIDE DEF b, c
      <4>2. QED
        BY <1>2, <1>8, <3>1, <3>3, <3>4, <3>5, <3>6, <4>1
    <3>8. ASSUME NEW j \in 1..Len(s)
          PROVE  /\ j < i => RankOf(s[j]) < v
                 /\ j >= i => v < RankOf(s[j])
      <4>1. RankOf(s[j]) \in Int /\ RankOf(s[i]) \in Int
        BY <1>8, <3>2
      <4>2. ASSUME j < i PROVE RankOf(s[j]) < v
        <5>1. i > 1 /\ i - 1 \in 1..Len(s) /\ (j = i - 1 \/ j < i - 1)
          BY <1>7, <4>2
        <5>2. RankOf(s[i - 1]) \in Int /\ RankOf(s[j]) <= RankOf(s[i - 1])
          BY <1>8, <5>1
        <5>3. RankOf(s[i - 1]) < lo[b]
          BY <3>1, <5>1
        <5> HIDE DEF b
        <5>4. QED
          BY <3>4, <3>7, <4>1, <5>2, <5>3
      <4>3. ASSUME j >= i PROVE v < RankOf(s[j])
        <5>1. j = i \/ i < j
          BY <1>7, <4>3
        <5>2. CASE j = i
          BY <3>7, <5>2
        <5>3. CASE i < j
          <6>1. RankOf(s[i]) < RankOf(s[j])
            BY <1>8, <3>2, <5>3
          <6>2. QED
            BY <3>7, <4>1, <6>1
        <5>4. QED
          BY <5>1, <5>2, <5>3
      <4>4. QED
        BY <4>2, <4>3
    <3>9. \A j \in 1..Len(s) : /\ j < i => RankOf(s[j]) < RankOf(e)
                               /\ j >= i => RankOf(e) < RankOf(s[j])
      BY <3>6, <3>8
    <3>10. /\ lo[n] <= RankOf(e) /\ RankOf(e) < Roof /\ RankOf(e) < hi[n]
      BY <3>6, <3>7
    <3>11. i <= Len(s) /\ l # 0
      BY <1>1, <2>2
    <3>12. QED
      BY <1>1, <1>2, <1>4, <3>1, <3>2, <3>9, <3>10, <3>11, KeysInsert DEF r
  <2>3. QED
    BY <1>1, <2>1, <2>2
<1>12. KeysMarked(l, r, g.m, n)
  <2>1. l > 0 => /\ i <= Len(s) /\ n \in DOMAIN g.m
                 /\ c \in DOMAIN g.m => ~g.m[c].tof
                 /\ b \in DOMAIN g.m => /\ ~g.m[b].eof
                                        /\ g.m[b].tof => g.m[n].tof /\ i = 1
    BY <1>1 DEF Sliding, Loose
  <2>2. QED
    BY <1>1, <1>5, <2>1, MarksInsert DEF r
<1>13. ASSUME l > 0, NEW j \in 1..Len(r)
       PROVE  r[j].to \in InUse(g.t) /\ r[j].to # 1 /\ r[j].to # n
  <2>1. r[j] = e \/ \E k \in 1..Len(s) : r[j] = s[k]
    <3>1. r[j] = IF j < i THEN s[j] ELSE IF j = i THEN e ELSE s[j - 1]
      BY <1>6
    <3>2. (j < i /\ j \in 1..Len(s)) \/ j = i
          \/ (~(j < i) /\ j # i /\ j - 1 \in 1..Len(s))
      BY <1>6, <1>7
    <3>3. CASE j < i /\ j \in 1..Len(s)
      BY <3>1, <3>3
    <3>4. CASE j = i
      BY <1>7, <3>1, <3>4
    <3>5. CASE ~(j < i) /\ j # i /\ j - 1 \in 1..Len(s)
      BY <3>1, <3>5
    <3>6. QED
      BY <3>2, <3>3, <3>4, <3>5
  <2>2. /\ r[j].to \in InUse(g.t) /\ r[j].to # 1
        /\ LevelOf(g.t, r[j].to) + 1 = l
    BY <1>1, <1>10, <1>13, <2>1
  <2>3. r[j].to # n
    BY <1>1, <2>2
  <2>4. QED
    BY <2>2, <2>3
<1>14. OwnOf(l, r) = OwnOf(l, s) \union IF l = 0 THEN {RankOf(g.e)} ELSE {}
  BY <1>1, OwnInsert DEF r
<1>15. Filled(g, l, lo, hi, n, s, i, r)
  BY <1>6, <1>11, <1>12, <1>13, <1>14 DEF Filled
<1>16. QED
  BY <1>15 DEF r
(* The outcome of an insertion.                                            *)
Placed(t, x, v) ==
  /\ v.t.isdups = t.isdups
  /\ \E lo, hi : /\ Ordered(v.t, lo, hi) /\ Marked(v.t, v.m)
                 /\ Ranks(v.t) = Ranks(t) \union {x}

(* A stage that writes these entries, whole or in halves, adds rank x and  *)
(* nothing else.                                                           *)
LEMMA StageRanks ==
  ASSUME NEW t, NEW p, NEW l, NEW g, NEW n, NEW s, NEW i,
         Starting(t, p, l, g, n, s, i), NEW x, NEW lo, NEW hi,
         Sliding(t, x, l, g, lo, hi, n, s, i),
         NEW r, Filled(g, l, lo, hi, n, s, i, r),
         NEW u \in Tree, NEW S, InUse(u) = InUse(g.t) \union S,
         S \intersect InUse(g.t) = {},
         \A y \in Node \ (S \union {n}) : u.node[y] = g.t.node[y],
         Shares(OwnOf(l, r), S, n, u)
  PROVE  Ranks(u) = Ranks(t) \union {x}
<1> DEFINE X == IF l = 0 THEN {RankOf(g.e)} ELSE {}
<1>1. Own(g.t, n) \union X = OwnOf(l, r)
  BY DEF Starting, Filled, Own
<1>2. g.t \in Tree /\ n \in InUse(g.t) /\ l \in Nat
  BY DEF Starting
<1>3. Shares(Own(g.t, n) \union X, S, n, u)
  BY <1>1
<1> HIDE DEF X
<1>4. Ranks(u) = Ranks(g.t) \union X
  BY <1>2, <1>3, RanksGrow
<1>5. CASE l = 0
  BY <1>4, <1>5 DEF Sliding, X
<1>6. CASE l > 0
  BY <1>4, <1>6 DEF Sliding, X
<1>7. QED
  BY <1>2, <1>5, <1>6

(* The entries fit: the insertion is done.                                 *)
LEMMA StageWhole ==
  ASSUME NEW t, NEW p, NEW l, NEW g, NEW n, NEW s, NEW i,
         Starting(t, p, l, g, n, s, i), NEW x, NEW lo, NEW hi,
         Sliding(t, x, l, g, lo, hi, n, s, i),
         NEW r, Filled(g, l, lo, hi, n, s, i, r),
         NEW v, SavesWhole(g, n, l, r, v)
  PROVE  Placed(t, x, v)
<1>1. g.t \in Tree /\ n \in InUse(g.t) /\ n \in Node /\ LevelOf(g.t, n) = l
  BY DEF Starting, InUse
<1>2. Written(g.t, n, l, r, v.t) /\ v.m = g.m
  BY DEF SavesWhole
<1>3. Ordered(v.t, lo, hi)
  <2>1. Ordered(g.t, lo, hi) /\ KeysOrdered(l, r, lo, hi, lo[n], hi[n])
    BY DEF Sliding, Filled
  <2>2. QED
    BY <1>1, <1>2, <2>1, OrderWhole
<1>4. Marked(v.t, v.m)
  <2>1. Marked(g.t, g.m) /\ KeysMarked(l, r, g.m, n)
    BY DEF Sliding, Filled
  <2>2. QED
    BY <1>1, <1>2, <2>1, MarksWhole
<1>5. Ranks(v.t) = Ranks(t) \union {x}
  <2>1. /\ v.t \in Tree /\ InUse(v.t) = InUse(g.t) \union {}
        /\ \A y \in Node \ ({} \union {n}) : v.t.node[y] = g.t.node[y]
    BY <1>1, <1>2 DEF Written
  <2>2. Own(v.t, n) = OwnOf(l, r)
    BY <1>2 DEF Written, Own
  <2>3. Shares(OwnOf(l, r), {}, n, v.t)
    BY <2>2 DEF Shares
  <2>4. QED
    BY <2>1, <2>3, StageRanks
<1>6. v.t.isdups = t.isdups
  BY <1>2 DEF Written, Sliding
<1>7. QED
  BY <1>3, <1>4, <1>5, <1>6 DEF Placed

(* The root is split: the insertion is done.                               *)
LEMMA StageRoot ==
  ASSUME NEW t, NEW p, NEW l, NEW g, NEW s, NEW i,
         Starting(t, p, l, g, 1, s, i), NEW x, NEW lo, NEW hi,
         Sliding(t, x, l, g, lo, hi, 1, s, i),
         NEW r, Filled(g, l, lo, hi, 1, s, i, r),
         NEW h, NEW q, NEW v, SavesRoot(g, l, r, h, q, v)
  PROVE  Placed(t, x, v)
<1>1. /\ g.t \in Tree /\ 1 \in InUse(g.t) /\ 1 \in Node /\ LevelOf(g.t, 1) = l
      /\ 1 \in DOMAIN g.m /\ g.m \in Memories(g.t) /\ l \in Nat
  BY DEF Starting, InUse
<1>2. PICK L : Hangs(g.t, L, {})
  BY DEF Starting
<1>3. /\ Rooted(g.t, l, r, h, q) /\ h \in 1..(Len(r) - 1)
      /\ v.t = q.t /\ v.m = Halves(g.m, q.low, q.high, RootMarks)
  BY DEF SavesRoot
<1>4. /\ r \in Seq(Entries) /\ KeysOrdered(l, r, lo, hi, lo[1], hi[1])
      /\ KeysMarked(l, r, g.m, 1)
      /\ \A j \in 1..Len(r) : l > 0 => r[j].to \in InUse(g.t) /\ r[j].to # 1
  BY DEF Filled
<1>5. PICK lo2, hi2 : Ordered(v.t, lo2, hi2)
  <2>1. Ordered(g.t, lo, hi)
    BY DEF Sliding
  <2>2. \A j \in 1..Len(r) : l > 0 => r[j].to \in InUse(g.t)
    BY <1>4
  <2>3. QED
    BY <1>1, <1>2, <1>3, <1>4, <2>1, <2>2, OrderRoot
<1>6. Marked(v.t, v.m)
  <2>1. Marked(g.t, g.m)
    BY DEF Sliding
  <2>2. QED
    BY <1>1, <1>2, <1>3, <1>4, <2>1, MarksRoot
<1>7. Ranks(v.t) = Ranks(t) \union {x}
  <2>1. /\ q.t \in Tree /\ InUse(q.t) = InUse(g.t) \union {q.low, q.high}
        /\ {q.low, q.high} \intersect InUse(g.t) = {}
        /\ \A y \in Node \ {1, q.low, q.high} : q.t.node[y] = g.t.node[y]
    BY <1>3 DEF Rooted, Sound, Shapely, InUse
  <2>2. /\ Own(q.t, q.low) = OwnOf(l, Closed(Take(r, h), l))
        /\ Own(q.t, q.high) = OwnOf(l, Drop(r, h))
        /\ Own(q.t, 1) = {}
    <3>1. /\ LevelOf(q.t, q.low) = l
          /\ Keys(q.t, q.low) = Closed(Take(r, h), l)
          /\ LevelOf(q.t, q.high) = l /\ Keys(q.t, q.high) = Drop(r, h)
          /\ LevelOf(q.t, 1) = l + 1
      BY <1>3 DEF Rooted
    <3>2. l + 1 # 0
      BY <1>1
    <3>3. QED
      BY <3>1, <3>2 DEF Own, OwnOf
  <2>3. OwnOf(l, r) = Own(q.t, q.low) \union Own(q.t, q.high)
    BY <1>1, <1>3, <1>4, <2>2, OwnSplit
  <2>4. Shares(OwnOf(l, r), {q.low, q.high}, 1, q.t)
    BY <2>2, <2>3 DEF Shares
  <2>5. \A y \in Node \ ({q.low, q.high} \union {1}) :
          q.t.node[y] = g.t.node[y]
    BY <2>1
  <2>6. QED
    BY <1>3, <2>1, <2>4, <2>5, StageRanks
<1>8. v.t.isdups = t.isdups
  BY <1>3 DEF Rooted, Sliding
<1>9. QED
  BY <1>5, <1>6, <1>7, <1>8 DEF Placed

(* A node that is not the root is split: the insertion goes on with the    *)
(* entry for the low half.                                                 *)
LEMMA StageParts ==
  ASSUME NEW t, NEW p, NEW l, NEW g, NEW n, NEW s, NEW i,
         Starting(t, p, l, g, n, s, i), NEW x, NEW lo, NEW hi,
         Sliding(t, x, l, g, lo, hi, n, s, i),
         NEW r, Filled(g, l, lo, hi, n, s, i, r), n # 1,
         NEW h, NEW c, NEW v, SavesParts(g, n, l, r, h, c, v),
         NEW q \in InUse(g.t), q \in DOMAIN g.m, LevelOf(g.t, q) = l + 1,
         NEW z, z = Keys(g.t, q), NEW j \in 1..Len(z), z[j].to = n
  PROVE  \E lo2, hi2 : Sliding(t, x, l + 1, v, lo2, hi2, q, z, j)
<1> DEFINE y == RankOf(r[h])
           a == c.low
           lo2 == [[lo EXCEPT ![c.low] = lo[n]] EXCEPT ![n] = y + 1]
           hi2 == [hi EXCEPT ![c.low] = y]
<1>1. /\ g.t \in Tree /\ n \in InUse(g.t) /\ n \in Node /\ LevelOf(g.t, n) = l
      /\ n \in DOMAIN g.m /\ g.m \in Memories(g.t) /\ l \in Nat
      /\ InUse(g.t) \subseteq Node
  BY DEF Starting, InUse
<1>2. PICK L : Hangs(g.t, L, {})
  BY DEF Starting
<1>3. /\ Parted(g.t, n, l, r, h, c) /\ h \in 1..(Len(r) - 1)
      /\ v.t = c.t /\ v.m = Halves(g.m, a, n, g.m[n]) /\ v.e = c.e
  BY DEF SavesParts
<1>4. /\ r \in Seq(Entries) /\ KeysOrdered(l, r, lo, hi, lo[n], hi[n])
      /\ KeysMarked(l, r, g.m, n)
      /\ \A k \in 1..Len(r) : l > 0 => r[k].to \in InUse(g.t) /\ r[k].to # n
  BY DEF Filled
<1>5. Ordered(v.t, lo2, hi2)
  <2>1. Ordered(g.t, lo, hi)
    BY DEF Sliding
  <2>2. Ordered(c.t, lo2, hi2)
    BY <1>1, <1>2, <1>3, <1>4, <2>1, OrderParts
  <2>3. QED
    BY <1>3, <2>2
<1>6. /\ Marked(v.t, v.m) /\ ~v.m[a].eof /\ ~v.m[n].tof
      /\ v.m[a].tof => g.m[n].tof
      /\ \A k \in DOMAIN g.m \ {n} : v.m[k] = g.m[k]
  <2>1. Marked(g.t, g.m)
    BY DEF Sliding
  <2>2. QED
    BY <1>1, <1>2, <1>3, <1>4, <2>1, MarksParts, SMTT(30) DEF PartMarks
<1>7. /\ a \in Node /\ a \notin InUse(g.t) /\ a # n /\ q # n /\ a # q
      /\ InUse(c.t) = InUse(g.t) \union {a}
      /\ RankOf(c.e) = y /\ c.e.to = a
  <2>1. /\ a \in Node /\ a \notin InUse(g.t)
        /\ InUse(c.t) = InUse(g.t) \union {a}
        /\ c.e = Entry(r[h].k, r[h].d, a)
    BY <1>3 DEF Parted, InUse
  <2>2. c.e.to = a /\ c.e.k = r[h].k /\ c.e.d = r[h].d
    BY <2>1 DEF Entry
  <2>3. RankOf(c.e) = y
    BY <2>2 DEF RankOf
  <2>4. QED
    BY <1>1, <2>1, <2>2, <2>3
<1>8. Ranks(v.t) = Ranks(t) \union {x}
  <2>1. /\ c.t \in Tree
        /\ {a} \intersect InUse(g.t) = {}
        /\ \A w \in Node \ {n, a} : c.t.node[w] = g.t.node[w]
    BY <1>3, <1>7 DEF Parted, Shapely
  <2>2. /\ Own(c.t, a) = OwnOf(l, Closed(Take(r, h), l))
        /\ Own(c.t, n) = OwnOf(l, Drop(r, h))
    BY <1>3 DEF Parted, Own
  <2>3. OwnOf(l, r) = Own(c.t, a) \union Own(c.t, n)
    BY <1>1, <1>3, <1>4, <2>2, OwnSplit
  <2>4. Shares(OwnOf(l, r), {a}, n, c.t)
    BY <2>3 DEF Shares
  <2>5. \A w \in Node \ ({a} \union {n}) : c.t.node[w] = g.t.node[w]
    BY <2>1
  <2>6. QED
    BY <1>3, <1>7, <2>1, <2>4, <2>5, StageRanks
<1>9. /\ lo \in [Node -> Int] /\ hi \in [Node -> Int]
      /\ NodeOrdered(g.t, lo, hi, q)
  BY DEF Sliding, Ordered
<1>10. /\ lo[q] <= lo[n]
       /\ j > 1 => RankOf(z[j - 1]) < lo[n]
  <2>1. KeysOrdered(l + 1, z, lo, hi, lo[q], hi[q])
    BY <1>9 DEF NodeOrdered
  <2>2. z \in Seq(Entries) /\ l + 1 \in Nat /\ l + 1 > 0 /\ lo[q] \in Int
        /\ hi[q] \in Int
    BY <1>1, <1>9, NodeFacts
  <2>3. \A k \in 1..Len(z) :
               /\ lo[q] <= lo[z[k].to]
               /\ k > 1 => RankOf(z[k - 1]) < lo[z[k].to]
    BY <1>9, <2>1, <2>2, KeysFacts
  <2>4. QED
    BY <2>3
<1>11. /\ lo2[q] = lo[q] /\ lo2[a] = lo[n] /\ lo2[n] = y + 1 /\ hi2[a] = y
       /\ y \in Int
  <2>1. \A k \in 1..Len(r) : RankOf(r[k]) \in Int
    BY <1>1, <1>4, <1>9, KeysFacts
  <2>2. h \in 1..Len(r)
    <3>1. Len(r) \in Nat
      BY <1>4
    <3>2. QED
      BY <1>3, <3>1
  <2>3. y \in Int
    BY <2>1, <2>2
  <2> HIDE DEF y
  <2>4. QED
    BY <1>1, <1>7, <1>9, <2>3
<1>12. g.m[n].tof => g.m[q].tof /\ j = 1
  <2>1. Marked(g.t, g.m)
    BY DEF Sliding
  <2>2. KeysMarked(l + 1, z, g.m, q)
    BY <2>1, MarkedNodes
  <2>3. l + 1 > 0
    BY <1>1
  <2>4. QED
    BY <1>1, <2>2, <2>3 DEF KeysMarked
<1>13. v.m[q] = g.m[q]
  BY <1>6, <1>7
<1> HIDE DEF lo2, hi2, y
<1>14. Loose(lo2, hi2, v.m, q, z, j, v.e)
  <2>1. lo2[q] <= lo2[v.e.to] /\ hi2[v.e.to] <= RankOf(v.e)
    BY <1>3, <1>7, <1>10, <1>11
  <2>2. RankOf(v.e) < lo2[z[j].to]
    BY <1>3, <1>7, <1>11
  <2>3. j > 1 => RankOf(z[j - 1]) < lo2[v.e.to]
    BY <1>3, <1>7, <1>10, <1>11
  <2>4. ~v.m[z[j].to].tof /\ ~v.m[v.e.to].eof
    BY <1>3, <1>6, <1>7
  <2>5. v.m[v.e.to].tof => v.m[q].tof /\ j = 1
    BY <1>3, <1>6, <1>7, <1>12, <1>13
  <2>6. QED
    BY <2>1, <2>2, <2>3, <2>4, <2>5 DEF Loose
<1>15. l + 1 # 0
  BY <1>1
<1>18. v.t.isdups = t.isdups
  BY <1>3 DEF Parted, Sliding
<1>16. Sliding(t, x, l + 1, v, lo2, hi2, q, z, j)
  BY <1>5, <1>6, <1>8, <1>14, <1>15, <1>18 DEF Sliding
<1>17. QED
  BY <1>16
(* A stage of an insertion ends it, or hands a new entry to the next.      *)
Onto(t, p, x, l, v) ==
  IF v.more
  THEN l <= Top(t) /\ \E lo, hi : Sliding(t, x, l, v, lo, hi, p[l].n,
                                          Keys(t, p[l].n), p[l].i)
  ELSE Placed(t, x, v)

(* One level of an insertion.                                              *)
LEMMA StageMoves ==
  ASSUME NEW t, Sound(t), NEW p, PathOf(t, p),
         Cardinality(t.free) >= Top(t) + 2,
         NEW l \in 0..Top(t), NEW g \in Upto(t, p, l), g.more,
         NEW x \in Int, Onto(t, p, x, l, g)
  PROVE  Onto(t, p, x, l + 1, ivbnodesave(g, p, l))
<1> DEFINE n == p[l].n
           s == Keys(t, n)
           i == p[l].i
           r == InsertAt(s, i, g.e)
           v == ivbnodesave(g, p, l)
<1>1. PICK lo, hi : Sliding(t, x, l, g, lo, hi, n, s, i)
  BY DEF Onto
<1>2. Starting(t, p, l, g, n, s, i)
  BY StageStarts
<1>3. Saves(g, n, l, r, v)
  <2>1. /\ Saves(g, n, l, InsertAt(Keys(g.t, n), i, g.e), v)
        /\ Keys(g.t, n) = s
    BY SaveCases
  <2>2. QED
    BY <2>1
<1>4. Rising(t, p, l, g)
  BY DEF Upto
<1>5. Top(t) \in Nat /\ l \in Nat /\ Top(g.t) = Top(t)
  BY <1>4, TopFacts DEF Rising
<1>6. l < Top(t) =>
        /\ l + 1 \in 0..Top(t)
        /\ p[l + 1].n \in InUse(g.t) /\ p[l + 1].n \in DOMAIN g.m
        /\ LevelOf(g.t, p[l + 1].n) = l + 1
        /\ Keys(g.t, p[l + 1].n) = Keys(t, p[l + 1].n)
        /\ p[l + 1].i \in 1..Len(Keys(t, p[l + 1].n))
        /\ Keys(t, p[l + 1].n)[p[l + 1].i].to = n
  <2>1. ASSUME l < Top(t)
        PROVE  /\ l + 1 \in l..Top(t) /\ l + 1 \in 0..Top(t) /\ l + 1 > 0
               /\ (l + 1) - 1 = l
    BY <1>5, <2>1
  <2>2. ASSUME l < Top(t)
        PROVE  /\ p[l + 1].n \in InUse(g.t) /\ p[l + 1].n \in DOMAIN g.m
               /\ g.t.node[p[l + 1].n] = t.node[p[l + 1].n]
    BY <1>4, <2>1, <2>2 DEF Rising
  <2>3. ASSUME l < Top(t)
        PROVE  /\ LevelOf(t, p[l + 1].n) = l + 1
               /\ p[l + 1].i \in 1..Len(Keys(t, p[l + 1].n))
               /\ Keys(t, p[l + 1].n)[p[l + 1].i].to = n
    BY <2>1, <2>3, PathNode, SMTT(30)
  <2>4. QED
    BY <2>1, <2>2, <2>3 DEF LevelOf, Keys
<1> HIDE DEF n, s, i, r, v
<1>7. Filled(g, l, lo, hi, n, s, i, r)
  BY <1>1, <1>2, StageFills DEF r
<1>8. CASE SavesWhole(g, n, l, r, v)
  <2>1. Placed(t, x, v)
    BY <1>1, <1>2, <1>7, <1>8, StageWhole
  <2>2. ~v.more
    BY <1>8 DEF SavesWhole
  <2>3. QED
    BY <2>1, <2>2 DEF Onto, v
<1>9. CASE n = 1 /\ \E h, q : SavesRoot(g, l, r, h, q, v)
  <2>1. PICK h, q : SavesRoot(g, l, r, h, q, v)
    BY <1>9
  <2>2. Placed(t, x, v)
    BY <1>1, <1>2, <1>7, <1>9, <2>1, StageRoot
  <2>3. ~v.more
    BY <2>1 DEF SavesRoot
  <2>4. QED
    BY <2>2, <2>3 DEF Onto, v
<1>10. CASE n # 1 /\ l < Top(g.t) /\ \E h, c : SavesParts(g, n, l, r, h, c, v)
  <2>1. PICK h, c : SavesParts(g, n, l, r, h, c, v)
    BY <1>10
  <2>2. l < Top(t)
    BY <1>5, <1>10
  <2> DEFINE q == p[l + 1].n
             z == Keys(t, q)
             j == p[l + 1].i
  <2>3. /\ q \in InUse(g.t) /\ q \in DOMAIN g.m /\ LevelOf(g.t, q) = l + 1
        /\ z = Keys(g.t, q) /\ j \in 1..Len(z) /\ z[j].to = n
        /\ l + 1 \in 0..Top(t)
    BY <1>6, <2>2
  <2> HIDE DEF q, z, j
  <2>4. \E lo2, hi2 : Sliding(t, x, l + 1, v, lo2, hi2, q, z, j)
    BY <1>1, <1>2, <1>7, <1>10, <2>1, <2>3, StageParts
  <2>5. v.more
    BY <2>1 DEF SavesParts
  <2>6. l + 1 <= Top(t)
    BY <1>5, <2>2
  <2>7. QED
    BY <2>4, <2>5, <2>6 DEF Onto, v, q, z, j
<1>11. QED
  BY <1>3, <1>8, <1>9, <1>10 DEF Saves

(* An insertion in an index in order.                                      *)
LEMMA InsertOrder ==
  ASSUME NEW t, Sound(t), NEW lo, NEW hi, Ordered(t, lo, hi),
         NEW p, PathOf(t, p), NEW m \in Memories(t), Marked(t, m),
         \A l \in 0..Top(t) : p[l].n \in DOMAIN m,
         NEW e \in Entries, Cardinality(t.free) >= Top(t) + 2,
         Roomy(lo, hi, p[0].n, Keys(t, p[0].n), p[0].i, RankOf(e))
  PROVE  Placed(t, RankOf(e), ivbkeyinsert(t, m, p, e))
<1> DEFINE x == RankOf(e)
<1>1. PICK u : Rises(t, m, p, e, u) /\ ivbkeyinsert(t, m, p, e) = u[Top(t)]
  BY InsertStages
<1>2. Top(t) \in Nat
  BY TopFacts
<1>3. /\ u[-1] = Moved(t, m, TRUE, e)
      /\ \A l \in 0..Top(t) : u[l] = IF u[l - 1].more
                                     THEN ivbnodesave(u[l - 1], p, l)
                                       ELSE u[l - 1]
      /\ \A l \in 0..(Top(t) + 1) : u[l - 1] \in Upto(t, p, l)
  BY <1>1 DEF Rises
<1>4. x \in Int
  BY EntryRank
<1> HIDE DEF x
<1>5. Onto(t, p, x, 0, u[-1])
  <2>1. u[-1] = [t |-> t, m |-> m, more |-> TRUE, e |-> e]
    BY <1>3 DEF Moved
  <2>2. u[-1].t = t /\ u[-1].m = m /\ u[-1].more = TRUE /\ u[-1].e = e
    BY <2>1
  <2>3. Sliding(t, x, 0, u[-1], lo, hi, p[0].n, Keys(t, p[0].n), p[0].i)
    BY <2>2 DEF Sliding, x
  <2>4. QED
    BY <1>2, <2>2, <2>3 DEF Onto
<1>6. ASSUME NEW l \in 0..Top(t), Onto(t, p, x, l, u[l - 1])
      PROVE  Onto(t, p, x, l + 1, u[l])
  <2>1. u[l - 1] \in Upto(t, p, l)
    BY <1>2, <1>3
  <2>2. CASE u[l - 1].more
    <3>1. u[l] = ivbnodesave(u[l - 1], p, l)
      BY <1>3, <2>2
    <3>2. Onto(t, p, x, l + 1, ivbnodesave(u[l - 1], p, l))
      BY <1>4, <1>6, <2>1, <2>2, StageMoves
    <3>3. QED
      BY <3>1, <3>2
  <2>3. CASE ~u[l - 1].more
    <3>1. u[l] = u[l - 1]
      BY <1>3, <2>3
    <3>2. QED
      BY <1>6, <2>3, <3>1 DEF Onto
  <2>4. QED
    BY <2>2, <2>3
<1>7. Onto(t, p, x, Top(t) + 1, u[Top(t)])
  <2> DEFINE B == {l \in 0..(Top(t) + 1) : ~Onto(t, p, x, l, u[l - 1])}
  <2>1. CASE B = {}
    <3>1. Top(t) + 1 \in 0..(Top(t) + 1) /\ (Top(t) + 1) - 1 = Top(t)
      BY <1>2
    <3>2. Onto(t, p, x, Top(t) + 1, u[(Top(t) + 1) - 1])
      BY <2>1, <3>1
    <3>3. QED
      BY <3>1, <3>2
  <2>2. CASE B # {}
    <3>1. PICK l \in B : \A y \in B : l <= y
      <4>1. B \in SUBSET Nat
        BY <1>2
      <4>2. QED
        BY <2>2, <4>1, LeastNumber
    <3>2. l \in 0..(Top(t) + 1) /\ ~Onto(t, p, x, l, u[l - 1])
      BY <3>1
    <3>3. l # 0
      BY <1>5, <3>2
    <3>4. l - 1 \in 0..Top(t) /\ l - 1 \in 0..(Top(t) + 1) /\ (l - 1) + 1 = l
          /\ ~(l <= l - 1)
      BY <1>2, <3>2, <3>3
    <3>5. l - 1 \notin B
      BY <3>1, <3>4
    <3>6. Onto(t, p, x, l - 1, u[(l - 1) - 1])
      BY <3>4, <3>5
    <3>7. Onto(t, p, x, (l - 1) + 1, u[l - 1])
      BY <1>6, <3>4, <3>6
    <3>8. QED
      BY <3>2, <3>4, <3>7
  <2>3. QED
    BY <2>1, <2>2
<1>8. Placed(t, x, u[Top(t)])
  <2>1. ~(Top(t) + 1 <= Top(t))
    BY <1>2
  <2>2. QED
    BY <1>7, <2>1 DEF Onto
<1>9. QED
  BY <1>1, <1>8 DEF x

-----------------------------------------------------------------------------
(* Deletion.                                                               *)

(* No two entries of the leaves have one rank.                             *)
LEMMA RankOnce ==
  ASSUME NEW t, Sound(t), NEW lo, NEW hi, Ordered(t, lo, hi),
         NEW n \in InUse(t), LevelOf(t, n) = 0, NEW i \in 1..Len(Keys(t, n)),
         NEW m \in InUse(t), LevelOf(t, m) = 0, NEW j \in 1..Len(Keys(t, m)),
         RankOf(Keys(t, n)[i]) = RankOf(Keys(t, m)[j])
  PROVE  n = m /\ i = j
<1>1. /\ n \in Node /\ m \in Node /\ i \in Nat /\ j \in Nat /\ Top(t) \in Nat
      /\ Len(Keys(t, n)) \in Nat /\ Len(Keys(t, m)) \in Nat
  BY OrderFacts, TopFacts
<1>2. CASE n = m
  <2>1. /\ \A a \in 1..Len(Keys(t, n)) : RankOf(Keys(t, n)[a]) \in Int
        /\ \A a, b \in 1..Len(Keys(t, n)) :
             a < b => RankOf(Keys(t, n)[a]) < RankOf(Keys(t, n)[b])
    BY OrderFacts
  <2>2. ~(i < j) /\ ~(j < i)
    BY <1>2, <2>1
  <2>3. QED
    BY <1>1, <1>2, <2>2
<1>3. CASE n # m
  <2>1. [n |-> n, i |-> i] \in LeafSpots(t)
          /\ [n |-> m, i |-> j] \in LeafSpots(t)
    BY <1>1 DEF LeafSpots, Spots
  <2>2. PICK p : PathOf(t, p) /\ p[0] = [n |-> n, i |-> i]
    BY <2>1, RankPath
  <2>3. PICK q : PathOf(t, q) /\ q[0] = [n |-> m, i |-> j]
    BY <2>1, RankPath
  <2>4. p[0].n = n /\ p[0].i = i /\ q[0].n = m /\ q[0].i = j
    BY <2>2, <2>3
  <2>5. PICK x : x = RankOf(Keys(t, n)[i])
    OBVIOUS
  <2>6. x \in Int /\ Cut(t, p, x)
    BY <2>2, <2>4, <2>5, EntryCut
  <2>7. OnEntry(t, q) /\ RankAt(t, q) = x
    BY <1>1, <2>4, <2>5 DEF OnEntry, RankAt
  <2>8. Top(t) \in 0..Top(t) /\ q[Top(t)].n = p[Top(t)].n
    BY <1>1, <2>2, <2>3 DEF PathOf
  <2>9. \/ \A a \in 1..Len(Keys(t, n)) : x < RankOf(Keys(t, n)[a])
        \/ \A a \in 1..Len(Keys(t, n)) : RankOf(Keys(t, n)[a]) < x
    BY <1>3, <2>2, <2>3, <2>4, <2>6, <2>7, <2>8, Sides
  <2>10. x < x
    BY <2>5, <2>9
  <2>11. QED
    BY <2>6, <2>10
<1>4. QED
  BY <1>2, <1>3

(* The marks of the children that stay.                                    *)
LEMMA MarksWithout ==
  ASSUME NEW s \in Seq(Entries), Len(s) >= 2, NEW l \in Nat, NEW m, NEW n,
         KeysMarked(l, s, m, n), NEW i \in 1..Len(s),
         s[i].to \notin DOMAIN m
  PROVE  KeysMarked(l, WithoutChild(s, i), m, n)
<1> DEFINE r == WithoutChild(s, i)
           z == Len(s)
<1>1. /\ Len(r) = z - 1
      /\ \A k \in 1..(z - 1) : r[k].to = IF k < i THEN s[k].to ELSE s[k + 1].to
  BY WithoutFacts
<1>2. z \in Nat /\ i \in Nat /\ i >= 1 /\ i <= z
  OBVIOUS
<1> HIDE DEF r
<1>3. ASSUME l > 0, NEW k \in 1..(z - 1), r[k].to \in DOMAIN m
      PROVE  /\ n \in DOMAIN m
             /\ m[r[k].to].tof => m[n].tof /\ k = 1
             /\ m[r[k].to].eof => m[n].eof /\ k = z - 1
  <2>1. \A j \in 1..z : s[j].to \in DOMAIN m =>
          /\ n \in DOMAIN m
          /\ m[s[j].to].tof => m[n].tof /\ j = 1
          /\ m[s[j].to].eof => m[n].eof /\ j = z
    BY <1>3 DEF KeysMarked
  <2>2. CASE k < i
    <3>1. k \in 1..z /\ k # z /\ r[k].to = s[k].to
      BY <1>1, <1>2, <2>2
    <3>2. QED
      BY <1>3, <2>1, <3>1
  <2>3. CASE ~(k < i)
    <3>1. k + 1 \in 1..z /\ k + 1 # 1 /\ (k + 1 = z => k = z - 1)
          /\ r[k].to = s[k + 1].to
      BY <1>1, <1>2, <2>3
    <3>2. QED
      BY <1>3, <2>1, <3>1
  <2>4. QED
    BY <2>2, <2>3
<1>4. KeysMarked(l, r, m, n)
  BY <1>1, <1>3 DEF KeysMarked
<1>5. QED
  BY <1>4 DEF r

(* A leaf without one of its entries.                                      *)
LEMMA OwnRemove ==
  ASSUME NEW s \in Seq(Entries), NEW i \in 1..Len(s),
         \A j \in 1..Len(s) : RankOf(s[j]) = RankOf(s[i]) => j = i
  PROVE  OwnOf(0, RemoveAt(s, i)) = OwnOf(0, s) \ {RankOf(s[i])}
<1> DEFINE r == RemoveAt(s, i)
           z == Len(s)
<1>1. /\ Len(r) = z - 1
      /\ \A k \in 1..(z - 1) : r[k] = IF k < i THEN s[k] ELSE s[k + 1]
  BY RemoveAtFacts
<1>2. z \in Nat /\ i \in Nat /\ i >= 1 /\ i <= z
  OBVIOUS
<1> HIDE DEF r
<1>3. ASSUME NEW k \in 1..(z - 1)
      PROVE  \E j \in 1..z : j # i /\ r[k] = s[j]
  <2>1. CASE k < i
    <3>1. k \in 1..z /\ k # i /\ r[k] = s[k]
      BY <1>1, <1>2, <2>1
    <3>2. QED
      BY <3>1
  <2>2. CASE ~(k < i)
    <3>1. k + 1 \in 1..z /\ k + 1 # i /\ r[k] = s[k + 1]
      BY <1>1, <1>2, <2>2
    <3>2. QED
      BY <3>1
  <2>3. QED
    BY <2>1, <2>2
<1>4. ASSUME NEW j \in 1..z, j # i
      PROVE  \E k \in 1..(z - 1) : r[k] = s[j]
  <2>1. CASE j < i
    <3>1. j \in 1..(z - 1) /\ r[j] = s[j]
      BY <1>1, <1>2, <2>1
    <3>2. QED
      BY <3>1
  <2>2. CASE ~(j < i)
    <3>1. j - 1 \in 1..(z - 1) /\ ~(j - 1 < i) /\ (j - 1) + 1 = j
      BY <1>2, <1>4, <2>2
    <3>2. r[j - 1] = s[j]
      BY <1>1, <3>1
    <3>3. QED
      BY <3>1, <3>2
  <2>3. QED
    BY <2>1, <2>2
<1> DEFINE A == {RankOf(s[j]) : j \in 1..z}
           B == {RankOf(r[k]) : k \in 1..(z - 1)}
<1>5. ASSUME NEW k \in 1..(z - 1)
      PROVE  RankOf(r[k]) \in A \ {RankOf(s[i])}
  <2>1. PICK j \in 1..z : j # i /\ r[k] = s[j]
    BY <1>3
  <2>2. QED
    BY <2>1
<1>6. ASSUME NEW j \in 1..z, RankOf(s[j]) # RankOf(s[i])
      PROVE  RankOf(s[j]) \in B
  <2>1. PICK k \in 1..(z - 1) : r[k] = s[j]
    BY <1>4, <1>6
  <2>2. QED
    BY <2>1
<1>7. B \subseteq A \ {RankOf(s[i])}
  BY <1>5
<1>8. ASSUME NEW y \in A, y # RankOf(s[i]) PROVE y \in B
  <2>1. PICK j \in 1..z : y = RankOf(s[j])
    OBVIOUS
  <2>2. QED
    BY <1>6, <1>8, <2>1
<1>9. OwnOf(0, r) = B /\ OwnOf(0, s) = A
  BY <1>1 DEF OwnOf
<1> HIDE DEF A, B
<1>10. OwnOf(0, r) = OwnOf(0, s) \ {RankOf(s[i])}
  BY <1>7, <1>8, <1>9
<1>11. QED
  BY <1>10 DEF r

(* One node that has other entries, or is gone.                            *)
Drops(t, u, n, B, Y) ==
  /\ n \in InUse(t) /\ InUse(u) \ {n} = InUse(t) \ {n}
  /\ \A x \in Node \ {n} : u.node[x] = t.node[x]
  /\ n \in InUse(u) => Own(u, n) = B
  /\ n \notin InUse(u) => B = {}
  /\ \A x \in InUse(t) \ {n} : Own(t, x) \intersect Y = {}
  /\ B = Own(t, n) \ Y

(* The entries of a tree of which one node lost those in Y.                *)
LEMMA RanksDrop ==
  ASSUME NEW t \in Tree, NEW u \in Tree, NEW n, NEW B, NEW Y,
         Drops(t, u, n, B, Y)
  PROVE  Ranks(u) = Ranks(t) \ Y
<1>0. /\ n \in InUse(t) /\ InUse(u) \ {n} = InUse(t) \ {n}
      /\ \A x \in Node \ {n} : u.node[x] = t.node[x]
      /\ n \in InUse(u) => Own(u, n) = B
      /\ n \notin InUse(u) => B = {}
      /\ \A x \in InUse(t) \ {n} : Own(t, x) \intersect Y = {}
      /\ B = Own(t, n) \ Y
  BY DEF Drops
<1>1. \A x \in InUse(t) \ {n} : x \in InUse(u) /\ Own(u, x) = Own(t, x)
  BY <1>0 DEF Own, InUse, LevelOf, Keys
<1>2. ASSUME NEW y \in Ranks(u)
      PROVE  y \in Ranks(t) \ Y
  <2>1. PICK x \in InUse(u) : y \in Own(u, x)
    BY RanksOwn
  <2>2. CASE x = n
    <3>1. y \in Own(t, n) /\ y \notin Y
      BY <1>0, <2>1, <2>2
    <3>2. QED
      BY <1>0, <3>1, RanksOwn
  <2>3. CASE x # n
    <3>1. x \in InUse(t) \ {n} /\ y \in Own(t, x) /\ y \notin Y
      BY <1>0, <1>1, <2>1, <2>3
    <3>2. QED
      BY <3>1, RanksOwn
  <2>4. QED
    BY <2>2, <2>3
<1>3. ASSUME NEW y \in Ranks(t) \ Y
      PROVE  y \in Ranks(u)
  <2>1. PICK x \in InUse(t) : y \in Own(t, x)
    BY RanksOwn
  <2>2. CASE x = n
    <3>1. y \in B
      BY <1>0, <2>1, <2>2
    <3>2. n \in InUse(u) /\ y \in Own(u, n)
      BY <1>0, <3>1
    <3>3. QED
      BY <3>2, RanksOwn
  <2>3. CASE x # n
    <3>1. x \in InUse(u) /\ y \in Own(u, x)
      BY <1>1, <2>1, <2>3
    <3>2. QED
      BY <3>1, RanksOwn
  <2>4. QED
    BY <2>2, <2>3
<1>4. QED
  BY <1>2, <1>3

(* What a step of the deletion finds at the level l of the path: the node  *)
(* is still as it was, and the child the entry names is gone.              *)
Lowering(t, p, l, g, n, s, i) ==
  /\ l \in Nat /\ n = p[l].n /\ i = p[l].i /\ s = Keys(t, n)
  /\ g.t \in Tree /\ g.m \in Memories(g.t) /\ n \in InUse(g.t)
  /\ LevelOf(g.t, n) = l /\ Keys(g.t, n) = s
  /\ s \in Seq(Entries) /\ i \in 1..Len(s)
  /\ l > 0 => /\ s[i].to \notin InUse(g.t)
              /\ \A j \in 1..Len(s) : s[j].to \in Node

(* What ivbkeydelete finds at level l.                                     *)
LEMMA LevelLowers ==
  ASSUME NEW t, Sound(t), NEW p, PathOf(t, p), OnEntry(t, p),
         NEW l \in 0..Top(t), NEW g \in Downto(t, p, l), g.more
  PROVE  Lowering(t, p, l, g, p[l].n, Keys(t, p[l].n), p[l].i)
<1> DEFINE n == p[l].n
           s == Keys(t, n)
<1>1. Top(t) \in Nat /\ l \in Nat /\ l <= Top(t) /\ l \in l..Top(t)
  BY TopFacts
<1>2. Falling(t, p, l, g) /\ g.t \in Tree
  BY <1>1 DEF Downto, Stages
<1>3. /\ n \in InUse(g.t) /\ g.t.node[n] = t.node[n] /\ g.m \in Memories(g.t)
      /\ l > 0 => p[l - 1].n \notin InUse(g.t)
  BY <1>1, <1>2 DEF Falling
<1>4. /\ n \in InUse(t) /\ LevelOf(t, n) = l
      /\ l > 0 => p[l].i \in 1..Len(s) /\ s[p[l].i].to = p[l - 1].n
      /\ l = 0 => p[l].i \in 1..Len(s)
  <2>1. l > 0 => p[l].i \in 1..Len(s) /\ s[p[l].i].to = p[l - 1].n
    BY PathNode
  <2>2. n \in InUse(t) /\ LevelOf(t, n) = l
    BY PathNode
  <2>3. l = 0 => p[l].i \in 1..Len(s)
    BY RankOfPath
  <2>4. QED
    BY <2>1, <2>2, <2>3
<1>5. s \in Seq(Entries)
  BY <1>4, UsedFacts
<1>6. l > 0 => \A j \in 1..Len(s) : s[j].to \in Node
  BY <1>4, ChildFacts
<1>7. LevelOf(g.t, n) = l /\ Keys(g.t, n) = s
  BY <1>3, <1>4 DEF LevelOf, Keys
<1>8. p[l].i \in 1..Len(s)
  BY <1>1, <1>4
<1>9. QED
  BY <1>1, <1>2, <1>3, <1>4, <1>5, <1>6, <1>7, <1>8 DEF Lowering

(* What holds of the tree and the marks between two steps of the deletion  *)
(* of the entry of rank y, and once it is over.                            *)
Sinking(t, y, l, v, lo, hi) ==
  /\ Ordered(v.t, lo, hi) /\ Marked(v.t, v.m) /\ v.t.isdups = t.isdups
  /\ l = 0 => v.t = t
  /\ Ranks(v.t) = IF l = 0 THEN Ranks(t) ELSE Ranks(t) \ {y}

(* The entry of rank y is gone from an ordered tree, and no other.         *)
Taken(t, y, v) ==
  /\ v.t.isdups = t.isdups
  /\ \E lo, hi : /\ Ordered(v.t, lo, hi) /\ Marked(v.t, v.m)
                 /\ Ranks(v.t) = Ranks(t) \ {y}

(* How far a deletion of rank y has come below level l.                    *)
Under(t, y, l, v, lo, hi) ==
  IF v.more THEN Sinking(t, y, l, v, lo, hi) ELSE Taken(t, y, v)

(* The entries that are left when one node has others, or is gone.         *)
LEMMA LevelRanks ==
  ASSUME NEW t, Sound(t), NEW p, PathOf(t, p), OnEntry(t, p), NEW lo, NEW hi,
         NEW l, NEW g, NEW n, NEW s, NEW i, Lowering(t, p, l, g, n, s, i),
         Sinking(t, RankAt(t, p), l, g, lo, hi),
         NEW u \in Tree, NEW B, InUse(u) \ {n} = InUse(g.t) \ {n},
         \A x \in Node \ {n} : u.node[x] = g.t.node[x],
         n \in InUse(u) => Own(u, n) = B, n \notin InUse(u) => B = {},
         B = IF l = 0 THEN OwnOf(l, s) \ {RankOf(s[i])} ELSE {}
  PROVE  Ranks(u) = Ranks(t) \ {RankAt(t, p)}
<1> DEFINE y == RankAt(t, p)
<1>1. /\ l \in Nat /\ n = p[l].n /\ i = p[l].i /\ s = Keys(t, n)
      /\ g.t \in Tree /\ n \in InUse(g.t) /\ n \in Node
      /\ LevelOf(g.t, n) = l /\ Keys(g.t, n) = s
      /\ s \in Seq(Entries) /\ i \in 1..Len(s)
  BY DEF Lowering, InUse
<1>2. Own(g.t, n) = OwnOf(l, s)
  BY <1>1 DEF Own
<1>3. CASE l = 0
  <2>1. g.t = t /\ Ordered(t, lo, hi)
    BY <1>3 DEF Sinking
  <2>2. y = RankOf(s[i])
    BY <1>1, <1>3 DEF RankAt
  <2>3. ASSUME NEW x \in InUse(t) \ {n}, NEW z \in Own(t, x)
        PROVE  z # y
    <3>1. LevelOf(t, x) = 0
      BY <2>3 DEF Own, OwnOf
    <3>2. PICK j \in 1..Len(Keys(t, x)) : z = RankOf(Keys(t, x)[j])
      BY <2>3, <3>1 DEF Own, OwnOf
    <3>3. /\ x \in InUse(t) /\ n \in InUse(t) /\ LevelOf(t, n) = 0
          /\ i \in 1..Len(Keys(t, n)) /\ y = RankOf(Keys(t, n)[i])
      BY <1>1, <1>3, <2>1, <2>2
    <3>4. RankOf(Keys(t, n)[i]) = RankOf(Keys(t, x)[j]) => n = x
      BY <2>1, <3>1, <3>3, RankOnce
    <3>5. QED
      BY <3>2, <3>3, <3>4
  <2>4. \A x \in InUse(t) \ {n} : Own(t, x) \intersect {y} = {}
    BY <2>3
  <2>5. t \in Tree /\ n \in InUse(t) /\ B = Own(t, n) \ {y}
    BY <1>1, <1>2, <1>3, <2>1, <2>2
  <2>6. InUse(u) \ {n} = InUse(t) \ {n}
          /\ \A x \in Node \ {n} : u.node[x] = t.node[x]
    BY <2>1
  <2>7. Drops(t, u, n, B, {y})
    BY <2>4, <2>5, <2>6 DEF Drops
  <2>9. Ranks(u) = Ranks(t) \ {y}
    BY <2>5, <2>7, RanksDrop
  <2>8. QED
    BY <2>9
<1>4. CASE l # 0
  <2>1. Own(g.t, n) = {} /\ B = {}
    BY <1>2, <1>4 DEF OwnOf
  <2>5. /\ \A x \in InUse(g.t) \ {n} : Own(g.t, x) \intersect {} = {}
        /\ B = Own(g.t, n) \ {}
    BY <2>1
  <2>6. Drops(g.t, u, n, B, {})
    BY <1>1, <2>5 DEF Drops
  <2>7. PICK E : E = {}
    OBVIOUS
  <2>8. PICK h : h = g.t
    OBVIOUS
  <2>9. h \in Tree /\ Drops(h, u, n, B, E)
    BY <1>1, <2>6, <2>7, <2>8
  <2>10. Ranks(u) = Ranks(h) \ E
    BY <2>9, RanksDrop
  <2>2. Ranks(u) = Ranks(g.t) \ {}
    BY <2>7, <2>8, <2>10
  <2>3. Ranks(g.t) = Ranks(t) \ {y}
    BY <1>4 DEF Sinking
  <2>4. QED
    BY <2>2, <2>3
<1>5. QED
  BY <1>3, <1>4

(* The node became empty and is freed: the deletion goes on.               *)
LEMMA LevelEmpties ==
  ASSUME NEW t, Sound(t), NEW p, PathOf(t, p), OnEntry(t, p), NEW lo, NEW hi,
         NEW l, NEW g, NEW n, NEW s, NEW i, Lowering(t, p, l, g, n, s, i),
         Sinking(t, RankAt(t, p), l, g, lo, hi),
         NEW v, Empties(g, n, l, s, v)
  PROVE  Sinking(t, RankAt(t, p), l + 1, v, lo, hi)
<1>1. /\ l \in Nat /\ n \in InUse(g.t) /\ n \in Node /\ g.t \in Tree
      /\ s \in Seq(Entries) /\ i \in 1..Len(s) /\ g.m \in Memories(g.t)
  BY DEF Lowering, InUse
<1>2. Len(s) = 1 /\ Freed(g.t, n, v.t) /\ v.m = Kept(v.t, g.m)
  BY DEF Empties
<1>3. /\ v.t \in Tree /\ InUse(v.t) = InUse(g.t) \ {n}
      /\ \A x \in Node \ {n} : /\ v.t.node[x] = g.t.node[x]
                               /\ LevelOf(v.t, x) = LevelOf(g.t, x)
                               /\ Keys(v.t, x) = Keys(g.t, x)
  BY <1>2 DEF Freed
<1>4. Ordered(g.t, lo, hi) /\ Marked(g.t, g.m)
  BY DEF Sinking
<1>5. Ordered(v.t, lo, hi)
  <2>1. ASSUME NEW x \in InUse(v.t) PROVE NodeOrdered(v.t, lo, hi, x)
    <3>1. x \in InUse(g.t) /\ x \in Node \ {n}
      BY <1>3 DEF InUse
    <3>2. NodeOrdered(g.t, lo, hi, x)
      BY <1>4, <3>1 DEF Ordered
    <3>3. QED
      BY <1>3, <3>1, <3>2 DEF NodeOrdered
  <2>2. QED
    BY <1>4, <2>1 DEF Ordered
<1>6. Marked(v.t, v.m)
  <2>1. /\ DOMAIN v.m = DOMAIN g.m \ v.t.free
        /\ \A x \in DOMAIN v.m : v.m[x] = g.m[x]
    BY <1>2 DEF Kept
  <2>2. 1 \in DOMAIN v.m => v.m[1] = RootMarks
    BY <1>4, <2>1 DEF Marked
  <2>3. ASSUME NEW x \in InUse(v.t)
        PROVE  KeysMarked(LevelOf(v.t, x), Keys(v.t, x), v.m, x)
    <3>1. x \in InUse(g.t) /\ x \in Node \ {n} /\ x \notin v.t.free
      BY <1>3 DEF InUse
    <3>2. KeysMarked(LevelOf(g.t, x), Keys(g.t, x), g.m, x)
      BY <1>4, <3>1, MarkedNodes
    <3>3. KeysMarked(LevelOf(v.t, x), Keys(v.t, x), g.m, x)
      BY <1>3, <3>1, <3>2
    <3>4. QED
      BY <2>1, <3>1, <3>3 DEF KeysMarked
  <2>4. QED
    BY <2>2, <2>3, MarkedNodes
<1>7. Ranks(v.t) = Ranks(t) \ {RankAt(t, p)}
  <2> DEFINE B == IF l = 0 THEN OwnOf(l, s) \ {RankOf(s[i])} ELSE {}
  <2>1. B = {}
    <3>1. i = 1
      BY <1>1, <1>2
    <3>2. CASE l = 0
      <4>1. OwnOf(l, s) = {RankOf(s[j]) : j \in 1..Len(s)}
        BY <3>2 DEF OwnOf
      <4>2. \A j \in 1..Len(s) : j = i
        BY <1>2, <3>1
      <4>3. QED
        BY <4>1, <4>2
    <3>3. QED
      BY <3>2
  <2>2. /\ InUse(v.t) \ {n} = InUse(g.t) \ {n} /\ n \notin InUse(v.t)
        /\ \A x \in Node \ {n} : v.t.node[x] = g.t.node[x]
    BY <1>3
  <2> HIDE DEF B
  <2>3. n \in InUse(v.t) => Own(v.t, n) = B
    BY <2>2
  <2>4. B = IF l = 0 THEN OwnOf(l, s) \ {RankOf(s[i])} ELSE {}
    BY DEF B
  <2>5. v.t \in Tree /\ (n \notin InUse(v.t) => B = {})
    BY <1>3, <2>1
  <2>6. QED
    BY <2>2, <2>3, <2>4, <2>5, LevelRanks
<1>8. l + 1 # 0
  BY <1>1
<1>9. v.t.isdups = t.isdups
  BY <1>2 DEF Freed, Sinking
<1>10. QED
  BY <1>5, <1>6, <1>7, <1>8, <1>9 DEF Sinking

(* The node that stays keeps the order and the marks.                      *)
LEMMA LevelShortens ==
  ASSUME NEW t, Sound(t), NEW p, PathOf(t, p), OnEntry(t, p), NEW lo, NEW hi,
         NEW l, NEW g, NEW n, NEW s, NEW i, Lowering(t, p, l, g, n, s, i),
         Sinking(t, RankAt(t, p), l, g, lo, hi),
         NEW v, Shortens(g, n, l, s, i, v)
  PROVE  Taken(t, RankAt(t, p), v)
<1> DEFINE r == Shorter(l, s, i)
           B == IF l = 0 THEN OwnOf(l, s) \ {RankOf(s[i])} ELSE {}
<1>1. /\ l \in Nat /\ n \in InUse(g.t) /\ n \in Node /\ g.t \in Tree
      /\ s \in Seq(Entries) /\ i \in 1..Len(s) /\ g.m \in Memories(g.t)
      /\ LevelOf(g.t, n) = l /\ Keys(g.t, n) = s
      /\ l > 0 => /\ s[i].to \notin InUse(g.t)
                  /\ \A j \in 1..Len(s) : s[j].to \in Node
  BY DEF Lowering, InUse
<1>2. /\ l > 0 => Len(s) >= 2
      /\ Written(g.t, n, l, r, v.t) /\ v.m = g.m
  BY DEF Shortens
<1>3. Ordered(g.t, lo, hi) /\ Marked(g.t, g.m)
  BY DEF Sinking
<1>4. /\ lo \in [Node -> Int] /\ hi \in [Node -> Int]
      /\ lo[n] \in Int /\ hi[n] \in Int
      /\ KeysOrdered(l, s, lo, hi, lo[n], hi[n])
  BY <1>1, <1>3 DEF Ordered, NodeOrdered
<1>5. KeysMarked(l, s, g.m, n)
  BY <1>1, <1>3, MarkedNodes
<1>6. ASSUME l = 0
      PROVE  /\ KeysOrdered(l, r, lo, hi, lo[n], hi[n])
             /\ KeysMarked(l, r, g.m, n)
             /\ OwnOf(l, r) = B
  <2>1. r = RemoveAt(s, i)
    BY <1>6 DEF Shorter
  <2>2. KeysOrdered(l, r, lo, hi, lo[n], hi[n])
    BY <1>1, <1>4, <1>6, <2>1, KeysRemove
  <2>3. KeysMarked(l, r, g.m, n)
    BY <1>6 DEF KeysMarked
  <2>4. OwnOf(l, r) = B
    <3>1. g.t = t /\ Ordered(t, lo, hi)
      BY <1>6 DEF Sinking
    <3>2. /\ n \in InUse(t) /\ LevelOf(t, n) = 0 /\ Keys(t, n) = s
      BY <1>1, <1>6, <3>1
    <3>3. ASSUME NEW j \in 1..Len(s), RankOf(s[j]) = RankOf(s[i])
          PROVE  j = i
      <4>1. /\ i \in 1..Len(Keys(t, n)) /\ j \in 1..Len(Keys(t, n))
            /\ RankOf(Keys(t, n)[j]) = RankOf(Keys(t, n)[i])
        BY <1>1, <3>2, <3>3
      <4>2. QED
        BY <3>1, <3>2, <4>1, RankOnce
    <3>4. OwnOf(0, RemoveAt(s, i)) = OwnOf(0, s) \ {RankOf(s[i])}
      BY <1>1, <3>3, OwnRemove
    <3>5. QED
      BY <1>6, <2>1, <3>4
  <2> HIDE DEF r, B
  <2>5. QED
    BY <2>2, <2>3, <2>4
<1>7. ASSUME l # 0
      PROVE  /\ KeysOrdered(l, r, lo, hi, lo[n], hi[n])
             /\ KeysMarked(l, r, g.m, n)
             /\ OwnOf(l, r) = B
  <2>1. r = WithoutChild(s, i) /\ l > 0 /\ Len(s) >= 2
    BY <1>1, <1>2, <1>7 DEF Shorter
  <2>7. PICK a, b : a = lo[n] /\ b = hi[n]
    OBVIOUS
  <2>8. /\ a \in Int /\ b \in Int /\ KeysOrdered(l, s, lo, hi, a, b)
        /\ \A j \in 1..Len(s) : s[j].to \in Node
    BY <1>1, <1>4, <2>1, <2>7
  <2>9. KeysOrdered(l, WithoutChild(s, i), lo, hi, a, b)
    BY <1>1, <1>4, <2>1, <2>8, KeysWithout
  <2>2. KeysOrdered(l, r, lo, hi, lo[n], hi[n])
    BY <2>1, <2>7, <2>9
  <2>3. s[i].to \notin DOMAIN g.m
    BY <1>1, <2>1, MemoryFacts
  <2>4. KeysMarked(l, r, g.m, n)
    BY <1>1, <1>5, <2>1, <2>3, MarksWithout
  <2>5. OwnOf(l, r) = B
    BY <1>7 DEF OwnOf
  <2> HIDE DEF r, B
  <2>6. QED
    BY <2>2, <2>4, <2>5
<1>8. /\ KeysOrdered(l, r, lo, hi, lo[n], hi[n]) /\ KeysMarked(l, r, g.m, n)
      /\ OwnOf(l, r) = B
  BY <1>6, <1>7
<1> HIDE DEF r
<1>9. Ordered(v.t, lo, hi)
  BY <1>1, <1>2, <1>3, <1>8, OrderWhole
<1>10. Marked(v.t, v.m)
  BY <1>1, <1>2, <1>3, <1>8, MarksWhole
<1>11. Ranks(v.t) = Ranks(t) \ {RankAt(t, p)}
  <2>1. /\ v.t \in Tree /\ InUse(v.t) = InUse(g.t) \union {n}
        /\ LevelOf(v.t, n) = l /\ Keys(v.t, n) = r
        /\ \A x \in Node \ {n} : v.t.node[x] = g.t.node[x]
    BY <1>2 DEF Written
  <2>2. InUse(v.t) \ {n} = InUse(g.t) \ {n} /\ n \in InUse(v.t)
    BY <2>1
  <2>3. Own(v.t, n) = B
    BY <1>8, <2>1 DEF Own
  <2>4. B = IF l = 0 THEN OwnOf(l, s) \ {RankOf(s[i])} ELSE {}
    OBVIOUS
  <2> HIDE DEF B
  <2>5. (n \notin InUse(v.t) => B = {})
          /\ (n \in InUse(v.t) => Own(v.t, n) = B)
    BY <2>2, <2>3
  <2>6. QED
    BY <2>1, <2>2, <2>4, <2>5, LevelRanks
<1>12. v.t.isdups = t.isdups
  BY <1>2 DEF Written, Sinking
<1>13. QED
  BY <1>9, <1>10, <1>11, <1>12 DEF Taken

(* The root that takes over its child.                                     *)
LEMMA LevelTakes ==
  ASSUME NEW t, Sound(t), NEW p, PathOf(t, p), OnEntry(t, p), NEW lo, NEW hi,
         NEW l, NEW g, NEW s, NEW i, Lowering(t, p, l, g, 1, s, i),
         Sinking(t, RankAt(t, p), l, g, lo, hi),
         NEW v, TakesOver(g, l, s, i, v)
  PROVE  Taken(t, RankAt(t, p), v)
<1>1. /\ l \in Nat /\ 1 \in InUse(g.t) /\ 1 \in Node /\ g.t \in Tree
      /\ LevelOf(g.t, 1) = l
  BY DEF Lowering, InUse
<1>2. PICK c : /\ l > 0 /\ c \in InUse(g.t) /\ c # 1 /\ Sound(v.t)
               /\ InUse(v.t) = InUse(g.t) \ {c} /\ v.t.node[1] = g.t.node[c]
               /\ \A x \in Node \ {1, c} : v.t.node[x] = g.t.node[x]
               /\ v.m = [x \in {1} |-> RootMarks]
  BY DEF TakesOver
<1>3. Ordered(g.t, lo, hi) /\ c \in Node
  BY <1>2 DEF Sinking, InUse
<1>4. lo \in [Node -> Int] /\ hi \in [Node -> Int] /\ v.t \in Tree
  BY <1>2, <1>3, TopFacts DEF Ordered
<1> DEFINE lo2 == [lo EXCEPT ![1] = lo[c]]
           hi2 == [hi EXCEPT ![1] = hi[c]]
<1>5. /\ lo2 \in [Node -> Int] /\ hi2 \in [Node -> Int]
      /\ lo2[1] = lo[c] /\ hi2[1] = hi[c]
      /\ \A x \in Node \ {1} : lo2[x] = lo[x] /\ hi2[x] = hi[x]
  BY <1>1, <1>3, <1>4
<1> HIDE DEF lo2, hi2
<1>6. ASSUME NEW x \in InUse(v.t)
      PROVE  \E y \in InUse(g.t) :
               /\ LevelOf(v.t, x) = LevelOf(g.t, y)
               /\ Keys(v.t, x) = Keys(g.t, y)
               /\ lo2[x] = lo[y] /\ hi2[x] = hi[y]
  <2>1. CASE x = 1
    BY <1>2, <1>5, <2>1 DEF LevelOf, Keys
  <2>2. CASE x # 1
    <3>1. x \in InUse(g.t) /\ x \in Node \ {1, c}
      BY <1>2, <2>2 DEF InUse
    <3>2. QED
      BY <1>2, <1>5, <3>1 DEF LevelOf, Keys
  <2>3. QED
    BY <2>1, <2>2
<1>7. Ordered(v.t, lo2, hi2)
  <2>1. ASSUME NEW x \in InUse(v.t) PROVE NodeOrdered(v.t, lo2, hi2, x)
    <3>1. PICK y \in InUse(g.t) :
               /\ LevelOf(v.t, x) = LevelOf(g.t, y)
               /\ Keys(v.t, x) = Keys(g.t, y)
               /\ lo2[x] = lo[y] /\ hi2[x] = hi[y]
      BY <1>6
    <3>2. PICK k, z : k = LevelOf(v.t, x) /\ z = Keys(v.t, x)
      OBVIOUS
    <3>3. KeysOrdered(k, z, lo, hi, lo[y], hi[y])
      BY <1>3, <3>1, <3>2 DEF Ordered, NodeOrdered
    <3>4. k \in Nat /\ z \in Seq(Entries)
      BY <1>2, <3>2, UsedFacts
    <3>5. y \in Node /\ lo[y] \in Int /\ hi[y] \in Int
      BY <1>4, <3>1 DEF InUse
    <3>6. k > 0 => \A j \in 1..Len(z) : /\ z[j].to \in Node
                                        /\ lo[z[j].to] <= lo2[z[j].to]
                                        /\ hi2[z[j].to] <= hi[z[j].to]
      <4>1. ASSUME k > 0, NEW j \in 1..Len(z)
            PROVE  z[j].to \in Node /\ z[j].to # 1
        BY <1>2, <3>2, <4>1, ChildFacts
      <4>2. ASSUME NEW b \in Node, b # 1
            PROVE  lo[b] <= lo2[b] /\ hi2[b] <= hi[b]
        <5>1. lo2[b] = lo[b] /\ hi2[b] = hi[b] /\ lo[b] \in Int
                /\ hi[b] \in Int
          BY <1>4, <1>5, <4>2
        <5>2. QED
          BY <5>1
      <4>3. QED
        BY <4>1, <4>2
    <3>7. KeysOrdered(k, z, lo2, hi2, lo[y], hi[y])
      BY <1>4, <1>5, <3>3, <3>4, <3>5, <3>6, KeysNarrow
    <3>8. QED
      BY <3>1, <3>2, <3>7 DEF NodeOrdered
  <2>2. QED
    BY <1>5, <2>1 DEF Ordered
<1>8. Marked(v.t, v.m)
  <2>1. DOMAIN v.m = {1} /\ v.m[1] = RootMarks
    BY <1>2
  <2>2. ASSUME NEW x \in InUse(v.t)
        PROVE  KeysMarked(LevelOf(v.t, x), Keys(v.t, x), v.m, x)
    <3>1. ASSUME LevelOf(v.t, x) > 0, NEW j \in 1..Len(Keys(v.t, x))
          PROVE  Keys(v.t, x)[j].to \notin DOMAIN v.m
      BY <1>2, <2>1, <3>1, ChildFacts
    <3>2. QED
      BY <3>1 DEF KeysMarked
  <2>3. QED
    BY <2>1, <2>2, MarkedNodes
<1>9. Ranks(v.t) = Ranks(g.t)
  <2>1. ASSUME NEW y \in Ranks(v.t) PROVE y \in Ranks(g.t)
    <3>1. PICK x \in InUse(v.t) : y \in Own(v.t, x)
      BY <1>4, RanksOwn
    <3>2. PICK z \in InUse(g.t) :
               LevelOf(v.t, x) = LevelOf(g.t, z) /\ Keys(v.t, x) = Keys(g.t, z)
      BY <1>6
    <3>3. y \in Own(g.t, z)
      BY <3>1, <3>2 DEF Own
    <3>4. QED
      BY <1>1, <3>3, RanksOwn
  <2>2. ASSUME NEW y \in Ranks(g.t) PROVE y \in Ranks(v.t)
    <3>1. PICK z \in InUse(g.t) : y \in Own(g.t, z)
      BY <1>1, RanksOwn
    <3>2. z # 1
      BY <1>1, <1>2, <3>1 DEF Own, OwnOf
    <3>3. CASE z = c
      <4>1. 1 \in InUse(v.t) /\ Own(v.t, 1) = Own(g.t, c)
        BY <1>1, <1>2 DEF Own, LevelOf, Keys
      <4>2. QED
        BY <1>4, <3>1, <3>3, <4>1, RanksOwn
    <3>4. CASE z # c
      <4>1. z \in InUse(v.t) /\ z \in Node \ {1, c}
        BY <1>2, <3>2, <3>4 DEF InUse
      <4>2. Own(v.t, z) = Own(g.t, z)
        BY <1>2, <4>1 DEF Own, LevelOf, Keys
      <4>3. QED
        BY <1>4, <3>1, <4>1, <4>2, RanksOwn
    <3>5. QED
      BY <3>3, <3>4
  <2>3. QED
    BY <2>1, <2>2
<1>10. Ranks(v.t) = Ranks(t) \ {RankAt(t, p)}
  <2>1. Ranks(g.t) = Ranks(t) \ {RankAt(t, p)}
    BY <1>1, <1>2 DEF Sinking
  <2>2. QED
    BY <1>9, <2>1
<1>11. v.t.isdups = t.isdups
  BY DEF TakesOver, Sinking
<1>12. QED
  BY <1>7, <1>8, <1>10, <1>11 DEF Taken

(* One level of a deletion.                                                *)
LEMMA LevelMoves ==
  ASSUME NEW t, Sound(t), NEW p, PathOf(t, p), OnEntry(t, p), NEW lo, NEW hi,
         NEW l \in 0..Top(t), NEW g \in Downto(t, p, l), g.more,
         Under(t, RankAt(t, p), l, g, lo, hi)
  PROVE  Under(t, RankAt(t, p), l + 1, removed(g, p, l), lo, hi)
<1> DEFINE n == p[l].n
           s == Keys(t, n)
           i == p[l].i
           v == removed(g, p, l)
           y == RankAt(t, p)
<1>1. Lowering(t, p, l, g, n, s, i)
  BY LevelLowers
<1>2. Sinking(t, y, l, g, lo, hi)
  BY DEF Under
<1>3. Removes(g, n, l, s, i, v)
  BY RemoveStage DEF OnEntry
<1> HIDE DEF n, s, i, v
<1>4. CASE Empties(g, n, l, s, v)
  <2>1. Sinking(t, y, l + 1, v, lo, hi) /\ v.more = TRUE
    BY <1>1, <1>2, <1>4, LevelEmpties DEF Empties
  <2>2. QED
    BY <2>1 DEF Under, v
<1>5. CASE n = 1 /\ TakesOver(g, l, s, i, v)
  <2>3. Lowering(t, p, l, g, 1, s, i) /\ TakesOver(g, l, s, i, v)
    BY <1>1, <1>5
  <2>4. v.more = FALSE
    BY <2>3 DEF TakesOver
  <2>5. Taken(t, y, v)
    BY <1>2, <2>3, LevelTakes
  <2>1. Taken(t, y, v) /\ v.more = FALSE
    BY <2>4, <2>5
  <2>2. QED
    BY <2>1 DEF Under, v
<1>6. CASE Shortens(g, n, l, s, i, v)
  <2>1. Taken(t, y, v) /\ v.more = FALSE
    BY <1>1, <1>2, <1>6, LevelShortens DEF Shortens
  <2>2. QED
    BY <2>1 DEF Under, v
<1>7. QED
  BY <1>3, <1>4, <1>5, <1>6 DEF Removes

(* ivbkeydelete takes the entry the path ends on out of an ordered tree, and*)
(* no other.                                                               *)
LEMMA DeleteOrder ==
  ASSUME NEW t, Sound(t), NEW lo, NEW hi, Ordered(t, lo, hi),
         NEW p, PathOf(t, p), OnEntry(t, p),
         NEW m \in Memories(t), Marked(t, m),
         ~ivbkeydelete(t, m, p).more
  PROVE  Taken(t, RankAt(t, p), ivbkeydelete(t, m, p))
<1> DEFINE y == RankAt(t, p)
<1>1. PICK u : Falls(t, m, p, u) /\ ivbkeydelete(t, m, p) = u[Top(t)]
  BY DeleteStages DEF OnEntry
<1>2. Top(t) \in Nat
  BY TopFacts
<1>3. /\ u[-1] = Moved(t, m, TRUE, High(0))
      /\ \A l \in 0..Top(t) : u[l] = IF u[l - 1].more
                                     THEN removed(u[l - 1], p, l) ELSE u[l - 1]
      /\ \A l \in 0..(Top(t) + 1) : u[l - 1] \in Downto(t, p, l)
  BY <1>1 DEF Falls
<1>4. Under(t, y, 0, u[-1], lo, hi)
  <2>1. u[-1] = [t |-> t, m |-> m, more |-> TRUE, e |-> High(0)]
    BY <1>3 DEF Moved
  <2>2. u[-1].t = t /\ u[-1].m = m /\ u[-1].more = TRUE
    BY <2>1
  <2>3. QED
    BY <2>2 DEF Under, Sinking
<1> HIDE DEF y
<1>5. ASSUME NEW l \in 0..Top(t), Under(t, y, l, u[l - 1], lo, hi)
      PROVE  Under(t, y, l + 1, u[l], lo, hi)
  <2>1. u[l - 1] \in Downto(t, p, l)
    BY <1>2, <1>3
  <2>2. CASE u[l - 1].more
    <3>1. u[l] = removed(u[l - 1], p, l)
      BY <1>3, <2>2
    <3>2. Under(t, y, l + 1, removed(u[l - 1], p, l), lo, hi)
      BY <1>5, <2>1, <2>2, LevelMoves DEF y
    <3>3. QED
      BY <3>1, <3>2
  <2>3. CASE ~u[l - 1].more
    <3>1. u[l] = u[l - 1]
      BY <1>3, <2>3
    <3>2. QED
      BY <1>5, <2>3, <3>1 DEF Under
  <2>4. QED
    BY <2>2, <2>3
<1>6. Under(t, y, Top(t) + 1, u[Top(t)], lo, hi)
  <2> DEFINE B == {l \in 0..(Top(t) + 1) : ~Under(t, y, l, u[l - 1], lo, hi)}
  <2>1. CASE B = {}
    <3>1. Top(t) + 1 \in 0..(Top(t) + 1) /\ (Top(t) + 1) - 1 = Top(t)
      BY <1>2
    <3>2. Under(t, y, Top(t) + 1, u[(Top(t) + 1) - 1], lo, hi)
      BY <2>1, <3>1
    <3>3. QED
      BY <3>1, <3>2
  <2>2. CASE B # {}
    <3>1. PICK l \in B : \A z \in B : l <= z
      <4>1. B \in SUBSET Nat
        BY <1>2
      <4>2. QED
        BY <2>2, <4>1, LeastNumber
    <3>2. l \in 0..(Top(t) + 1) /\ ~Under(t, y, l, u[l - 1], lo, hi)
      BY <3>1
    <3>3. l # 0
      BY <1>4, <3>2
    <3>4. l - 1 \in 0..Top(t) /\ l - 1 \in 0..(Top(t) + 1) /\ (l - 1) + 1 = l
          /\ ~(l <= l - 1)
      BY <1>2, <3>2, <3>3
    <3>5. l - 1 \notin B
      BY <3>1, <3>4
    <3>6. Under(t, y, l - 1, u[(l - 1) - 1], lo, hi)
      BY <3>4, <3>5
    <3>7. Under(t, y, (l - 1) + 1, u[l - 1], lo, hi)
      BY <1>5, <3>4, <3>6
    <3>8. QED
      BY <3>2, <3>4, <3>7
  <2>3. QED
    BY <2>1, <2>2
<1>7. QED
  BY <1>1, <1>6 DEF Under, y

-----------------------------------------------------------------------------
(* What searches and steps come to.                                        *)

(* Where a search ends there is room for the entry it looked for.          *)
LEMMA InsertRoom ==
  ASSUME NEW t, Sound(t), NEW lo, NEW hi, Ordered(t, lo, hi),
         NEW k \in Key, NEW d \in Dup, Rank(k, d) \notin Ranks(t)
  PROVE  LET p == itreeload(t, k, d) IN
         \E lo2, hi2 : /\ Ordered(t, lo2, hi2)
                       /\ Roomy(lo2, hi2, p[0].n, Keys(t, p[0].n), p[0].i,
                                Rank(k, d))
<1> DEFINE p == itreeload(t, k, d)
           x == Rank(k, d)
           s == Keys(t, p[0].n)
<1>1. k \in Int /\ d \in -1..(MaxDup + 1) /\ Highest \in Int /\ k < Highest
      /\ 0 \in -1..(MaxDup + 1)
  BY TreeAssumption DEF Key, Dup, Highest
<1>2. x < Roof
  BY <1>1, RankOrder DEF Roof
<1>3. /\ PathOf(t, p) /\ x \in Int
      /\ \A l \in 0..Top(t) : \A j \in 1..Len(Keys(t, p[l].n)) :
           LET r == RankOf(Keys(t, p[l].n)[j]) IN
           /\ j < p[l].i => r < x
           /\ j >= p[l].i /\ (l = 0 \/ j < Len(Keys(t, p[l].n))) => x <= r
  BY <1>1, SearchCut
<1> HIDE DEF p, x
<1>4. Top(t) \in Nat /\ 0 \in 0..Top(t)
  BY TopFacts
<1>5. \A l \in 1..Top(t) : \A j \in 1..Len(Keys(t, p[l].n)) :
        LET r == RankOf(Keys(t, p[l].n)[j]) IN
        /\ j < p[l].i => r < x
        /\ j >= p[l].i /\ j < Len(Keys(t, p[l].n)) => x <= r
  <2>1. \A l \in 1..Top(t) : l \in 0..Top(t)
    BY <1>4
  <2>2. QED
    BY <1>3, <2>1
<1>6. PICK lo2, hi2 : /\ Ordered(t, lo2, hi2)
                      /\ \A l \in 0..Top(t) : lo2[p[l].n] <= x
                           /\ x <= hi2[p[l].n]
  BY <1>2, <1>3, <1>5, Widen
<1>7. ASSUME NEW j \in 1..Len(s)
      PROVE  /\ j < p[0].i => RankOf(s[j]) < x
             /\ j >= p[0].i => x < RankOf(s[j])
  <2>1. /\ j < p[0].i => RankOf(s[j]) < x
        /\ j >= p[0].i => x <= RankOf(s[j])
    BY <1>3, <1>4
  <2>2. RankOf(s[j]) \in Ranks(t)
    BY <1>3, RankOfPath
  <2>3. RankOf(s[j]) \in Int
    BY <1>3, <1>6, LeafBounds
  <2>4. x # RankOf(s[j])
    BY <2>2 DEF x
  <2>5. QED
    BY <1>3, <2>1, <2>3, <2>4
<1>8. Roomy(lo2, hi2, p[0].n, s, p[0].i, x)
  BY <1>2, <1>4, <1>6, <1>7 DEF Roomy
<1>9. QED
  BY <1>6, <1>8 DEF p, x

(* An entry the leaves hold is that of a key and a duplicate number.       *)
LEMMA RankPair ==
  ASSUME NEW t, Sound(t), NEW lo, NEW hi, Ordered(t, lo, hi),
         NEW p, PathOf(t, p), OnEntry(t, p)
  PROVE  /\ At(t, p) \in Entries /\ At(t, p).k \in Key /\ At(t, p).d \in Dup
         /\ RankAt(t, p) = Rank(At(t, p).k, At(t, p).d)
         /\ RankAt(t, p) \in Ranks(t)
<1>1. /\ At(t, p) = Keys(t, p[0].n)[p[0].i]
      /\ RankAt(t, p) = RankOf(At(t, p))
  BY DEF At, Leaf, RankAt
<1>2. /\ p[0].n \in InUse(t) /\ LevelOf(t, p[0].n) = 0
      /\ p[0].i \in 1..Len(Keys(t, p[0].n)) /\ RankAt(t, p) \in Ranks(t)
  BY LeafFacts, RankOfPath
<1>3. At(t, p) \in Entries
  BY <1>1, <1>2, OrderFacts
<1>4. RankAt(t, p) < Roof
  BY <1>1, <1>2, OrderLeaf
<1>5. QED
  BY <1>1, <1>2, <1>3, <1>4, EntryRank DEF RankOf

(* A rank of the index is that of a key and a duplicate number of a row.   *)
LEMMA RanksPair ==
  ASSUME NEW t, Sound(t), NEW lo, NEW hi, Ordered(t, lo, hi),
         NEW y \in Ranks(t)
  PROVE  \E k \in Key, d \in Dup : y = Rank(k, d)
<1>1. PICK p : PathOf(t, p) /\ OnEntry(t, p) /\ RankAt(t, p) = y
  BY RankFound
<1>2. QED
  BY <1>1, RankPair

(* The ranges of keys and duplicate numbers.                               *)
LEMMA PairRange ==
  ASSUME NEW k \in Key, NEW d \in Dup
  PROVE  /\ k \in Int /\ d \in -1..(MaxDup + 1) /\ d \in Int /\ d >= 0
         /\ k > Lowest /\ k < Highest /\ d <= MaxDup /\ d < AnyDup
         /\ MaxDup \in Nat /\ MaxKey \in Nat /\ d \in Nat
  BY TreeAssumption DEF Key, Dup, Lowest, Highest, AnyDup

(* The ranges of the values of a search.                                   *)
LEMMA SearchRange ==
  /\ Lowest \in Int /\ Highest \in Int /\ NoDup \in -1..(MaxDup + 1)
  /\ AnyDup \in -1..(MaxDup + 1) /\ 0 \in -1..(MaxDup + 1)
  BY TreeAssumption DEF Lowest, Highest, NoDup, AnyDup

(* What irowinsert finds before the first greater key.                     *)
LEMMA BackFrom ==
  ASSUME NEW t, Sound(t), NEW lo, NEW hi, Ordered(t, lo, hi),
         NEW m \in Memories(t), Marked(t, m),
         NEW k \in Int, NEW d \in -1..(MaxDup + 1)
  PROVE  StepsBack(t, ivbkeyloadPrev(t, StepTo(t, m, itreeload(t, k, d))),
                   Rank(k, d))
<1> DEFINE w == StepTo(t, m, itreeload(t, k, d))
<1>1. /\ w \in Outs(t) /\ w.st = "ok" /\ Marked(t, w.mem)
      /\ Rank(k, d) \in Int
      /\ Parts(t, w.path, w.path[0].i, Rank(k, d))
  BY SearchParts
<1> HIDE DEF w
<1>2. StepsBack(t, ivbkeyloadPrev(t, w), Rank(k, d))
  BY <1>1, PrevStepFacts
<1>3. QED
  BY <1>2 DEF w

(* The number of a new duplicate: one above those there are.               *)
Fresh(t, k, d) ==
  /\ d \in Nat
  /\ \A c \in Dup : Rank(k, c) \in Ranks(t) => c < d
  /\ d # 0 => d - 1 \in Dup /\ Rank(k, d - 1) \in Ranks(t)

(* irowinsert takes a number above all the duplicates of the key.          *)
LEMMA NumberFresh ==
  ASSUME NEW t, Sound(t), NEW lo, NEW hi, Ordered(t, lo, hi),
         NEW k \in Key, NEW v, StepsBack(t, v, Rank(k, AnyDup)), v.st # "null"
  PROVE  Fresh(t, k, NumberOf(t, v, k))
<1> DEFINE e == At(t, v.path)
<1>1. k \in Int /\ AnyDup \in -1..(MaxDup + 1)
  BY SearchRange DEF Key
<1>2. ASSUME NEW c \in Dup PROVE c \in -1..(MaxDup + 1)
                                 /\ Rank(k, c) < Rank(k, AnyDup)
                                 /\ Rank(k, c) \in Int /\ c \in Nat
  <2>1. c \in -1..(MaxDup + 1) /\ c < AnyDup /\ c \in Nat
    BY PairRange
  <2>2. QED
    BY <1>1, <2>1, RankOrder
<1>3. Rank(k, AnyDup) \in Int
  BY <1>1, RankOrder
<1>4. CASE v.st = "end"
  <2>1. \A y \in Ranks(t) : y \in Int /\ Rank(k, AnyDup) <= y
    BY <1>4 DEF StepsBack
  <2>2. NumberOf(t, v, k) = 0
    BY <1>4 DEF NumberOf
  <2>3. ASSUME NEW c \in Dup, Rank(k, c) \in Ranks(t) PROVE FALSE
    BY <1>2, <1>3, <2>1, <2>3
  <2>4. QED
    BY <2>2, <2>3 DEF Fresh
<1>5. CASE v.st = "ok"
  <2>1. GreatestBelow(t, v.path, Rank(k, AnyDup)) /\ PathOf(t, v.path)
    BY <1>5, OutsFacts DEF StepsBack
  <2>2. /\ OnEntry(t, v.path) /\ RankAt(t, v.path) \in Int
        /\ RankAt(t, v.path) < Rank(k, AnyDup)
        /\ \A y \in Ranks(t) :
             y \in Int /\ (y <= RankAt(t, v.path) \/ Rank(k, AnyDup) <= y)
    BY <2>1 DEF GreatestBelow
  <2>3. /\ e \in Entries /\ e.k \in Key /\ e.d \in Dup
        /\ RankAt(t, v.path) = Rank(e.k, e.d) /\ RankAt(t, v.path) \in Ranks(t)
    BY <2>1, <2>2, RankPair
  <2>4. NumberOf(t, v, k) = IF e.k = k THEN e.d + 1 ELSE 0
    BY <1>5 DEF NumberOf
  <2> HIDE DEF e
  <2>5. ASSUME NEW c \in Dup, Rank(k, c) \in Ranks(t)
        PROVE  Rank(k, c) <= Rank(e.k, e.d)
    BY <1>2, <1>3, <2>2, <2>3, <2>5
  <2>6. e.k \in Int /\ e.d \in -1..(MaxDup + 1) /\ e.d \in Nat
    BY <2>3, PairRange
  <2>7. CASE e.k = k
    <3>1. ASSUME NEW c \in Dup, Rank(k, c) \in Ranks(t) PROVE c < e.d + 1
      <4>1. Rank(k, c) <= Rank(k, e.d)
        BY <2>5, <2>7, <3>1
      <4>2. ~(Rank(k, e.d) < Rank(k, c))
        BY <1>2, <2>2, <2>3, <2>7, <4>1
      <4>3. ~(e.d < c)
        BY <1>1, <1>2, <2>6, <4>2, RankOrder
      <4>4. QED
        BY <1>2, <2>6, <4>3
    <3>2. e.d + 1 \in Nat /\ (e.d + 1) - 1 = e.d
      BY <2>6
    <3>3. NumberOf(t, v, k) = e.d + 1
      BY <2>4, <2>7
    <3>4. Rank(k, e.d) \in Ranks(t)
      BY <2>3, <2>7
    <3>5. QED
      BY <2>3, <3>1, <3>2, <3>3, <3>4 DEF Fresh
  <2>8. CASE e.k # k
    <3>1. e.k < k
      <4>1. Rank(e.k, e.d) < Rank(k, AnyDup)
        BY <2>2, <2>3
      <4>2. e.k < k \/ (e.k = k /\ e.d < AnyDup)
        BY <1>1, <2>6, <4>1, RankOrder
      <4>3. QED
        BY <2>8, <4>2
    <3>2. ASSUME NEW c \in Dup, Rank(k, c) \in Ranks(t) PROVE FALSE
      <4>1. Rank(e.k, e.d) < Rank(k, c)
        BY <1>1, <1>2, <2>6, <3>1, RankOrder
      <4>2. QED
        BY <1>2, <2>2, <2>3, <2>5, <3>2, <4>1
    <3>3. QED
      BY <2>4, <2>8, <3>2 DEF Fresh
  <2>9. QED
    BY <2>7, <2>8
<1>6. QED
  BY <1>4, <1>5 DEF StepsBack

(* A path ends on an entry or on the dummy.                                *)
LEMMA DummyFacts ==
  ASSUME NEW t, Sound(t), NEW p, PathOf(t, p)
  PROVE  OnDummy(t, p) <=> ~OnEntry(t, p)
BY LeafFacts DEF OnDummy, OnEntry, Leaf

(* The entry a search settles on is the first from there.                  *)
LEMMA SearchLeast ==
  ASSUME NEW t, Sound(t), NEW lo, NEW hi, Ordered(t, lo, hi),
         NEW p, PathOf(t, p), OnEntry(t, p), NEW x \in Int,
         Parts(t, p, p[0].i, x)
  PROVE  LeastFrom(t, p, x)
<1> DEFINE s == Keys(t, p[0].n)
           i == p[0].i
<1>1. /\ Cut(t, p, x)
      /\ \A j \in 1..Len(s) : /\ j < i => RankOf(s[j]) < x
                              /\ j >= i => x <= RankOf(s[j])
  BY DEF Parts
<1>2. i \in 1..Len(s) /\ i \in 1..(Len(s) + 1) /\ i <= Len(s) /\ i >= i
  BY LeafFacts, RankOfPath
<1>3. RankAt(t, p) = RankOf(s[i])
  BY DEF RankAt
<1>4. RankOf(s[i]) \in Int
  BY <1>2, LeafBounds
<1>5. ASSUME NEW y \in Ranks(t) PROVE y \in Int /\ (y < x \/ RankOf(s[i]) <= y)
  BY <1>1, <1>2, CutHere
<1>6. x <= RankOf(s[i])
  BY <1>1, <1>2
<1>7. QED
  BY <1>3, <1>4, <1>5, <1>6 DEF LeastFrom

(* A search that goes on past the dummy.                                   *)
LEMMA SearchOn ==
  ASSUME NEW t, Sound(t), NEW lo, NEW hi, Ordered(t, lo, hi),
         NEW w \in Outs(t), w.st = "ok", Marked(t, w.mem), NEW x \in Int,
         Parts(t, w.path, w.path[0].i, x)
  PROVE  StepsOn(t, PastDummy(t, w), x)
<1>1. PathOf(t, w.path)
  BY OutsFacts
<1>2. CASE OnDummy(t, w.path)
  <2>1. PastDummy(t, w) = ivbkeyloadNext(t, w)
    BY <1>2 DEF PastDummy
  <2>2. /\ w.path[0].i \in Nat /\ Len(Keys(t, w.path[0].n)) \in Nat
        /\ w.path[0].i > Len(Keys(t, w.path[0].n))
    BY <1>1, <1>2, LeafFacts DEF OnDummy, Leaf
  <2>3. Parts(t, w.path, w.path[0].i + 1, x)
    <3>1. \A j \in 1..Len(Keys(t, w.path[0].n)) :
            j < w.path[0].i /\ j < w.path[0].i + 1 /\ ~(j >= w.path[0].i + 1)
      BY <2>2
    <3>2. QED
      BY <3>1 DEF Parts
  <2>4. QED
    BY <2>1, <2>3, NextStepFacts
<1>3. CASE ~OnDummy(t, w.path)
  <2>1. PastDummy(t, w) = w
    BY <1>3 DEF PastDummy
  <2>2. LeastFrom(t, w.path, x)
    BY <1>1, <1>3, DummyFacts, SearchLeast
  <2>3. QED
    BY <2>1, <2>2 DEF StepsOn
<1>4. QED
  BY <1>2, <1>3

(* No step disturbs the marks.                                             *)
LEMMA NextMarks ==
  ASSUME NEW t, Sound(t), NEW w \in Outs(t), w.st = "ok", Marked(t, w.mem)
  PROVE  Marked(t, ivbkeyloadNext(t, w).mem)
<1> DEFINE v == ivbkeyloadNext(t, w)
           p == w.path
           s == Keys(t, p[0].n)
<1>1. /\ p[0].i < Len(s) => v = Shift(w, 1)
      /\ ~(p[0].i < Len(s)) => v = IF w.mem[p[0].n].eof
                                   THEN [w EXCEPT !.st = "end"]
                                   ELSE Climb(t, w, FALSE)
  BY NextFacts
<1>2. PathOf(t, p) /\ "end" \in States /\ FALSE \in BOOLEAN
  BY OutsFacts DEF States
<1> HIDE DEF v
<1>3. CASE p[0].i < Len(s)
  <2>1. p[0].i + 1 \in 1..(Len(s) + 1) /\ 1 \in Int
    BY <1>2, <1>3, LeafFacts
  <2>2. v.mem = w.mem
    BY <1>1, <1>3, <2>1, ShiftFacts
  <2>3. QED
    BY <2>2 DEF v
<1>4. CASE ~(p[0].i < Len(s)) /\ w.mem[p[0].n].eof
  <2>1. v = [w EXCEPT !.st = "end"]
    BY <1>1, <1>4
  <2>2. [w EXCEPT !.st = "end"].mem = w.mem
    BY <1>2, EndFacts
  <2>3. QED
    BY <2>1, <2>2 DEF v
<1>5. CASE ~(p[0].i < Len(s)) /\ ~w.mem[p[0].n].eof
  <2>1. v = Climb(t, w, FALSE)
    BY <1>1, <1>5
  <2>2. Marked(t, v.mem)
    BY <1>2, <2>1, ClimbEnds
  <2>3. QED
    BY <2>2 DEF v
<1>6. QED
  BY <1>3, <1>4, <1>5

(* A step back keeps the marks right.                                      *)
LEMMA PrevMarks ==
  ASSUME NEW t, Sound(t), NEW w \in Outs(t), w.st = "ok", Marked(t, w.mem)
  PROVE  Marked(t, ivbkeyloadPrev(t, w).mem)
<1> DEFINE v == ivbkeyloadPrev(t, w)
           p == w.path
           s == Keys(t, p[0].n)
<1>1. /\ p[0].i > 1 => v = Shift(w, -1)
      /\ p[0].i = 1 => v = IF w.mem[p[0].n].tof
                           THEN [w EXCEPT !.st = "end"] ELSE Climb(t, w, TRUE)
      /\ p[0].i = 1 \/ p[0].i > 1
  BY PrevFacts
<1>2. PathOf(t, p) /\ "end" \in States /\ TRUE \in BOOLEAN
  BY OutsFacts DEF States
<1> HIDE DEF v
<1>3. CASE p[0].i > 1
  <2>1. p[0].i + (-1) \in 1..(Len(s) + 1) /\ -1 \in Int
    BY <1>2, <1>3, LeafFacts
  <2>2. v.mem = w.mem
    BY <1>1, <1>3, <2>1, ShiftFacts
  <2>3. QED
    BY <2>2 DEF v
<1>4. CASE p[0].i = 1 /\ w.mem[p[0].n].tof
  <2>1. v = [w EXCEPT !.st = "end"]
    BY <1>1, <1>4
  <2>2. [w EXCEPT !.st = "end"].mem = w.mem
    BY <1>2, EndFacts
  <2>3. QED
    BY <2>1, <2>2 DEF v
<1>5. CASE p[0].i = 1 /\ ~w.mem[p[0].n].tof
  <2>1. v = Climb(t, w, TRUE)
    BY <1>1, <1>5
  <2>2. Marked(t, v.mem)
    BY <1>2, <2>1, ClimbEnds
  <2>3. QED
    BY <2>2 DEF v
<1>6. QED
  BY <1>1, <1>3, <1>4, <1>5

(* So does a search.                                                       *)
LEMMA SearchMarks ==
  ASSUME NEW t, Sound(t), NEW m \in Memories(t), Marked(t, m), NEW k, NEW d
  PROVE  LET w == StepTo(t, m, itreeload(t, k, d)) IN
         w \in Outs(t) /\ w.st = "ok" /\ Marked(t, w.mem)
<1>1. PathOf(t, itreeload(t, k, d))
  BY LoadExists
<1>2. QED
  BY <1>1, StepToFacts, LoadMarked

(* The walk of ivbkeylocaterow, step by step.                              *)
LEMMA WalkMarks ==
  ASSUME NEW t, Sound(t), NEW m \in Memories(t), Marked(t, m), NEW k, NEW d,
         NEW walk, Walk(t, m, k, d, walk)
  PROVE  \A x \in 0..(MaxDup + 1) : Marked(t, walk[x].mem)
<1>1. /\ walk[0] = StepTo(t, m, itreeload(t, k, 0))
      /\ \A x \in 1..(MaxDup + 1) : walk[x] = Onward(t, walk[x - 1], k, d)
      /\ \A x \in 0..(MaxDup + 1) : walk[x] \in Outs(t)
  BY DEF Walk
<1>2. MaxDup \in Nat
  BY TreeAssumption
<1>3. Marked(t, walk[0].mem)
  BY <1>1, SearchMarks
<1>4. ASSUME NEW x \in 1..(MaxDup + 1), Marked(t, walk[x - 1].mem)
      PROVE  Marked(t, walk[x].mem)
  <2>1. x - 1 \in 0..(MaxDup + 1)
    BY <1>2
  <2>2. PICK w : w = walk[x - 1]
    OBVIOUS
  <2>3. w \in Outs(t) /\ Marked(t, w.mem) /\ walk[x] = Onward(t, w, k, d)
    BY <1>1, <1>4, <2>1, <2>2
  <2>4. CASE Onward(t, w, k, d) = w
    BY <2>3, <2>4
  <2>5. CASE Onward(t, w, k, d) # w
    <3>1. w.st = "ok" /\ Onward(t, w, k, d) = ivbkeyloadNext(t, w)
      BY <2>5 DEF Onward
    <3>2. QED
      BY <2>3, <3>1, NextMarks
  <2>6. QED
    BY <2>4, <2>5
<1> DEFINE B == {x \in 0..(MaxDup + 1) : ~Marked(t, walk[x].mem)}
<1>5. B = {}
  <2>1. ASSUME B # {} PROVE FALSE
    <3>1. PICK x \in B : \A y \in B : x <= y
      <4>1. B \in SUBSET Nat
        BY <1>2
      <4>2. QED
        BY <2>1, <4>1, LeastNumber
    <3>2. x # 0 /\ x \in 0..(MaxDup + 1) /\ ~Marked(t, walk[x].mem)
      BY <1>3, <3>1
    <3>3. x \in 1..(MaxDup + 1) /\ x - 1 \in 0..(MaxDup + 1) /\ ~(x <= x - 1)
      BY <1>2, <3>2
    <3>4. Marked(t, walk[x - 1].mem)
      BY <3>1, <3>3
    <3>5. QED
      BY <1>4, <3>2, <3>3, <3>4
  <2>2. QED
    BY <2>1
<1>6. QED
  BY <1>5

(* So does ivbkeylocaterow; when it succeeds it is on an entry of the row. *)
LEMMA LocateMarks ==
  ASSUME NEW t, Sound(t), NEW m \in Memories(t), Marked(t, m), NEW k, NEW d
  PROVE  LET w == ivbkeylocaterow(t, m, k, d) IN
         /\ w \in Outs(t) /\ Marked(t, w.mem)
         /\ w.st = "ok" => OnEntry(t, w.path) /\ Same(At(t, w.path), k, d)
<1> DEFINE w == ivbkeylocaterow(t, m, k, d)
<1>1. w \in Outs(t)
  BY LocateFacts
<1>2. PICK walk : Walk(t, m, k, d, walk)
             /\ w = OnRow(t, walk[MaxDup + 1], k, d)
  BY LocateFacts
<1>3. MaxDup + 1 \in 0..(MaxDup + 1)
  BY TreeAssumption
<1>4. PICK v : v = walk[MaxDup + 1]
  OBVIOUS
<1>5. v \in Outs(t) /\ Marked(t, v.mem)
  BY <1>2, <1>3, <1>4, WalkMarks DEF Walk
<1>6. w = OnRow(t, v, k, d)
  BY <1>2, <1>4
<1> HIDE DEF w
<1>7. /\ w.path = v.path /\ w.mem = v.mem
      /\ w.st = "ok" => /\ w = v
                        /\ v.path[0].i \in 1..Len(Keys(t, v.path[0].n))
                        /\ Same(At(t, v.path), k, d)
  BY <1>5, <1>6, OnRowFacts
<1>8. w.st = "ok" => OnEntry(t, w.path)
  BY <1>7 DEF OnEntry
<1>9. QED
  BY <1>1, <1>5, <1>7, <1>8 DEF w

(* The rank of a duplicate, from that of the key.                          *)
LEMMA RankSum ==
  ASSUME NEW k \in Int, NEW d \in Int
  PROVE  Rank(k, d) = Rank(k, 0) + d
<1>1. W \in Int
  BY TreeAssumption DEF W
<1>2. PICK z \in Int : z = k * W
  BY <1>1
<1>3. QED
  BY <1>2 DEF Rank

(* The walk of ivbkeylocaterow to a row that is there, after x steps.      *)
Nearing(t, k, d, x, w) ==
  /\ w \in Outs(t) /\ w.st = "ok" /\ Marked(t, w.mem)
  /\ \/ /\ x = 0 /\ OnDummy(t, w.path)
        /\ Parts(t, w.path, w.path[0].i, Rank(k, 0))
     \/ /\ OnEntry(t, w.path) /\ RankAt(t, w.path) \in Int
        /\ Rank(k, 0) <= RankAt(t, w.path)
        /\ RankAt(t, w.path) <= Rank(k, d)
        /\ \/ RankAt(t, w.path) = Rank(k, d)
           \/ Rank(k, 0) + (x - 1) <= RankAt(t, w.path)

(* A step that ends between here and the row is one entry nearer to it.    *)
LEMMA NearingLands ==
  ASSUME NEW t, NEW k, NEW d, NEW x, x # 0, NEW v, NEW y \in Int,
         NEW z \in Int,
         StepsOn(t, v, y), Rank(k, d) = z, z \in Ranks(t), y <= z,
         Rank(k, 0) \in Int, Rank(k, 0) <= y, x \in Int,
           Rank(k, 0) + (x - 1) <= y
  PROVE  Nearing(t, k, d, x, v)
<1>1. v.st = "ok"
  BY DEF StepsOn
<1>2. LeastFrom(t, v.path, y) /\ v \in Outs(t) /\ Marked(t, v.mem)
  BY <1>1 DEF StepsOn
<1>3. PICK r : r = RankAt(t, v.path)
  OBVIOUS
<1>4. OnEntry(t, v.path) /\ r \in Int /\ y <= r /\ r <= z
  BY <1>2, <1>3 DEF LeastFrom
<1>5. PICK a \in Int : a = Rank(k, 0)
  OBVIOUS
<1>6. a <= r /\ a + (x - 1) <= r
  BY <1>4, <1>5
<1>7. QED
  BY <1>1, <1>2, <1>3, <1>4, <1>5, <1>6 DEF Nearing

(* Where ivbkeylocaterow starts.                                           *)
LEMMA NearingStarts ==
  ASSUME NEW t, Sound(t), NEW lo, NEW hi, Ordered(t, lo, hi),
         NEW m \in Memories(t), Marked(t, m), NEW k \in Key, NEW d \in Dup,
         Rank(k, d) \in Ranks(t)
  PROVE  Nearing(t, k, d, 0, StepTo(t, m, itreeload(t, k, 0)))
<1> DEFINE w == StepTo(t, m, itreeload(t, k, 0))
<1>1. k \in Int /\ 0 \in -1..(MaxDup + 1) /\ d \in Int /\ d >= 0
  BY PairRange, SearchRange
<1>2. /\ w \in Outs(t) /\ w.st = "ok" /\ Marked(t, w.mem)
      /\ PathOf(t, w.path) /\ Rank(k, 0) \in Int
      /\ Parts(t, w.path, w.path[0].i, Rank(k, 0))
  BY <1>1, SearchParts
<1> HIDE DEF w
<1>3. CASE OnDummy(t, w.path)
  BY <1>2, <1>3 DEF Nearing, w
<1>4. CASE ~OnDummy(t, w.path)
  <2>1. OnEntry(t, w.path)
    BY <1>2, <1>4, DummyFacts
  <2>2. LeastFrom(t, w.path, Rank(k, 0))
    BY <1>2, <2>1, SearchLeast
  <2>3. PICK r : r = RankAt(t, w.path)
    OBVIOUS
  <2>4. PICK a \in Int : a = Rank(k, 0)
    BY <1>2
  <2>5. Rank(k, d) = a + d
    BY <1>1, <2>4, RankSum
  <2>6. /\ r \in Int /\ a <= r
        /\ Rank(k, d) < a \/ r <= Rank(k, d)
    BY <2>2, <2>3, <2>4 DEF LeastFrom
  <2>7. r <= Rank(k, d) /\ a + (0 - 1) <= r
    BY <1>1, <2>5, <2>6
  <2>8. QED
    BY <1>2, <2>1, <2>3, <2>4, <2>6, <2>7 DEF Nearing, w
<1>5. QED
  BY <1>3, <1>4

(* One step of ivbkeylocaterow.                                            *)
LEMMA NearingOn ==
  ASSUME NEW t, Sound(t), NEW lo, NEW hi, Ordered(t, lo, hi),
         NEW k \in Key, NEW d \in Dup, Rank(k, d) \in Ranks(t),
         NEW x \in 1..(MaxDup + 1), NEW w, Nearing(t, k, d, x - 1, w)
  PROVE  Nearing(t, k, d, x, Onward(t, w, k, d))
<1>1. /\ k \in Int /\ 0 \in -1..(MaxDup + 1) /\ d \in Int /\ d >= 0
      /\ d \in -1..(MaxDup + 1) /\ MaxDup \in Nat
  BY PairRange, SearchRange
<1>2. w \in Outs(t) /\ w.st = "ok" /\ Marked(t, w.mem) /\ PathOf(t, w.path)
  BY OutsFacts DEF Nearing
<1>3. PICK a \in Int : a = Rank(k, 0)
  BY <1>1, RankOrder
<1>4. Rank(k, d) = a + d
  BY <1>1, <1>3, RankSum
<1>5. x \in Int /\ x # 0 /\ x >= 1
  BY <1>1
<1>6. CASE OnDummy(t, w.path)
  <2>1. x - 1 = 0 /\ Parts(t, w.path, w.path[0].i, a)
    BY <1>2, <1>3, <1>6, DummyFacts DEF Nearing
  <2>2. StepsOn(t, PastDummy(t, w), a)
    BY <1>2, <2>1, SearchOn
  <2>3. Onward(t, w, k, d) = PastDummy(t, w)
    BY <1>2, <1>6 DEF Onward, PastDummy
  <2>4. PICK v : v = PastDummy(t, w)
    OBVIOUS
  <2>5. PICK z \in Int : z = Rank(k, d)
    BY <1>1, <1>4
  <2>6. /\ StepsOn(t, v, a) /\ z \in Ranks(t) /\ a <= z /\ a + (x - 1) <= a
        /\ Rank(k, 0) \in Int /\ Rank(k, 0) <= a /\ Rank(k, 0) + (x - 1) <= a
    BY <1>1, <1>3, <1>4, <1>5, <2>1, <2>2, <2>4, <2>5
  <2>7. Nearing(t, k, d, x, v)
    BY <1>5, <2>5, <2>6, NearingLands
  <2>8. QED
    BY <2>3, <2>4, <2>7
<1>7. CASE ~OnDummy(t, w.path)
  <2>1. PICK r : r = RankAt(t, w.path)
    OBVIOUS
  <2>2. /\ OnEntry(t, w.path) /\ r \in Int /\ a <= r /\ r <= Rank(k, d)
        /\ r = Rank(k, d) \/ a + ((x - 1) - 1) <= r
    BY <1>3, <1>7, <2>1 DEF Nearing
  <2>3. PICK e : e = At(t, w.path)
    OBVIOUS
  <2>4. e.k \in Key /\ e.d \in Dup /\ r = Rank(e.k, e.d)
    BY <1>2, <2>1, <2>2, <2>3, RankPair
  <2>5. e.k \in Int /\ e.d \in -1..(MaxDup + 1) /\ e.d \in Int /\ e.d >= 0
    BY <2>4, PairRange
  <2>6. e.k = k
    <3>1. ~(e.k < k)
      <4>1. e.k < k => Rank(e.k, e.d) < Rank(k, 0)
        BY <1>1, <2>5, RankOrder
      <4>2. QED
        BY <1>3, <2>2, <2>4, <4>1
    <3>2. ~(k < e.k)
      <4>1. k < e.k => Rank(k, d) < Rank(e.k, e.d)
        BY <1>1, <2>5, RankOrder
      <4>2. QED
        BY <1>1, <1>4, <2>2, <2>4, <4>1
    <3>3. QED
      BY <1>1, <2>5, <3>1, <3>2
  <2>7. Same(e, k, d) <=> r = Rank(k, d)
    <3>1. Rank(e.k, e.d) = Rank(k, d) <=> e.k = k /\ e.d = d
      BY <1>1, <2>5, RankOrder
    <3>2. QED
      BY <2>4, <3>1 DEF Same
  <2>8. CASE r = Rank(k, d)
    <3>1. Onward(t, w, k, d) = w
      BY <1>7, <2>3, <2>7, <2>8 DEF Onward
    <3>2. Nearing(t, k, d, x, w)
      BY <1>2, <1>3, <2>1, <2>2, <2>8 DEF Nearing
    <3>3. QED
      BY <3>1, <3>2
  <2>9. CASE r # Rank(k, d)
    <3>1. Onward(t, w, k, d) = ivbkeyloadNext(t, w)
      BY <1>2, <1>7, <2>3, <2>6, <2>7, <2>9 DEF Onward
    <3>2. Parts(t, w.path, w.path[0].i + 1, r + 1)
      BY <1>2, <2>1, <2>2, EntryParts
    <3>3. r + 1 \in Int
      BY <2>2
    <3>4. StepsOn(t, ivbkeyloadNext(t, w), r + 1)
      BY <1>2, <3>2, <3>3, NextStepFacts
    <3>5. PICK v, y, z : /\ v = ivbkeyloadNext(t, w) /\ y = r + 1
                         /\ z = Rank(k, d)
      OBVIOUS
    <3>6. /\ y \in Int /\ z \in Int /\ StepsOn(t, v, y) /\ z \in Ranks(t)
          /\ y <= z /\ Rank(k, 0) \in Int /\ Rank(k, 0) <= y
          /\ Rank(k, 0) + (x - 1) <= y
      <4>1. z \in Int /\ y \in Int
        BY <1>1, <1>4, <3>3, <3>5
      <4>2. y <= z
        BY <2>2, <2>9, <3>5, <4>1
      <4>3. a <= y /\ a + (x - 1) <= y
        BY <1>5, <2>2, <2>9, <3>5
      <4>4. QED
        BY <1>3, <3>4, <3>5, <4>1, <4>2, <4>3
    <3>7. Rank(k, d) = z /\ x # 0 /\ x \in Int
      BY <1>5, <3>5
    <3>8. Nearing(t, k, d, x, v)
      BY <3>6, <3>7, NearingLands
    <3>9. QED
      BY <3>1, <3>5, <3>8
  <2>10. QED
    BY <2>8, <2>9
<1>8. QED
  BY <1>6, <1>7

(* ivbkeylocaterow finds every row of the index.                           *)
LEMMA LocateFound ==
  ASSUME NEW t, Sound(t), NEW lo, NEW hi, Ordered(t, lo, hi),
         NEW m \in Memories(t), Marked(t, m), NEW k \in Key, NEW d \in Dup,
         Rank(k, d) \in Ranks(t)
  PROVE  LET w == ivbkeylocaterow(t, m, k, d) IN
         /\ w \in Outs(t) /\ w.st = "ok" /\ Marked(t, w.mem)
         /\ OnEntry(t, w.path) /\ RankAt(t, w.path) = Rank(k, d)
<1> DEFINE u == ivbkeylocaterow(t, m, k, d)
<1>1. PICK walk : Walk(t, m, k, d, walk)
             /\ u = OnRow(t, walk[MaxDup + 1], k, d)
  BY LocateFacts
<1>2. /\ walk[0] = StepTo(t, m, itreeload(t, k, 0))
      /\ \A x \in 1..(MaxDup + 1) : walk[x] = Onward(t, walk[x - 1], k, d)
  BY <1>1 DEF Walk
<1>3. MaxDup \in Nat /\ k \in Int /\ d \in Int /\ d >= 0 /\ d <= MaxDup
      /\ 0 \in -1..(MaxDup + 1) /\ d \in -1..(MaxDup + 1)
  BY PairRange, SearchRange
<1> DEFINE B == {x \in 0..(MaxDup + 1) : ~Nearing(t, k, d, x, walk[x])}
<1>4. B = {}
  <2>1. ASSUME B # {} PROVE FALSE
    <3>1. PICK x \in B : \A y \in B : x <= y
      <4>1. B \in SUBSET Nat
        BY <1>3
      <4>2. QED
        BY <2>1, <4>1, LeastNumber
    <3>2. Nearing(t, k, d, 0, walk[0])
      BY <1>2, NearingStarts
    <3>3. x # 0 /\ x \in 0..(MaxDup + 1) /\ ~Nearing(t, k, d, x, walk[x])
      BY <3>1, <3>2
    <3>4. x \in 1..(MaxDup + 1) /\ x - 1 \in 0..(MaxDup + 1) /\ ~(x <= x - 1)
      BY <1>3, <3>3
    <3>5. Nearing(t, k, d, x - 1, walk[x - 1])
      BY <3>1, <3>4
    <3>6. Nearing(t, k, d, x, Onward(t, walk[x - 1], k, d))
      BY <3>4, <3>5, NearingOn
    <3>7. QED
      BY <1>2, <3>3, <3>4, <3>6
  <2>2. QED
    BY <2>1
<1>5. PICK w : w = walk[MaxDup + 1]
  OBVIOUS
<1>6. Nearing(t, k, d, MaxDup + 1, w)
  <2>1. MaxDup + 1 \in 0..(MaxDup + 1)
    BY <1>3
  <2>2. QED
    BY <1>4, <1>5, <2>1
<1>7. w \in Outs(t) /\ w.st = "ok" /\ Marked(t, w.mem) /\ PathOf(t, w.path)
  BY <1>6, OutsFacts DEF Nearing
<1>8. MaxDup + 1 # 0 /\ (MaxDup + 1) - 1 = MaxDup
  BY <1>3
<1>9. PICK a \in Int : a = Rank(k, 0)
  BY <1>3, RankOrder
<1>10. Rank(k, d) = a + d
  BY <1>3, <1>9, RankSum
<1>11. PICK r : r = RankAt(t, w.path)
  OBVIOUS
<1>12. /\ OnEntry(t, w.path) /\ r \in Int /\ r <= a + d
       /\ r = a + d \/ a + MaxDup <= r
  BY <1>6, <1>8, <1>9, <1>10, <1>11 DEF Nearing
<1>13. r = Rank(k, d)
  BY <1>3, <1>10, <1>12
<1>14. PICK e : e = At(t, w.path)
  OBVIOUS
<1>15. e.k \in Key /\ e.d \in Dup /\ r = Rank(e.k, e.d)
  BY <1>7, <1>11, <1>12, <1>14, RankPair
<1>16. e.k = k /\ e.d = d
  <2>1. e.k \in Int /\ e.d \in -1..(MaxDup + 1)
    BY <1>15, PairRange
  <2>2. Rank(e.k, e.d) = Rank(k, d)
    BY <1>13, <1>15
  <2>3. QED
    BY <1>3, <2>1, <2>2, RankOrder
<1>17. u = w
  <2>1. ~OnDummy(t, w.path)
    BY <1>7, <1>12, DummyFacts
  <2>2. u = OnRow(t, w, k, d)
    BY <1>1, <1>5
  <2>3. QED
    BY <1>14, <1>16, <2>1, <2>2 DEF OnRow, Same
<1>18. QED
  BY <1>7, <1>11, <1>12, <1>13, <1>17

-----------------------------------------------------------------------------
(* The steps of the tree.                                                  *)

(* The tree is ordered and the marks of its nodes in memory are right.     *)
InOrder(t, m) == Marked(t, m) /\ \E lo, hi : Ordered(t, lo, hi)

(* The inductive invariant.                                                *)
OrderInv == TreeInv /\ InOrder(tree, mem)

(* What a step does to the entries of the leaves.                          *)
RanksStep(t, u) ==
  /\ u.isdups = t.isdups
  /\ \/ Ranks(u) = Ranks(t)
     \/ \E k \in Key, d \in Dup :
          /\ Fresh(t, k, d) /\ (d # 0 => t.isdups)
          /\ Ranks(u) = Ranks(t) \union {Rank(k, d)}
     \/ \E k \in Key, d \in Dup :
          /\ Rank(k, d) \in Ranks(t)
          /\ Ranks(u) = Ranks(t) \ {Rank(k, d)}

(* What a step keeps, and what it does to the entries.                     *)
OrderKept == InOrder(tree, mem)' /\ RanksStep(tree, tree')

(* An empty tree is ordered and has no entry.                              *)
LEMMA InitOrder == Init => InOrder(tree, mem) /\ Ranks(tree) = {}
<1> SUFFICES ASSUME Init PROVE InOrder(tree, mem) /\ Ranks(tree) = {}
  OBVIOUS
<1>1. /\ tree.node = [n \in Node |-> Blank] /\ tree.free = Node \ {1}
      /\ mem = [n \in {} |-> RootMarks]
  BY DEF Init
<1>2. ASSUME NEW n \in Node
      PROVE  LevelOf(tree, n) = 0 /\ Keys(tree, n) = <<>>
  BY <1>1 DEF LevelOf, Keys, Blank
<1>3. InUse(tree) \subseteq Node
  BY DEF InUse
<1>4. Marked(tree, mem)
  <2>1. DOMAIN mem = {}
    BY <1>1
  <2>2. QED
    BY <1>2, <1>3, <2>1 DEF Marked
<1> DEFINE z == [n \in Node |-> 0]
<1>5. z \in [Node -> Int] /\ \A n \in Node : z[n] = 0
  OBVIOUS
<1>6. Roof \in Int /\ 0 <= Roof
  <2>1. Highest \in Nat /\ W \in Nat
    BY TreeAssumption DEF Highest, W
  <2>2. PICK a \in Nat, b \in Nat : a = Highest /\ b = W
    BY <2>1
  <2>3. a * b \in Nat
    BY <2>2
  <2>4. QED
    BY <2>2, <2>3 DEF Roof, Rank
<1> HIDE DEF z
<1>7. Ordered(tree, z, z)
  <2>1. ASSUME NEW n \in InUse(tree) PROVE NodeOrdered(tree, z, z, n)
    <3>1. n \in Node
      BY <1>3
    <3>2. LevelOf(tree, n) = 0 /\ Keys(tree, n) = <<>> /\ z[n] = 0
      BY <1>2, <1>5, <3>1
    <3>3. DOMAIN <<>> = {}
      OBVIOUS
    <3>4. KeysOrdered(0, <<>>, z, z, 0, 0)
      BY <1>6, <3>3 DEF KeysOrdered, Ascends
    <3>5. QED
      BY <3>2, <3>4 DEF NodeOrdered
  <2>2. QED
    BY <1>5, <2>1 DEF Ordered
<1>8. Ranks(tree) = {}
  <2>1. LeafSpots(tree) = {}
    BY <1>2, <1>3 DEF LeafSpots
  <2>2. QED
    BY <2>1 DEF Ranks
<1>9. QED
  BY <1>4, <1>7, <1>8 DEF InOrder

(* A step that changes only the memory, and keeps it marked.               *)
LEMMA HoldOrder ==
  ASSUME OrderInv, NEW m, Marked(tree, m), Hold(m)
  PROVE  OrderKept
<1>1. tree' = tree /\ mem' = m
  BY DEF Hold
<1>2. InOrder(tree, m)
  BY DEF OrderInv, InOrder
<1>3. InOrder(tree, mem)'
  BY <1>1, <1>2 DEF InOrder
<1>4. RanksStep(tree, tree')
  BY <1>1 DEF RanksStep
<1>5. QED
  BY <1>3, <1>4 DEF OrderKept

(* A step that changes nothing of the tree or the memory.                  *)
LEMMA StillOrder ==
  ASSUME OrderInv, UNCHANGED <<tree, mem>>
  PROVE  OrderKept
<1>1. tree' = tree /\ mem' = mem /\ InOrder(tree, mem)
  BY DEF OrderInv
<1>2. InOrder(tree', mem')
  BY <1>1
<1>3. RanksStep(tree, tree')
  BY <1>1 DEF RanksStep
<1>4. QED
  BY <1>2, <1>3 DEF OrderKept

(* An insertion: irowinsert finds the number, itreeload the place, and     *)
(* ivbkeyinsert puts the entry there.                                      *)
LEMMA InsertKeeps ==
  ASSUME OrderInv, NEW k \in Key, Insert(k)
  PROVE  OrderKept
<1> DEFINE w == Before(k)
           d == NumberOf(tree, w, k)
           p == itreeload(tree, k, d)
           v == StepTo(tree, w.mem, p)
           e == Entry(k, d, 0)
<1>1. Sound(tree) /\ mem \in Memories(tree) /\ Marked(tree, mem)
  BY DEF OrderInv, TreeInv, InOrder
<1>2. PICK lo, hi : Ordered(tree, lo, hi)
  BY DEF OrderInv, InOrder
<1>3. StepsBack(tree, w, Rank(k, AnyDup))
  <2>1. k \in Int /\ AnyDup \in -1..(MaxDup + 1)
    BY SearchRange DEF Key
  <2>2. QED
    BY <1>1, <1>2, <2>1, BackFrom DEF Before
<1>4. w \in Outs(tree) /\ Marked(tree, w.mem) /\ w.mem \in Memories(tree)
  BY <1>3, OutsFacts DEF StepsBack
<1>5. w.st # "null" => Fresh(tree, k, d)
  BY <1>1, <1>2, <1>3, NumberFresh
<1>6. InsertFrom(k, w)
  BY DEF Insert
<1>7. CASE Inserted(k, w) /\ d > 0 /\ ~tree.isdups
  <2>1. Hold(w.mem)
    BY <1>7 DEF Inserted
  <2>2. QED
    BY <1>4, <2>1, HoldOrder
<1>8. CASE Inserted(k, w) /\ ~(d > 0 /\ ~tree.isdups)
  <2>1. /\ d <= MaxDup /\ Cardinality(tree.free) >= Top(tree) + 2
        /\ Changed(InsertedAt(v, e)) /\ w.st # "null"
    BY <1>8 DEF Inserted
  <2>2. Fresh(tree, k, d)
    BY <1>5, <2>1
  <2> HIDE DEF w, d
  <2>3. d \in Dup /\ d \in Nat
    BY <2>1, <2>2, TreeAssumption DEF Dup, Fresh
  <2>4. e \in Entries /\ RankOf(e) = Rank(k, d)
    <3>1. k \in 1..Highest /\ 0 \in 0..MaxNode
      BY TreeAssumption DEF Key, Highest
    <3>2. QED
      BY <2>3, <3>1 DEF Entry, Entries, RankOf
  <2>5. Rank(k, d) \notin Ranks(tree)
    <3>1. ~(d < d)
      BY <2>3
    <3>2. QED
      BY <2>2, <2>3, <3>1 DEF Fresh
  <2>6. PICK lo2, hi2 : /\ Ordered(tree, lo2, hi2)
                        /\ Roomy(lo2, hi2, p[0].n, Keys(tree, p[0].n), p[0].i,
                                 Rank(k, d))
    BY <1>1, <1>2, <2>3, <2>5, InsertRoom
  <2>7. v \in Outs(tree) /\ Marked(tree, v.mem) /\ v.path = p
    <3>1. PathOf(tree, p)
      BY <1>1, LoadExists
    <3>2. QED
      BY <1>1, <1>4, <3>1, SearchMarks, StepToFacts
  <2> HIDE DEF v, e, p
  <2>8. /\ v.mem \in Memories(tree) /\ PathOf(tree, p)
        /\ \A l \in 0..Top(tree) : p[l].n \in DOMAIN v.mem
    BY <2>7, OutsFacts
  <2>9. Roomy(lo2, hi2, p[0].n, Keys(tree, p[0].n), p[0].i, RankOf(e))
    BY <2>4, <2>6
  <2> DEFINE g == ivbkeyinsert(tree, v.mem, p, e)
  <2>10. Placed(tree, RankOf(e), g)
    BY <1>1, <2>1, <2>4, <2>6, <2>7, <2>8, <2>9, InsertOrder
  <2>11. Changed(g)
    BY <2>1, <2>7 DEF InsertedAt
  <2> HIDE DEF g
  <2>12. tree' = g.t /\ mem' = g.m
    BY <2>11 DEF Changed
  <2>13. InOrder(tree, mem)'
    BY <2>10, <2>12 DEF Placed, InOrder
  <2>14. d # 0 => tree.isdups
    <3>1. d # 0 => d > 0
      BY <2>3
    <3>2. QED
      BY <1>8, <3>1 DEF d
  <2>15. RanksStep(tree, tree')
    <3>1. /\ tree'.isdups = tree.isdups
          /\ Ranks(tree') = Ranks(tree) \union {Rank(k, d)}
      BY <2>4, <2>10, <2>12 DEF Placed
    <3>2. QED
      BY <2>2, <2>3, <2>14, <3>1 DEF RanksStep
  <2>16. QED
    BY <2>13, <2>15 DEF OrderKept
<1>9. CASE w.st = "null" /\ Crash
  BY <1>9, StillOrder DEF Crash
<1>10. QED
  BY <1>6, <1>7, <1>8, <1>9 DEF InsertFrom

(* A deletion: ivbkeylocaterow finds the entry, and ivbkeydelete takes it  *)
(* out.                                                                    *)
LEMMA DeleteKeeps ==
  ASSUME OrderInv, NEW k \in Key, NEW d \in Dup, Delete(k, d)
  PROVE  OrderKept
<1> DEFINE w == ivbkeylocaterow(tree, mem, k, d)
           g == ivbkeydelete(tree, w.mem, w.path)
<1>1. Sound(tree) /\ mem \in Memories(tree) /\ Marked(tree, mem)
  BY DEF OrderInv, TreeInv, InOrder
<1>2. PICK lo, hi : Ordered(tree, lo, hi)
  BY DEF OrderInv, InOrder
<1>3. w.st = "ok" /\ Deleted(g)
  BY DEF Delete, DeleteAt
<1>4. /\ w \in Outs(tree) /\ Marked(tree, w.mem)
      /\ OnEntry(tree, w.path) /\ Same(At(tree, w.path), k, d)
  BY <1>1, <1>3, LocateMarks
<1> HIDE DEF w
<1>5. w.mem \in Memories(tree) /\ PathOf(tree, w.path)
  BY <1>4, OutsFacts
<1>6. /\ RankAt(tree, w.path) = Rank(k, d)
      /\ RankAt(tree, w.path) \in Ranks(tree)
  BY <1>1, <1>2, <1>4, <1>5, RankPair DEF Same
<1>7. CASE ~g.more /\ Changed(g)
  <2>1. Taken(tree, RankAt(tree, w.path), g)
    BY <1>1, <1>2, <1>4, <1>5, <1>7, DeleteOrder
  <2> HIDE DEF g
  <2>2. tree' = g.t /\ mem' = g.m
    BY <1>7 DEF Changed
  <2>3. InOrder(tree, mem)'
    BY <2>1, <2>2 DEF Taken, InOrder
  <2>4. /\ tree'.isdups = tree.isdups
        /\ Ranks(tree') = Ranks(tree) \ {Rank(k, d)}
    BY <1>6, <2>1, <2>2 DEF Taken
  <2>5. RanksStep(tree, tree')
    BY <1>6, <2>4 DEF RanksStep
  <2>6. QED
    BY <2>3, <2>5 DEF OrderKept
<1>8. CASE g.more /\ Crash
  BY <1>8, StillOrder DEF Crash
<1>9. QED
  BY <1>3, <1>7, <1>8 DEF Deleted

(* The end of a read.                                                      *)
LEMMA OutcomeOrder ==
  ASSUME OrderInv, NEW w, Marked(tree, w.mem), Outcome(w)
  PROVE  OrderKept
<1>1. Crash \/ Hold(w.mem)
  BY DEF Outcome
<1>2. QED
  BY <1>1, HoldOrder, StillOrder DEF Crash

(* isread by key keeps the marks right.                                    *)
LEMMA ReadMarks ==
  ASSUME NEW t, Sound(t), NEW m \in Memories(t), Marked(t, m),
         NEW mode \in Modes, NEW k
  PROVE  Marked(t, isread(t, m, mode, k).mem)
<1> DEFINE search(x, d) == StepTo(t, m, itreeload(t, x, d))
<1>1. ASSUME NEW x, NEW d
      PROVE  /\ search(x, d) \in Outs(t) /\ search(x, d).st = "ok"
             /\ Marked(t, search(x, d).mem)
  BY SearchMarks
<1>2. ASSUME NEW w \in Outs(t), Marked(t, w.mem)
      PROVE  Marked(t, EndOnDummy(t, w).mem) /\ Marked(t, OnKey(t, w, k).mem)
  <2>1. "end" \in States /\ "none" \in States
    BY DEF States
  <2>2. /\ [w EXCEPT !.st = "end"].mem = w.mem
        /\ [w EXCEPT !.st = "none"].mem = w.mem
    BY <2>1, EndFacts
  <2>3. Marked(t, EndOnDummy(t, w).mem)
    <3>1. CASE OnDummy(t, w.path)
      BY <1>2, <2>2, <3>1 DEF EndOnDummy
    <3>2. CASE ~OnDummy(t, w.path)
      BY <1>2, <3>2 DEF EndOnDummy
    <3>3. QED
      BY <3>1, <3>2
  <2>4. Marked(t, OnKey(t, w, k).mem)
    <3>1. CASE OnKey(t, w, k) = w
      BY <1>2, <3>1
    <3>2. CASE OnKey(t, w, k) # w
      <4>1. OnKey(t, w, k) = [w EXCEPT !.st = "none"]
        BY <3>2 DEF OnKey
      <4>2. QED
        BY <1>2, <2>2, <4>1
    <3>3. QED
      BY <3>1, <3>2
  <2>5. QED
    BY <2>3, <2>4
<1> HIDE DEF search
<1>3. CASE mode = "first"
  <2>1. isread(t, m, mode, k) = EndOnDummy(t, search(Lowest, NoDup))
    BY <1>3 DEF isread, search
  <2>2. QED
    BY <1>1, <1>2, <2>1
<1>4. CASE mode = "last"
  <2>1. isread(t, m, mode, k) = ivbkeyloadPrev(t, search(Highest, AnyDup))
    BY <1>4 DEF isread, search
  <2>2. QED
    BY <1>1, <2>1, PrevMarks
<1>5. CASE mode = "equal"
  <2>1. PICK w : w = search(k, 0)
    OBVIOUS
  <2>2. isread(t, m, mode, k) = OnKey(t, PastDummy(t, w), k)
    BY <1>5, <2>1 DEF isread, search
  <2>3. w \in Outs(t) /\ w.st = "ok" /\ Marked(t, w.mem)
    BY <1>1, <2>1
  <2>4. PastDummy(t, w) \in Outs(t) /\ Marked(t, PastDummy(t, w).mem)
    <3>1. CASE OnDummy(t, w.path)
      <4>1. PastDummy(t, w) = ivbkeyloadNext(t, w)
        BY <3>1 DEF PastDummy
      <4>2. ivbkeyloadNext(t, w) \in Outs(t)
        BY <2>3, NextFacts
      <4>3. QED
        BY <2>3, <4>1, <4>2, NextMarks
    <3>2. CASE ~OnDummy(t, w.path)
      BY <2>3, <3>2 DEF PastDummy
    <3>3. QED
      BY <3>1, <3>2
  <2>5. QED
    BY <1>2, <2>2, <2>4
<1>6. CASE mode = "gteq"
  <2>1. isread(t, m, mode, k) = EndOnDummy(t, search(k, 0))
    BY <1>6 DEF isread, search
  <2>2. QED
    BY <1>1, <1>2, <2>1
<1>7. CASE mode = "great"
  <2>1. isread(t, m, mode, k) = EndOnDummy(t, search(k, AnyDup))
    BY <1>7 DEF isread, search
  <2>2. QED
    BY <1>1, <1>2, <2>1
<1>8. QED
  BY <1>3, <1>4, <1>5, <1>6, <1>7 DEF Modes

(* So does isread from where the handle stands.                            *)
LEMMA MoveMarks ==
  ASSUME NEW t, Sound(t), NEW w \in Outs(t), Marked(t, w.mem),
         NEW move \in Moves
  PROVE  Marked(t, isreadfrom(t, w, move).mem)
<1>1. CASE w.st # "ok" \/ move = "curr"
  <2>1. isreadfrom(t, w, move) = w
    BY <1>1 DEF isreadfrom
  <2>2. QED
    BY <2>1
<1>2. CASE w.st = "ok" /\ move = "next"
  <2>1. ~(w.st # "ok" \/ move = "curr")
    BY <1>2
  <2>2. isreadfrom(t, w, move) = ivbkeyloadNext(t, w)
    BY <1>2, <2>1 DEF isreadfrom
  <2>3. QED
    BY <1>2, <2>2, NextMarks
<1>3. CASE w.st = "ok" /\ move = "prev"
  <2>1. ~(w.st # "ok" \/ move = "curr") /\ ~(w.st = "ok" /\ move = "next")
    BY <1>3
  <2>2. isreadfrom(t, w, move) = ivbkeyloadPrev(t, w)
    BY <1>3, <2>1, Zenon DEF isreadfrom
  <2>3. QED
    BY <1>3, <2>2, PrevMarks
<1>4. QED
  BY <1>1, <1>2, <1>3 DEF Moves

(* A read by key.                                                          *)
LEMMA ReadKeeps ==
  ASSUME OrderInv, NEW k, Read(k)
  PROVE  OrderKept
<1>1. Sound(tree) /\ mem \in Memories(tree) /\ Marked(tree, mem)
  BY DEF OrderInv, TreeInv, InOrder
<1>2. PICK mode \in Modes : Outcome(isread(tree, mem, mode, k))
  BY DEF Read
<1>3. Marked(tree, isread(tree, mem, mode, k).mem)
  BY <1>1, ReadMarks
<1>4. QED
  BY <1>2, <1>3, OutcomeOrder

(* A read from the current row.                                            *)
LEMMA MoveKeeps ==
  ASSUME OrderInv, NEW k, NEW d, Move(k, d)
  PROVE  OrderKept
<1> DEFINE w == ivbkeylocaterow(tree, mem, k, d)
<1>1. Sound(tree) /\ mem \in Memories(tree) /\ Marked(tree, mem)
  BY DEF OrderInv, TreeInv, InOrder
<1>2. PICK move \in Moves : Outcome(isreadfrom(tree, w, move))
  BY DEF Move
<1>3. w \in Outs(tree) /\ Marked(tree, w.mem)
  BY <1>1, LocateMarks
<1> HIDE DEF w
<1>4. Marked(tree, isreadfrom(tree, w, move).mem)
  BY <1>1, <1>3, MoveMarks
<1>5. QED
  BY <1>2, <1>4, OutcomeOrder

(* The memory is dropped.                                                  *)
LEMMA ReloadKeeps ==
  ASSUME OrderInv, Reload
  PROVE  OrderKept
<1>1. PICK m : m = [n \in {} |-> RootMarks]
  OBVIOUS
<1>2. DOMAIN m = {}
  BY <1>1
<1>3. Marked(tree, m)
  BY <1>2 DEF Marked
<1>4. Hold(m)
  BY <1>1 DEF Reload
<1>5. QED
  BY <1>3, <1>4, HoldOrder

(* Any step.                                                               *)
LEMMA NextKeeps ==
  ASSUME OrderInv, [Next]_vars
  PROVE  OrderKept
<1>1. ASSUME NEW k \in Key, Insert(k) PROVE OrderKept
  BY <1>1, InsertKeeps
<1>2. ASSUME NEW k \in Key, Read(k) PROVE OrderKept
  BY <1>2, ReadKeeps
<1>3. ASSUME NEW k \in Key, NEW d \in Dup, Delete(k, d) PROVE OrderKept
  BY <1>3, DeleteKeeps
<1>4. ASSUME NEW k \in Key, NEW d \in Dup, Move(k, d) PROVE OrderKept
  BY <1>4, MoveKeeps
<1>5. CASE Reload
  BY <1>5, ReloadKeeps
<1>6. CASE UNCHANGED vars
  BY <1>6, StillOrder DEF vars
<1>7. QED
  BY <1>1, <1>2, <1>3, <1>4, <1>5, <1>6 DEF Next

(* The invariant is inductive; what a step does to the entries.            *)
LEMMA NextOrder == OrderInv /\ [Next]_vars => OrderInv'
        /\ RanksStep(tree, tree')
<1> SUFFICES ASSUME OrderInv, [Next]_vars
             PROVE  OrderInv' /\ RanksStep(tree, tree')
  OBVIOUS
<1>1. TreeInv'
  BY NextInv DEF OrderInv
<1>2. OrderKept
  BY NextKeeps
<1>3. QED
  BY <1>1, <1>2 DEF OrderInv, OrderKept

(* The inductive invariant of the order.                                   *)
LEMMA OrderHolds == Spec => []OrderInv
<1>1. Init => OrderInv
  BY InitInv, InitOrder DEF OrderInv
<1>2. OrderInv /\ [Next]_vars => OrderInv'
  BY NextOrder
<1>3. QED
  BY <1>1, <1>2, PTL DEF Spec

-----------------------------------------------------------------------------
(* The properties.                                                         *)

(* Pairs, of any tree.                                                     *)
PairsIn(t) ==
  UNION {{Pair(e) : e \in Range(Keys(t, n))} :
           n \in {n \in Node \ t.free : t.node[n].level = 0}}

(* The pairs of a tree are those whose rank it holds.                      *)
LEMMA PairsFacts ==
  ASSUME NEW t, Sound(t), NEW lo, NEW hi, Ordered(t, lo, hi)
  PROVE  \A y : y \in PairsIn(t) <=>
           \E k \in Key, d \in Dup : y = <<k, d>> /\ Rank(k, d) \in Ranks(t)
<1> DEFINE N == {n \in Node \ t.free : t.node[n].level = 0}
<1>1. \A n : n \in N <=> n \in InUse(t) /\ LevelOf(t, n) = 0
  BY DEF InUse, LevelOf
<1>2. \A y : y \in PairsIn(t) <=>
              \E n \in N : y \in {Pair(e) : e \in Range(Keys(t, n))}
  BY DEF PairsIn
<1> HIDE DEF N
<1>3. ASSUME NEW y \in PairsIn(t)
      PROVE  \E k \in Key, d \in Dup : y = <<k, d>> /\ Rank(k, d) \in Ranks(t)
  <2>1. PICK n \in N : y \in {Pair(e) : e \in Range(Keys(t, n))}
    BY <1>2
  <2>2. n \in InUse(t) /\ LevelOf(t, n) = 0
    BY <1>1
  <2>3. /\ n \in Node /\ DOMAIN Keys(t, n) = 1..Len(Keys(t, n))
        /\ Keys(t, n) \in Seq(Entries)
    BY <2>2, UsedFacts
  <2>4. PICK i \in 1..Len(Keys(t, n)) : y = Pair(Keys(t, n)[i])
    BY <2>1, <2>3 DEF Range
  <2>5. PICK e : e = Keys(t, n)[i]
    OBVIOUS
  <2>6. e \in Entries
    BY <2>3, <2>5
  <2>7. RankOf(e) \in Int /\ RankOf(e) < Roof
    BY <2>2, <2>5, OrderLeaf
  <2>8. e.k \in Key /\ e.d \in Dup
    BY <2>6, <2>7, EntryRank
  <2>9. RankOf(e) \in Ranks(t)
    <3>1. PICK s : s = [n |-> n, i |-> i]
      OBVIOUS
    <3>2. s.n = n /\ s.i = i /\ s \in Spots
      BY <2>3, <3>1 DEF Spots
    <3>3. s \in LeafSpots(t)
      BY <2>2, <3>2 DEF LeafSpots
    <3>4. QED
      BY <2>5, <3>2, <3>3 DEF Ranks
  <2>10. y = <<e.k, e.d>>
    BY <2>4, <2>5 DEF Pair
  <2>11. QED
    BY <2>8, <2>9, <2>10 DEF RankOf
<1>4. ASSUME NEW k \in Key, NEW d \in Dup, Rank(k, d) \in Ranks(t)
      PROVE  <<k, d>> \in PairsIn(t)
  <2>1. PICK s \in LeafSpots(t) : Rank(k, d) = RankOf(Keys(t, s.n)[s.i])
    BY <1>4 DEF Ranks
  <2>2. /\ s.n \in InUse(t) /\ LevelOf(t, s.n) = 0
        /\ s.i \in 1..Len(Keys(t, s.n))
    BY DEF LeafSpots
  <2>3. /\ Keys(t, s.n) \in Seq(Entries)
        /\ DOMAIN Keys(t, s.n) = 1..Len(Keys(t, s.n))
    BY <2>2, UsedFacts
  <2>4. PICK e : e = Keys(t, s.n)[s.i]
    OBVIOUS
  <2>5. e \in Entries /\ e \in Range(Keys(t, s.n))
    BY <2>2, <2>3, <2>4 DEF Range
  <2>6. e.k \in Int /\ e.d \in -1..(MaxDup + 1)
    BY <2>5, EntryRank
  <2>7. k \in Int /\ d \in -1..(MaxDup + 1)
    BY PairRange
  <2>8. Rank(k, d) = Rank(e.k, e.d)
    BY <2>1, <2>4 DEF RankOf
  <2>9. k = e.k /\ d = e.d
    BY <2>6, <2>7, <2>8, RankOrder
  <2>10. <<k, d>> = Pair(e)
    BY <2>9 DEF Pair
  <2>11. s.n \in N
    BY <1>1, <2>2
  <2>12. QED
    BY <1>2, <2>5, <2>10, <2>11
<1>5. QED
  BY <1>3, <1>4

(* Below, in ranks.                                                        *)
LEMMA BelowRank ==
  ASSUME NEW k \in Int, NEW d \in -1..(MaxDup + 1),
         NEW j \in Int, NEW c \in -1..(MaxDup + 1)
  PROVE  Below(<<k, d>>, <<j, c>>) <=> Rank(k, d) < Rank(j, c)
  BY RankOrder DEF Below

(* A pair and its rank.                                                    *)
LEMMA RankPairs ==
  ASSUME NEW t, Sound(t), NEW lo, NEW hi, Ordered(t, lo, hi),
         NEW k \in Key, NEW d \in Dup
  PROVE  <<k, d>> \in PairsIn(t) <=> Rank(k, d) \in Ranks(t)
<1>1. ASSUME NEW j \in Key, NEW c \in Dup, <<k, d>> = <<j, c>>
      PROVE  k = j /\ d = c
  BY <1>1
<1>2. QED
  BY <1>1, PairsFacts

(* A rank tells its pair.                                                  *)
LEMMA RankTells ==
  ASSUME NEW k \in Key, NEW d \in Dup, NEW j \in Key, NEW c \in Dup
  PROVE  /\ Rank(k, d) = Rank(j, c) <=> <<k, d>> = <<j, c>>
         /\ Below(<<k, d>>, <<j, c>>) <=> Rank(k, d) < Rank(j, c)
         /\ Rank(k, d) \in Int
<1>1. /\ k \in Int /\ d \in -1..(MaxDup + 1)
      /\ j \in Int /\ c \in -1..(MaxDup + 1)
  BY PairRange
<1>2. Rank(k, d) = Rank(j, c) <=> k = j /\ d = c
  BY <1>1, RankOrder
<1>3. Rank(k, d) \in Int
  BY <1>1, RankOrder
<1>4. QED
  BY <1>1, <1>2, <1>3, BelowRank

(* Pairs, of the tree before a step and after it.                          *)
LEMMA PairsAre == Pairs = PairsIn(tree) /\ Pairs' = PairsIn(tree')
<1>1. Pairs = PairsIn(tree)
  BY DEF Pairs, PairsOf, PairsIn
<1>2. Pairs' = PairsIn(tree')
  BY DEF Pairs, PairsOf, PairsIn
<1>3. QED
  BY <1>1, <1>2

(* The number irowinsert takes is the one VBIndex gives.                   *)
LEMMA AfterFresh ==
  ASSUME OrderInv, NEW k \in Key, NEW d, Fresh(tree, k, d)
  PROVE  /\ Index!After(Index!Numbers(k)) = d
         /\ d = 0 => Index!Numbers(k) = {}
<1> DEFINE D == Index!Numbers(k)
<1>1. Sound(tree) /\ \E lo, hi : Ordered(tree, lo, hi)
  BY DEF OrderInv, TreeInv, InOrder
<1>2. \A c \in Dup : <<k, c>> \in Pairs <=> Rank(k, c) \in Ranks(tree)
  BY <1>1, PairsAre, RankPairs
<1>3. \A c : c \in D <=> c \in Dup /\ <<k, c>> \in Pairs
  BY DEF Index!Numbers
<1>4. \A c \in D : c \in Dup /\ c < d /\ c \in Nat
  BY <1>2, <1>3, PairRange DEF Fresh
<1>5. d \in Nat
  BY DEF Fresh
<1> HIDE DEF D
<1>6. CASE d = 0
  <2>1. D = {}
    BY <1>4, <1>5, <1>6
  <2>2. QED
    BY <1>6, <2>1 DEF Index!After, D
<1>7. CASE d # 0
  <2>1. d - 1 \in D
    BY <1>2, <1>3, <1>7 DEF Fresh
  <2>2. \A e \in D : e <= d - 1
    BY <1>4, <1>5
  <2>3. PICK b : b = CHOOSE x \in D : \A e \in D : e <= x
    OBVIOUS
  <2>4. b \in D /\ \A e \in D : e <= b
    BY <2>1, <2>2, <2>3
  <2>5. b <= d - 1 /\ d - 1 <= b /\ b \in Nat
    BY <1>4, <2>1, <2>2, <2>4
  <2>6. 1 + b = d
    BY <1>5, <2>5
  <2>7. Index!After(D) = 1 + b
    BY <2>1, <2>3 DEF Index!After
  <2>8. QED
    BY <1>7, <2>6, <2>7 DEF D
<1>8. QED
  BY <1>6, <1>7

(* The pairs of a tree that has one rank more, or one less.                *)
LEMMA PairsMore ==
  ASSUME NEW t, Sound(t), NEW u, Sound(u),
         NEW lo, NEW hi, Ordered(t, lo, hi),
         NEW lo2, NEW hi2, Ordered(u, lo2, hi2),
         NEW k \in Key, NEW d \in Dup
  PROVE  /\ Ranks(u) = Ranks(t) => PairsIn(u) = PairsIn(t)
         /\ Ranks(u) = Ranks(t) \union {Rank(k, d)} =>
              PairsIn(u) = PairsIn(t) \union {<<k, d>>}
         /\ Ranks(u) = Ranks(t) \ {Rank(k, d)} =>
              PairsIn(u) = PairsIn(t) \ {<<k, d>>}
<1>1. \A y : y \in PairsIn(t) <=>
        \E j \in Key, c \in Dup : y = <<j, c>> /\ Rank(j, c) \in Ranks(t)
  BY PairsFacts
<1>2. \A y : y \in PairsIn(u) <=>
        \E j \in Key, c \in Dup : y = <<j, c>> /\ Rank(j, c) \in Ranks(u)
  BY PairsFacts
<1>3. Ranks(u) = Ranks(t) => PairsIn(u) = PairsIn(t)
  BY <1>1, <1>2
<1>4. ASSUME NEW j \in Key, NEW c \in Dup
      PROVE  Rank(k, d) = Rank(j, c) <=> <<k, d>> = <<j, c>>
  <2>1. /\ k \in Int /\ d \in -1..(MaxDup + 1)
        /\ j \in Int /\ c \in -1..(MaxDup + 1)
    BY PairRange
  <2>2. Rank(k, d) = Rank(j, c) <=> k = j /\ d = c
    BY <2>1, RankOrder
  <2>3. QED
    BY <2>2
<1>5. ASSUME Ranks(u) = Ranks(t) \union {Rank(k, d)}
      PROVE  PairsIn(u) = PairsIn(t) \union {<<k, d>>}
  <2>1. ASSUME NEW y \in PairsIn(u) PROVE y \in PairsIn(t) \union {<<k, d>>}
    BY <1>1, <1>2, <1>4, <1>5, <2>1
  <2>2. ASSUME NEW y \in PairsIn(t) PROVE y \in PairsIn(u)
    BY <1>1, <1>2, <1>5, <2>2
  <2>3. <<k, d>> \in PairsIn(u)
    BY <1>2, <1>5
  <2>4. QED
    BY <2>1, <2>2, <2>3
<1>6. ASSUME Ranks(u) = Ranks(t) \ {Rank(k, d)}
      PROVE  PairsIn(u) = PairsIn(t) \ {<<k, d>>}
  <2>1. ASSUME NEW y \in PairsIn(u) PROVE y \in PairsIn(t) \ {<<k, d>>}
    BY <1>1, <1>2, <1>4, <1>6, <2>1
  <2>2. ASSUME NEW y \in PairsIn(t), y # <<k, d>> PROVE y \in PairsIn(u)
    BY <1>1, <1>2, <1>4, <1>6, <2>2
  <2>3. QED
    BY <2>1, <2>2
<1>7. QED
  BY <1>3, <1>5, <1>6

(* A step of the tree is an insertion or a deletion of VBIndex, or it      *)
(* changes none of its variables.                                          *)
LEMMA StepMaps ==
  ASSUME OrderInv, OrderInv', RanksStep(tree, tree')
  PROVE  [Index!Next]_<<Pairs, tree.isdups>>
<1>1. Sound(tree) /\ Sound(tree')
  BY DEF OrderInv, TreeInv
<1>2. PICK lo, hi : Ordered(tree, lo, hi)
  BY DEF OrderInv, InOrder
<1>3. PICK lo2, hi2 : Ordered(tree', lo2, hi2)
  BY DEF OrderInv, InOrder
<1>4. Pairs = PairsIn(tree) /\ Pairs' = PairsIn(tree')
  BY PairsAre
<1>5. tree.isdups' = tree.isdups
  BY DEF RanksStep
<1>6. CASE Ranks(tree') = Ranks(tree)
  <2>1. \A y : y \in PairsIn(tree) <=>
         \E j \in Key, c \in Dup : y = <<j, c>> /\ Rank(j, c) \in Ranks(tree)
    BY <1>1, <1>2, PairsFacts
  <2>2. \A y : y \in PairsIn(tree') <=>
         \E j \in Key, c \in Dup : y = <<j, c>> /\ Rank(j, c) \in Ranks(tree')
    BY <1>1, <1>3, PairsFacts
  <2>3. Pairs' = Pairs
    BY <1>4, <1>6, <2>1, <2>2
  <2>4. QED
    BY <1>5, <2>3
<1>7. ASSUME NEW k \in Key, NEW d \in Dup,
             Fresh(tree, k, d), d # 0 => tree.isdups,
             Ranks(tree') = Ranks(tree) \union {Rank(k, d)}
      PROVE  Index!Insert(k)
  <2>1. Pairs' = Pairs \union {<<k, d>>}
    BY <1>1, <1>2, <1>3, <1>4, <1>7, PairsMore
  <2>2. Index!After(Index!Numbers(k)) = d /\ (d = 0 => Index!Numbers(k) = {})
    BY <1>7, AfterFresh
  <2>3. QED
    BY <1>5, <1>7, <2>1, <2>2 DEF Index!Insert
<1>8. ASSUME NEW k \in Key, NEW d \in Dup, Rank(k, d) \in Ranks(tree),
             Ranks(tree') = Ranks(tree) \ {Rank(k, d)}
      PROVE  \E e \in Pairs : Index!Delete(e)
  <2>1. Pairs' = Pairs \ {<<k, d>>}
    BY <1>1, <1>2, <1>3, <1>4, <1>8, PairsMore
  <2>2. <<k, d>> \in Pairs
    BY <1>1, <1>2, <1>4, <1>8, RankPairs
  <2>3. Index!Delete(<<k, d>>)
    BY <1>5, <2>1 DEF Index!Delete
  <2>4. QED
    BY <2>2, <2>3
<1>9. QED
  BY <1>6, <1>7, <1>8 DEF RanksStep, Index!Next

(* The tree implements VBIndex: whatever splits, what collapses, what a    *)
(* handle has in memory, an insertion (ivbkeyinsert at the place itreeload *)
(* finds) adds the one entry that comes after the duplicates there are, a  *)
(* deletion (ivbkeydelete where ivbkeylocaterow ends) takes the one entry  *)
(* out, and nothing else changes the entries.                              *)
THEOREM TreeIsIndex == Spec => ImplementsIndex
<1>1. Init => Index!Init
  <2> SUFFICES ASSUME Init PROVE Index!Init
    OBVIOUS
  <2>1. Sound(tree) /\ (\E lo, hi : Ordered(tree, lo, hi)) /\ Ranks(tree) = {}
    BY InitInv, InitOrder DEF TreeInv, InOrder
  <2>2. PairsIn(tree) = {}
    BY <2>1, PairsFacts
  <2>3. tree.isdups \in BOOLEAN
    BY DEF Init
  <2>4. QED
    BY <2>2, <2>3, PairsAre DEF Index!Init
<1>2. OrderInv /\ [Next]_vars => OrderInv' /\ RanksStep(tree, tree')
  BY NextOrder
<1>3. OrderInv /\ OrderInv' /\ RanksStep(tree, tree') =>
        [Index!Next]_<<Pairs, tree.isdups>>
  BY StepMaps
<1>4. QED
  BY <1>1, <1>2, <1>3, OrderHolds, PTL DEF Spec, ImplementsIndex, Index!Spec

(* What the handle finds for a pair of the index.                          *)
LEMMA PairLocated ==
  ASSUME OrderInv, NEW x \in Pairs
  PROVE  \E k \in Key, d \in Dup :
           /\ x = <<k, d>> /\ x[1] = k /\ x[2] = d
           /\ Rank(k, d) \in Ranks(tree)
<1>1. Sound(tree) /\ \E lo, hi : Ordered(tree, lo, hi)
  BY DEF OrderInv, TreeInv, InOrder
<1>2. x \in PairsIn(tree)
  BY PairsAre
<1>3. PICK k \in Key, d \in Dup : x = <<k, d>> /\ Rank(k, d) \in Ranks(tree)
  BY <1>1, <1>2, PairsFacts
<1>4. x[1] = k /\ x[2] = d
  BY <1>3
<1>5. QED
  BY <1>3, <1>4

(* ivbkeylocaterow finds every entry of the index from its key and number  *)
(* (RowsFound), although a search for the key may end on the dummy of the  *)
(* leaf before.                                                            *)
THEOREM EveryRowFound == Spec => []RowsFound
<1>1. OrderInv => RowsFound
  <2> SUFFICES ASSUME OrderInv, NEW x \in Pairs
               PROVE  ivbkeylocaterow(tree, mem, x[1], x[2]).st = "ok"
    BY DEF RowsFound
  <2>1. Sound(tree) /\ mem \in Memories(tree) /\ Marked(tree, mem)
    BY DEF OrderInv, TreeInv, InOrder
  <2>2. PICK lo, hi : Ordered(tree, lo, hi)
    BY DEF OrderInv, InOrder
  <2>3. PICK k \in Key, d \in Dup :
          /\ x = <<k, d>> /\ x[1] = k /\ x[2] = d
          /\ Rank(k, d) \in Ranks(tree)
    BY PairLocated
  <2>4. ivbkeylocaterow(tree, mem, k, d).st = "ok"
    BY <2>1, <2>2, <2>3, LocateFound
  <2>5. QED
    BY <2>3, <2>4
<1>2. QED
  BY <1>1, OrderHolds, PTL

(* Where an outcome is: its pair is the entry of its rank.                 *)
LEMMA PairAt ==
  ASSUME OrderInv, NEW p, PathOf(tree, p), OnEntry(tree, p)
  PROVE  /\ Pair(At(tree, p)) \in Pairs
         /\ \E k \in Key, d \in Dup : /\ Pair(At(tree, p)) = <<k, d>>
                                      /\ RankAt(tree, p) = Rank(k, d)
<1>1. Sound(tree)
  BY DEF OrderInv, TreeInv
<1>2. PICK lo, hi : Ordered(tree, lo, hi)
  BY DEF OrderInv, InOrder
<1>3. PICK e : e = At(tree, p)
  OBVIOUS
<1>4. /\ e.k \in Key /\ e.d \in Dup /\ RankAt(tree, p) = Rank(e.k, e.d)
      /\ RankAt(tree, p) \in Ranks(tree)
  BY <1>1, <1>2, <1>3, RankPair
<1>5. Pair(e) = <<e.k, e.d>>
  BY DEF Pair
<1>6. <<e.k, e.d>> \in PairsIn(tree)
  BY <1>1, <1>2, <1>4, RankPairs
<1>7. QED
  BY <1>3, <1>4, <1>5, <1>6, PairsAre

(* The pairs from rank y on.                                               *)
LEMMA LeastPair ==
  ASSUME OrderInv, NEW p, PathOf(tree, p), NEW y \in Int,
         LeastFrom(tree, p, y), NEW X \in SUBSET Pairs,
         \A k \in Key, d \in Dup :
           <<k, d>> \in Pairs => (<<k, d>> \in X <=> y <= Rank(k, d))
  PROVE  Least(Pair(At(tree, p)), X)
<1>1. OnEntry(tree, p) /\ RankAt(tree, p) \in Int /\ y <= RankAt(tree, p)
  BY DEF LeastFrom
<1>2. PICK k \in Key, d \in Dup :
        Pair(At(tree, p)) = <<k, d>> /\ RankAt(tree, p) = Rank(k, d)
  BY <1>1, PairAt
<1>3. <<k, d>> \in Pairs
  BY <1>1, <1>2, PairAt
<1>4. <<k, d>> \in X
  BY <1>1, <1>2, <1>3
<1>5. ASSUME NEW z \in X PROVE ~Below(z, <<k, d>>)
  <2>1. z \in Pairs
    OBVIOUS
  <2>2. PICK j \in Key, c \in Dup :
          z = <<j, c>> /\ Rank(j, c) \in Ranks(tree)
    BY <2>1, PairLocated
  <2>3. y <= Rank(j, c)
    BY <2>1, <2>2
  <2>4. /\ Rank(j, c) \in Int
        /\ Rank(j, c) < y \/ RankAt(tree, p) <= Rank(j, c)
    BY <2>2 DEF LeastFrom
  <2>5. Rank(k, d) <= Rank(j, c) /\ Rank(k, d) \in Int
    BY <1>1, <1>2, <2>3, <2>4
  <2>6. ~(Rank(j, c) < Rank(k, d))
    BY <2>4, <2>5
  <2>7. ~Below(<<j, c>>, <<k, d>>)
    <3>1. Below(<<j, c>>, <<k, d>>) <=> Rank(j, c) < Rank(k, d)
      BY RankTells
    <3>2. QED
      BY <2>6, <3>1
  <2>8. QED
    BY <2>2, <2>7
<1>6. QED
  BY <1>2, <1>4, <1>5 DEF Least

(* The entry of the greatest rank below y is the greatest pair.            *)
LEMMA GreatestPair ==
  ASSUME OrderInv, NEW p, PathOf(tree, p), NEW y \in Int,
         GreatestBelow(tree, p, y), NEW X \in SUBSET Pairs,
         \A k \in Key, d \in Dup :
           <<k, d>> \in Pairs => (<<k, d>> \in X <=> Rank(k, d) < y)
  PROVE  Greatest(Pair(At(tree, p)), X)
<1>1. OnEntry(tree, p) /\ RankAt(tree, p) \in Int /\ RankAt(tree, p) < y
  BY DEF GreatestBelow
<1>2. PICK k \in Key, d \in Dup :
        Pair(At(tree, p)) = <<k, d>> /\ RankAt(tree, p) = Rank(k, d)
  BY <1>1, PairAt
<1>3. <<k, d>> \in Pairs
  BY <1>1, <1>2, PairAt
<1>4. <<k, d>> \in X
  BY <1>1, <1>2, <1>3
<1>5. ASSUME NEW z \in X PROVE ~Below(<<k, d>>, z)
  <2>1. z \in Pairs
    OBVIOUS
  <2>2. PICK j \in Key, c \in Dup :
          z = <<j, c>> /\ Rank(j, c) \in Ranks(tree)
    BY <2>1, PairLocated
  <2>3. Rank(j, c) < y
    BY <2>1, <2>2
  <2>4. /\ Rank(j, c) \in Int
        /\ Rank(j, c) <= RankAt(tree, p) \/ y <= Rank(j, c)
    BY <2>2 DEF GreatestBelow
  <2>5. Rank(j, c) <= Rank(k, d) /\ Rank(k, d) \in Int
    BY <1>1, <1>2, <2>3, <2>4
  <2>6. ~(Rank(k, d) < Rank(j, c))
    BY <2>4, <2>5
  <2>7. ~Below(<<k, d>>, <<j, c>>)
    <3>1. Below(<<k, d>>, <<j, c>>) <=> Rank(k, d) < Rank(j, c)
      BY RankTells
    <3>2. QED
      BY <2>6, <3>1
  <2>8. QED
    BY <2>2, <2>7
<1>6. QED
  BY <1>2, <1>4, <1>5 DEF Greatest

(* A step on, in pairs.                                                    *)
LEMMA NextMoveSound ==
  ASSUME OrderInv, NEW k \in Key, NEW d \in Dup, NEW v,
         StepsOn(tree, v, Rank(k, d) + 1)
  PROVE  NextSound(<<k, d>>, v)
<1> DEFINE up == {y \in Pairs : Below(<<k, d>>, y)}
<1>1. Rank(k, d) \in Int
  BY RankTells
<1>2. PICK y : y = Rank(k, d) + 1
  OBVIOUS
<1>3. y \in Int
  BY <1>1, <1>2
<1>4. ASSUME NEW j \in Key, NEW c \in Dup
      PROVE  /\ Below(<<k, d>>, <<j, c>>) <=> y <= Rank(j, c)
             /\ Rank(j, c) \in Int
  <2>1. Rank(j, c) \in Int
    BY RankTells
  <2>2. Below(<<k, d>>, <<j, c>>) <=> Rank(k, d) < Rank(j, c)
    BY RankTells
  <2>3. QED
    BY <1>1, <1>2, <2>1, <2>2
<1>5. v.st = "ok" => Least(Pair(At(tree, v.path)), up)
  <2> SUFFICES ASSUME v.st = "ok" PROVE Least(Pair(At(tree, v.path)), up)
    OBVIOUS
  <2>1. PathOf(tree, v.path) /\ LeastFrom(tree, v.path, y)
    BY <1>2, OutsFacts DEF StepsOn
  <2>2. up \in SUBSET Pairs
    OBVIOUS
  <2>3. \A j \in Key, c \in Dup :
          <<j, c>> \in Pairs => (<<j, c>> \in up <=> y <= Rank(j, c))
    BY <1>4
  <2> HIDE DEF up
  <2>4. QED
    BY <1>3, <2>1, <2>2, <2>3, LeastPair
<1>6. v.st = "end" => up = {}
  <2> SUFFICES ASSUME v.st = "end", NEW z \in Pairs PROVE ~Below(<<k, d>>, z)
    OBVIOUS
  <2>1. PICK j \in Key, c \in Dup : z = <<j, c>> /\ Rank(j, c) \in Ranks(tree)
    BY PairLocated
  <2>2. Rank(j, c) < y
    BY <1>2, <2>1 DEF StepsOn
  <2>3. QED
    BY <1>3, <1>4, <2>1, <2>2
<1>7. QED
  BY <1>5, <1>6 DEF NextSound

(* A step back, in pairs.                                                  *)
LEMMA PrevMoveSound ==
  ASSUME OrderInv, NEW k \in Key, NEW d \in Dup, NEW v,
         StepsBack(tree, v, Rank(k, d))
  PROVE  PrevSound(<<k, d>>, v)
<1> DEFINE down == {y \in Pairs : Below(y, <<k, d>>)}
<1>1. PICK y : y = Rank(k, d)
  OBVIOUS
<1>2. y \in Int
  BY <1>1, RankTells
<1>3. ASSUME NEW j \in Key, NEW c \in Dup
      PROVE  /\ Below(<<j, c>>, <<k, d>>) <=> Rank(j, c) < y
             /\ Rank(j, c) \in Int
  BY <1>1, RankTells
<1>4. v.st = "ok" => Greatest(Pair(At(tree, v.path)), down)
  <2> SUFFICES ASSUME v.st = "ok" PROVE Greatest(Pair(At(tree, v.path)), down)
    OBVIOUS
  <2>1. PathOf(tree, v.path) /\ GreatestBelow(tree, v.path, y)
    BY <1>1, OutsFacts DEF StepsBack
  <2>2. down \in SUBSET Pairs
    OBVIOUS
  <2>3. \A j \in Key, c \in Dup :
          <<j, c>> \in Pairs => (<<j, c>> \in down <=> Rank(j, c) < y)
    BY <1>3
  <2> HIDE DEF down
  <2>4. QED
    BY <1>2, <2>1, <2>2, <2>3, GreatestPair
<1>5. v.st = "end" => down = {}
  <2> SUFFICES ASSUME v.st = "end", NEW z \in Pairs PROVE ~Below(z, <<k, d>>)
    OBVIOUS
  <2>1. PICK j \in Key, c \in Dup : z = <<j, c>> /\ Rank(j, c) \in Ranks(tree)
    BY PairLocated
  <2>2. y <= Rank(j, c)
    BY <1>1, <2>1 DEF StepsBack
  <2>3. QED
    BY <1>2, <1>3, <2>1, <2>2
<1>6. QED
  BY <1>4, <1>5 DEF PrevSound

(* ISNEXT and ISPREV are steps on and back.                                *)
LEMMA MoveIs ==
  ASSUME NEW t, NEW w, w.st = "ok"
  PROVE  /\ isreadfrom(t, w, "next") = ivbkeyloadNext(t, w)
         /\ isreadfrom(t, w, "prev") = ivbkeyloadPrev(t, w)
<1>1. isreadfrom(t, w, "next") = ivbkeyloadNext(t, w)
  <2>1. PICK move : move = "next"
    OBVIOUS
  <2>2. w.st = "ok" /\ move = "next" /\ ~(w.st # "ok" \/ move = "curr")
    BY <2>1
  <2>3. isreadfrom(t, w, move) = ivbkeyloadNext(t, w)
    BY <2>2 DEF isreadfrom
  <2>4. QED
    BY <2>1, <2>3
<1>2. isreadfrom(t, w, "prev") = ivbkeyloadPrev(t, w)
  <2>1. PICK move : move = "prev"
    OBVIOUS
  <2>2. /\ w.st = "ok" /\ move = "prev" /\ ~(w.st # "ok" \/ move = "curr")
        /\ ~(w.st = "ok" /\ move = "next")
    BY <2>1
  <2>3. isreadfrom(t, w, move) = ivbkeyloadPrev(t, w)
    BY <2>2, Zenon DEF isreadfrom
  <2>4. QED
    BY <2>1, <2>3
<1>3. QED
  BY <1>1, <1>2

(* ISNEXT and ISPREV from any row give the entry behind or before it, and  *)
(* EENDFILE only at the end (MovesSound), with whatever marks the handle has*)
(* in memory.                                                              *)
THEOREM EveryMoveSound == Spec => []MovesSound
<1>1. OrderInv => MovesSound
  <2> SUFFICES ASSUME OrderInv, NEW x \in Pairs
               PROVE  StepsSound(x, ivbkeylocaterow(tree, mem, x[1], x[2]))
    BY DEF MovesSound
  <2>1. Sound(tree) /\ mem \in Memories(tree) /\ Marked(tree, mem)
    BY DEF OrderInv, TreeInv, InOrder
  <2>2. PICK lo, hi : Ordered(tree, lo, hi)
    BY DEF OrderInv, InOrder
  <2>3. PICK k \in Key, d \in Dup :
          /\ x = <<k, d>> /\ x[1] = k /\ x[2] = d
          /\ Rank(k, d) \in Ranks(tree)
    BY PairLocated
  <2>4. PICK w : w = ivbkeylocaterow(tree, mem, k, d)
    OBVIOUS
  <2>5. /\ w \in Outs(tree) /\ w.st = "ok" /\ Marked(tree, w.mem)
        /\ OnEntry(tree, w.path) /\ RankAt(tree, w.path) = Rank(k, d)
    BY <2>1, <2>2, <2>3, <2>4, LocateFound
  <2>6. PathOf(tree, w.path)
    BY <2>5, OutsFacts
  <2>7. PICK y : y = Rank(k, d)
    OBVIOUS
  <2>8. /\ y \in Int /\ y + 1 \in Int
        /\ Parts(tree, w.path, w.path[0].i, y)
        /\ Parts(tree, w.path, w.path[0].i + 1, y + 1)
    BY <2>1, <2>2, <2>5, <2>6, <2>7, EntryParts
  <2>9. StepsOn(tree, ivbkeyloadNext(tree, w), y + 1)
    BY <2>1, <2>2, <2>5, <2>8, NextStepFacts
  <2>10. StepsBack(tree, ivbkeyloadPrev(tree, w), y)
    BY <2>1, <2>2, <2>5, <2>8, PrevStepFacts
  <2>11. NextSound(<<k, d>>, isreadfrom(tree, w, "next"))
    BY <2>5, <2>7, <2>9, MoveIs, NextMoveSound
  <2>12. PrevSound(<<k, d>>, isreadfrom(tree, w, "prev"))
    BY <2>5, <2>7, <2>10, MoveIs, PrevMoveSound
  <2>13. StepsSound(<<k, d>>, w)
    BY <2>11, <2>12 DEF StepsSound
  <2>14. QED
    BY <2>3, <2>4, <2>13
<1>2. QED
  BY <1>1, OrderHolds, PTL

(* What a read may give, in each mode.                                     *)
LEMMA WantedPairs ==
  ASSUME NEW k \in Key
  PROVE  /\ \A mode \in Modes : Wanted(mode, k) \in SUBSET Pairs
         /\ \A x \in Pairs :
              /\ x \in Wanted("first", k) /\ x \in Wanted("last", k)
              /\ x \in Wanted("equal", k) <=> x[1] = k
              /\ x \in Wanted("gteq", k) <=> x[1] >= k
              /\ x \in Wanted("great", k) <=> x[1] > k
<1>1. ASSUME NEW mode PROVE Wanted(mode, k) \in SUBSET Pairs
  BY DEF Wanted
<1>2. ASSUME NEW x \in Pairs
      PROVE  /\ x \in Wanted("first", k) /\ x \in Wanted("last", k)
             /\ x \in Wanted("equal", k) <=> x[1] = k
             /\ x \in Wanted("gteq", k) <=> x[1] >= k
             /\ x \in Wanted("great", k) <=> x[1] > k
  <2>1. x \in Wanted("first", k)
    BY DEF Wanted
  <2>2. x \in Wanted("last", k)
    BY DEF Wanted
  <2>3. x \in Wanted("equal", k) <=> x[1] = k
    BY DEF Wanted
  <2>4. x \in Wanted("gteq", k) <=> x[1] >= k
    BY DEF Wanted
  <2>5. x \in Wanted("great", k) <=> x[1] > k
    BY DEF Wanted
  <2>6. QED
    BY <2>1, <2>2, <2>3, <2>4, <2>5
<1>3. QED
  BY <1>1, <1>2

(* A search that is not let past the dummy gives the least entry from the  *)
(* value on, or EENDFILE.                                                  *)
LEMMA StopsAt ==
  ASSUME OrderInv, NEW k \in Int, NEW d \in -1..(MaxDup + 1)
  PROVE  LET v == EndOnDummy(tree, StepTo(tree, mem, itreeload(tree, k, d))) IN
         /\ v.st # "none"
         /\ v.st = "ok" => /\ PathOf(tree, v.path)
                           /\ LeastFrom(tree, v.path, Rank(k, d))
<1>1. Sound(tree) /\ mem \in Memories(tree) /\ Marked(tree, mem)
  BY DEF OrderInv, TreeInv, InOrder
<1>2. PICK lo, hi : Ordered(tree, lo, hi)
  BY DEF OrderInv, InOrder
<1>3. PICK w : w = StepTo(tree, mem, itreeload(tree, k, d))
  OBVIOUS
<1>4. /\ w \in Outs(tree) /\ w.st = "ok" /\ PathOf(tree, w.path)
      /\ Rank(k, d) \in Int
      /\ Parts(tree, w.path, w.path[0].i, Rank(k, d))
  BY <1>1, <1>2, <1>3, SearchParts
<1>5. PICK v : v = EndOnDummy(tree, w)
  OBVIOUS
<1>6. CASE OnDummy(tree, w.path)
  <2>1. v = [w EXCEPT !.st = "end"]
    BY <1>5, <1>6 DEF EndOnDummy
  <2>2. v.st = "end"
    BY <1>4, <2>1, EndFacts DEF States
  <2>3. QED
    BY <1>3, <1>5, <2>2
<1>7. CASE ~OnDummy(tree, w.path)
  <2>1. v = w
    BY <1>5, <1>7 DEF EndOnDummy
  <2>2. OnEntry(tree, w.path)
    BY <1>1, <1>4, <1>7, DummyFacts
  <2>3. LeastFrom(tree, w.path, Rank(k, d))
    BY <1>1, <1>2, <1>4, <2>2, SearchLeast
  <2>4. QED
    BY <1>3, <1>4, <1>5, <2>1, <2>3
<1>8. QED
  BY <1>6, <1>7

(* Such a read is sound if it may give just the pairs from that value on.  *)
LEMMA ReadsFrom ==
  ASSUME OrderInv, NEW mode, mode # "last", NEW v, NEW y \in Int,
         v.st # "none",
         v.st = "ok" => PathOf(tree, v.path) /\ LeastFrom(tree, v.path, y),
         NEW X \in SUBSET Pairs,
         \A k \in Key, d \in Dup :
           <<k, d>> \in Pairs => (<<k, d>> \in X <=> y <= Rank(k, d))
  PROVE  ReadSound(mode, X, v)
<1>1. ASSUME v.st = "ok" PROVE Least(Pair(At(tree, v.path)), X)
  BY <1>1, LeastPair
<1>2. QED
  BY <1>1 DEF ReadSound

(* ISFIRST.                                                                *)
LEMMA FirstSound ==
  ASSUME OrderInv, NEW k \in Key
  PROVE  ReadSound("first", Wanted("first", k), isread(tree, mem, "first", k))
<1>1. PICK mode : mode = "first"
  OBVIOUS
<1>2. isread(tree, mem, mode, k)
        = EndOnDummy(tree, StepTo(tree, mem, itreeload(tree, Lowest, NoDup)))
  BY <1>1 DEF isread
<1>3. PICK v : v = isread(tree, mem, mode, k)
  OBVIOUS
<1>4. PICK y : y = Rank(Lowest, NoDup)
  OBVIOUS
<1>5. /\ v.st # "none" /\ y \in Int
      /\ v.st = "ok" => PathOf(tree, v.path) /\ LeastFrom(tree, v.path, y)
  <2>1. Lowest \in Int /\ NoDup \in -1..(MaxDup + 1)
    BY SearchRange
  <2>2. y \in Int
    BY <1>4, <2>1, RankOrder
  <2>3. v = EndOnDummy(tree, StepTo(tree, mem, itreeload(tree, Lowest, NoDup)))
    BY <1>2, <1>3
  <2>4. /\ v.st # "none"
        /\ v.st = "ok" => /\ PathOf(tree, v.path)
                          /\ LeastFrom(tree, v.path, Rank(Lowest, NoDup))
    BY <2>1, <2>3, StopsAt
  <2>5. QED
    BY <1>4, <2>2, <2>4
<1>6. ASSUME NEW j \in Key, NEW c \in Dup PROVE y <= Rank(j, c)
  <2>1. /\ j \in Int /\ c \in -1..(MaxDup + 1) /\ j > Lowest
        /\ Rank(j, c) \in Int
    BY PairRange, RankTells
  <2>2. ~(Rank(j, c) < Rank(Lowest, NoDup))
    <3>1. Rank(j, c) < Rank(Lowest, NoDup)
            <=> j < Lowest \/ (j = Lowest /\ c < NoDup)
      BY <2>1, SearchRange, RankOrder
    <3>2. QED
      BY <2>1, <3>1, SearchRange
  <2>3. QED
    BY <1>4, <1>5, <2>1, <2>2
<1>7. PICK X : X = Wanted(mode, k)
  OBVIOUS
<1>8. /\ X \in SUBSET Pairs /\ mode # "last"
      /\ \A j \in Key, c \in Dup :
           <<j, c>> \in Pairs => (<<j, c>> \in X <=> y <= Rank(j, c))
  BY <1>1, <1>6, <1>7, WantedPairs DEF Modes
<1>9. ReadSound(mode, X, v)
  BY <1>5, <1>8, ReadsFrom
<1>10. QED
  BY <1>1, <1>3, <1>7, <1>9

(* ISGTEQ.                                                                 *)
LEMMA GtEqSound ==
  ASSUME OrderInv, NEW k \in Key
  PROVE  ReadSound("gteq", Wanted("gteq", k), isread(tree, mem, "gteq", k))
<1>1. PICK mode : mode = "gteq"
  OBVIOUS
<1>2. isread(tree, mem, mode, k)
        = EndOnDummy(tree, StepTo(tree, mem, itreeload(tree, k, 0)))
  BY <1>1 DEF isread
<1>3. PICK v : v = isread(tree, mem, mode, k)
  OBVIOUS
<1>4. PICK y : y = Rank(k, 0)
  OBVIOUS
<1>5. k \in Int /\ 0 \in -1..(MaxDup + 1)
  BY SearchRange DEF Key
<1>6. /\ v.st # "none" /\ y \in Int
      /\ v.st = "ok" => PathOf(tree, v.path) /\ LeastFrom(tree, v.path, y)
  <2>1. y \in Int
    BY <1>4, <1>5, RankOrder
  <2>2. v = EndOnDummy(tree, StepTo(tree, mem, itreeload(tree, k, 0)))
    BY <1>2, <1>3
  <2>3. /\ v.st # "none"
        /\ v.st = "ok" => /\ PathOf(tree, v.path)
                          /\ LeastFrom(tree, v.path, Rank(k, 0))
    BY <1>5, <2>2, StopsAt
  <2>4. QED
    BY <1>4, <2>1, <2>3
<1>7. ASSUME NEW j \in Key, NEW c \in Dup PROVE j >= k <=> y <= Rank(j, c)
  <2>1. /\ j \in Int /\ c \in -1..(MaxDup + 1) /\ c >= 0
        /\ Rank(j, c) \in Int
    BY PairRange, RankTells
  <2>2. Rank(j, c) < Rank(k, 0) <=> j < k \/ (j = k /\ c < 0)
    BY <1>5, <2>1, RankOrder
  <2>3. QED
    BY <1>4, <1>5, <1>6, <2>1, <2>2
<1>8. PICK X : X = Wanted(mode, k)
  OBVIOUS
<1>9. /\ X \in SUBSET Pairs /\ mode # "last"
      /\ \A x \in Pairs : x \in X <=> x[1] >= k
  BY <1>1, <1>8, WantedPairs DEF Modes
<1>10. ASSUME NEW j \in Key, NEW c \in Dup, <<j, c>> \in Pairs
       PROVE  <<j, c>> \in X <=> y <= Rank(j, c)
  <2>1. <<j, c>>[1] = j
    OBVIOUS
  <2>2. <<j, c>> \in X <=> j >= k
    BY <1>9, <1>10, <2>1
  <2>3. QED
    BY <1>7, <2>2
<1>11. ReadSound(mode, X, v)
  BY <1>6, <1>9, <1>10, ReadsFrom
<1>12. QED
  BY <1>1, <1>3, <1>8, <1>11

(* ISGREAT.                                                                *)
LEMMA GreatSound ==
  ASSUME OrderInv, NEW k \in Key
  PROVE  ReadSound("great", Wanted("great", k), isread(tree, mem, "great", k))
<1>1. PICK mode : mode = "great"
  OBVIOUS
<1>2. isread(tree, mem, mode, k)
        = EndOnDummy(tree, StepTo(tree, mem, itreeload(tree, k, AnyDup)))
  BY <1>1 DEF isread
<1>3. PICK v : v = isread(tree, mem, mode, k)
  OBVIOUS
<1>4. PICK y : y = Rank(k, AnyDup)
  OBVIOUS
<1>5. k \in Int /\ AnyDup \in -1..(MaxDup + 1)
  BY SearchRange DEF Key
<1>6. /\ v.st # "none" /\ y \in Int
      /\ v.st = "ok" => PathOf(tree, v.path) /\ LeastFrom(tree, v.path, y)
  <2>1. y \in Int
    BY <1>4, <1>5, RankOrder
  <2>2. v = EndOnDummy(tree, StepTo(tree, mem, itreeload(tree, k, AnyDup)))
    BY <1>2, <1>3
  <2>3. /\ v.st # "none"
        /\ v.st = "ok" => /\ PathOf(tree, v.path)
                          /\ LeastFrom(tree, v.path, Rank(k, AnyDup))
    BY <1>5, <2>2, StopsAt
  <2>4. QED
    BY <1>4, <2>1, <2>3
<1>7. ASSUME NEW j \in Key, NEW c \in Dup PROVE j > k <=> y <= Rank(j, c)
  <2>1. /\ j \in Int /\ c \in -1..(MaxDup + 1) /\ c < AnyDup
        /\ Rank(j, c) \in Int
    BY PairRange, RankTells
  <2>2. Rank(j, c) < Rank(k, AnyDup) <=> j < k \/ (j = k /\ c < AnyDup)
    BY <1>5, <2>1, RankOrder
  <2>3. QED
    BY <1>4, <1>5, <1>6, <2>1, <2>2
<1>8. PICK X : X = Wanted(mode, k)
  OBVIOUS
<1>9. /\ X \in SUBSET Pairs /\ mode # "last"
      /\ \A x \in Pairs : x \in X <=> x[1] > k
  BY <1>1, <1>8, WantedPairs DEF Modes
<1>10. ASSUME NEW j \in Key, NEW c \in Dup, <<j, c>> \in Pairs
       PROVE  <<j, c>> \in X <=> y <= Rank(j, c)
  <2>1. <<j, c>>[1] = j
    OBVIOUS
  <2>2. <<j, c>> \in X <=> j > k
    BY <1>9, <1>10, <2>1
  <2>3. QED
    BY <1>7, <2>2
<1>11. ReadSound(mode, X, v)
  BY <1>6, <1>9, <1>10, ReadsFrom
<1>12. QED
  BY <1>1, <1>3, <1>8, <1>11

(* ISLAST.                                                                 *)
LEMMA LastSound ==
  ASSUME OrderInv, NEW k \in Key
  PROVE  ReadSound("last", Wanted("last", k), isread(tree, mem, "last", k))
<1>1. PICK mode : mode = "last"
  OBVIOUS
<1>2. isread(tree, mem, mode, k)
        = ivbkeyloadPrev(tree, StepTo(tree, mem,
                                      itreeload(tree, Highest, AnyDup)))
  BY <1>1 DEF isread
<1>3. PICK v : v = isread(tree, mem, mode, k)
  OBVIOUS
<1>4. PICK y : y = Rank(Highest, AnyDup)
  OBVIOUS
<1>5. Sound(tree) /\ mem \in Memories(tree) /\ Marked(tree, mem)
  BY DEF OrderInv, TreeInv, InOrder
<1>6. PICK lo, hi : Ordered(tree, lo, hi)
  BY DEF OrderInv, InOrder
<1>7. y \in Int /\ StepsBack(tree, v, y)
  BY <1>2, <1>3, <1>4, <1>5, <1>6, SearchRange, BackFrom, RankOrder
<1>8. ASSUME NEW j \in Key, NEW c \in Dup PROVE Rank(j, c) < y
  <2>1. j \in Int /\ c \in -1..(MaxDup + 1) /\ j < Highest
    BY PairRange
  <2>2. QED
    BY <1>4, <2>1, SearchRange, RankOrder
<1>9. PICK X : X = Wanted(mode, k)
  OBVIOUS
<1>10. /\ X \in SUBSET Pairs
       /\ \A j \in Key, c \in Dup :
            <<j, c>> \in Pairs => (<<j, c>> \in X <=> Rank(j, c) < y)
  BY <1>1, <1>8, <1>9, WantedPairs DEF Modes
<1>11. ASSUME v.st = "ok" PROVE Greatest(Pair(At(tree, v.path)), X)
  <2>1. PathOf(tree, v.path) /\ GreatestBelow(tree, v.path, y)
    BY <1>7, <1>11, OutsFacts DEF StepsBack
  <2>2. QED
    BY <1>7, <1>10, <2>1, GreatestPair
<1>12. v.st # "none"
  BY <1>7 DEF StepsBack
<1>13. ReadSound(mode, X, v)
  BY <1>1, <1>11, <1>12 DEF ReadSound
<1>14. QED
  BY <1>1, <1>3, <1>9, <1>13

(* ISEQUAL.                                                                *)
LEMMA EqualSound ==
  ASSUME OrderInv, NEW k \in Key
  PROVE  ReadSound("equal", Wanted("equal", k), isread(tree, mem, "equal", k))
<1>1. PICK mode : mode = "equal"
  OBVIOUS
<1>2. PICK w : w = StepTo(tree, mem, itreeload(tree, k, 0))
  OBVIOUS
<1>3. PICK u : u = PastDummy(tree, w)
  OBVIOUS
<1>4. PICK v : v = isread(tree, mem, mode, k)
  OBVIOUS
<1>5. v = OnKey(tree, u, k)
  BY <1>1, <1>2, <1>3, <1>4 DEF isread
<1>6. Sound(tree) /\ mem \in Memories(tree) /\ Marked(tree, mem)
  BY DEF OrderInv, TreeInv, InOrder
<1>7. PICK lo, hi : Ordered(tree, lo, hi)
  BY DEF OrderInv, InOrder
<1>8. PICK y : y = Rank(k, 0)
  OBVIOUS
<1>9. k \in Int /\ 0 \in -1..(MaxDup + 1)
  BY SearchRange DEF Key
<1>10. /\ w \in Outs(tree) /\ w.st = "ok" /\ Marked(tree, w.mem)
       /\ y \in Int /\ Parts(tree, w.path, w.path[0].i, y)
  BY <1>2, <1>6, <1>7, <1>8, <1>9, SearchParts
<1>11. StepsOn(tree, u, y)
  BY <1>3, <1>6, <1>7, <1>10, SearchOn
<1>12. u \in Outs(tree) /\ PathOf(tree, u.path)
  BY <1>11, OutsFacts DEF StepsOn
<1>13. PICK X : X = Wanted(mode, k)
  OBVIOUS
<1>14. X \in SUBSET Pairs /\ \A x \in Pairs : x \in X <=> x[1] = k
  BY <1>1, <1>13, WantedPairs DEF Modes
<1>15. ASSUME NEW j \in Key, NEW c \in Dup PROVE j >= k <=> y <= Rank(j, c)
  <2>1. /\ j \in Int /\ c \in -1..(MaxDup + 1) /\ c >= 0
        /\ Rank(j, c) \in Int
    BY PairRange, RankTells
  <2>2. Rank(j, c) < Rank(k, 0) <=> j < k \/ (j = k /\ c < 0)
    BY <1>9, <2>1, RankOrder
  <2>3. QED
    BY <1>8, <1>9, <1>10, <2>1, <2>2
<1>16. ASSUME NEW x \in X
       PROVE  \E c \in Dup : /\ x = <<k, c>> /\ Rank(k, c) \in Ranks(tree)
                             /\ y <= Rank(k, c)
  <2>1. x \in Pairs /\ x[1] = k
    BY <1>14
  <2>2. PICK j \in Key, c \in Dup : /\ x = <<j, c>> /\ x[1] = j
                                    /\ Rank(j, c) \in Ranks(tree)
    BY <2>1, PairLocated
  <2>3. j = k /\ k >= k
    BY <1>9, <2>1, <2>2
  <2>4. QED
    BY <1>15, <2>2, <2>3
<1>17. CASE u.st # "ok"
  <2>1. X = {}
    <3>1. ASSUME NEW x \in X PROVE FALSE
      <4>1. PICK c \in Dup : Rank(k, c) \in Ranks(tree) /\ y <= Rank(k, c)
        BY <1>16
      <4>2. Rank(k, c) \in Int /\ Rank(k, c) < y
        BY <1>11, <1>17, <4>1 DEF StepsOn
      <4>3. QED
        BY <1>10, <4>1, <4>2
    <3>2. QED
      BY <3>1
  <2>2. v.st # "ok"
    <3>1. CASE v = u
      BY <1>17, <3>1
    <3>2. CASE v # u
      <4>1. v = [u EXCEPT !.st = "none"]
        BY <1>5, <3>2 DEF OnKey
      <4>2. v.st = "none"
        BY <1>12, <4>1, EndFacts DEF States
      <4>3. QED
        BY <4>2
    <3>3. QED
      BY <3>1, <3>2
  <2>3. ReadSound(mode, X, v)
    BY <2>1, <2>2 DEF ReadSound
  <2>4. QED
    BY <1>1, <1>4, <1>13, <2>3
<1>18. CASE u.st = "ok"
  <2>1. /\ LeastFrom(tree, u.path, y) /\ OnEntry(tree, u.path)
        /\ RankAt(tree, u.path) \in Int /\ y <= RankAt(tree, u.path)
    BY <1>11, <1>18 DEF StepsOn, LeastFrom
  <2>2. PICK e : e = At(tree, u.path)
    OBVIOUS
  <2>3. /\ e.k \in Key /\ e.d \in Dup /\ RankAt(tree, u.path) = Rank(e.k, e.d)
        /\ Pair(e) \in Pairs /\ Pair(e) = <<e.k, e.d>>
    BY <1>6, <1>7, <1>12, <2>1, <2>2, RankPair, PairAt DEF Pair
  <2>4. CASE e.k # k
    <3>1. v = [u EXCEPT !.st = "none"]
      BY <1>5, <1>18, <2>2, <2>4 DEF OnKey
    <3>2. v.st = "none"
      BY <1>12, <3>1, EndFacts DEF States
    <3>3. X = {}
      <4>1. ASSUME NEW x \in X PROVE FALSE
        <5>1. PICK c \in Dup : Rank(k, c) \in Ranks(tree) /\ y <= Rank(k, c)
          BY <1>16
        <5>2. Rank(k, c) \in Int /\ Rank(e.k, e.d) <= Rank(k, c)
          BY <1>10, <2>1, <2>3, <5>1 DEF LeastFrom
        <5>3. /\ e.k \in Int /\ e.d \in -1..(MaxDup + 1)
              /\ c \in -1..(MaxDup + 1) /\ e.k > k
          <6>1. e.k >= k
            BY <1>15, <2>1, <2>3
          <6>2. QED
            <7>1. PICK j \in Key, b \in Dup : j = e.k /\ b = e.d
              BY <2>3
            <7>2. /\ j \in Int /\ b \in -1..(MaxDup + 1)
                  /\ c \in -1..(MaxDup + 1)
              BY PairRange
            <7>3. QED
              BY <1>9, <2>4, <6>1, <7>1, <7>2
        <5>4. Rank(k, c) < Rank(e.k, e.d)
          BY <1>9, <5>3, RankOrder
        <5>5. Rank(e.k, e.d) \in Int
          BY <2>1, <2>3
        <5>6. QED
          BY <5>2, <5>4, <5>5
      <4>2. QED
        BY <4>1
    <3>4. ReadSound(mode, X, v)
      BY <3>2, <3>3 DEF ReadSound
    <3>5. QED
      BY <1>1, <1>4, <1>13, <3>4
  <2>5. CASE e.k = k
    <3>1. v = u
      BY <1>5, <1>18, <2>2, <2>5 DEF OnKey
    <3>2. PICK Y : Y = {x \in Pairs : x[1] >= k}
      OBVIOUS
    <3>3. Y \in SUBSET Pairs
      BY <3>2
    <3>4. ASSUME NEW j \in Key, NEW c \in Dup, <<j, c>> \in Pairs
          PROVE  <<j, c>> \in Y <=> y <= Rank(j, c)
      <4>1. <<j, c>>[1] = j
        OBVIOUS
      <4>2. <<j, c>> \in Y <=> j >= k
        BY <3>2, <3>4, <4>1
      <4>3. QED
        BY <1>15, <4>2
    <3>5. Least(Pair(e), Y)
      BY <1>10, <1>12, <2>1, <2>2, <3>3, <3>4, LeastPair
    <3>6. ASSUME NEW x \in X PROVE x \in Y
      <4>1. x \in Pairs /\ x[1] = k
        BY <1>14
      <4>2. x[1] >= k
        BY <1>9, <4>1
      <4>3. QED
        BY <3>2, <4>1, <4>2
    <3>7. Pair(e) \in X
      <4>1. <<e.k, e.d>>[1] = k
        BY <2>5
      <4>2. QED
        BY <1>14, <2>3, <4>1
    <3>8. Least(Pair(e), X)
      BY <3>5, <3>6, <3>7 DEF Least
    <3>9. ReadSound(mode, X, v)
      BY <1>1, <1>18, <2>2, <3>1, <3>8 DEF ReadSound
    <3>10. QED
      BY <1>1, <1>4, <1>13, <3>9
  <2>6. QED
    BY <2>4, <2>5
<1>19. QED
  BY <1>17, <1>18

(* isread by key: ISFIRST, ISLAST, ISGTEQ and ISGREAT give the right row   *)
(* when they give one, and ISEQUAL says ENOREC only where the key has no row*)
(* (ReadsSound).                                                           *)
THEOREM EveryReadSound == Spec => []ReadsSound
<1>1. OrderInv => ReadsSound
  <2> SUFFICES ASSUME OrderInv, NEW mode \in Modes, NEW k \in Key
               PROVE  ReadSound(mode, Wanted(mode, k),
                                isread(tree, mem, mode, k))
    BY DEF ReadsSound
  <2>1. CASE mode = "first"
    BY <2>1, FirstSound
  <2>2. CASE mode = "last"
    BY <2>2, LastSound
  <2>3. CASE mode = "equal"
    BY <2>3, EqualSound
  <2>4. CASE mode = "gteq"
    BY <2>4, GtEqSound
  <2>5. CASE mode = "great"
    BY <2>5, GreatSound
  <2>6. QED
    BY <2>1, <2>2, <2>3, <2>4, <2>5 DEF Modes
<1>2. QED
  BY <1>1, OrderHolds, PTL

(* The nodes x levels below n whose span is within the span of n.          *)
Spanned(t, lo, hi, n, x) ==
  {m \in InUse(t) : /\ LevelOf(t, m) = LevelOf(t, n) - x
                    /\ lo[n] <= lo[m] /\ hi[m] <= hi[n]}

(* The children of a set of nodes.                                         *)
ChildrenOf(t, v) == {e.to : e \in UNION {Range(Keys(t, m)) : m \in v}}

(* Their children are one level further below.                             *)
LEMMA SpannedChildren ==
  ASSUME NEW t, Sound(t), NEW lo, NEW hi, Ordered(t, lo, hi),
         NEW n \in InUse(t), NEW x \in 1..LevelOf(t, n),
         NEW v \in SUBSET Spanned(t, lo, hi, n, x - 1)
  PROVE  ChildrenOf(t, v) \in SUBSET Spanned(t, lo, hi, n, x)
<1>1. LevelOf(t, n) \in Nat /\ lo[n] \in Int /\ hi[n] \in Int
  BY UsedFacts, OrderFacts
<1>2. ASSUME NEW c \in ChildrenOf(t, v) PROVE c \in Spanned(t, lo, hi, n, x)
  <2>1. PICK m \in v : \E e \in Range(Keys(t, m)) : c = e.to
    BY DEF ChildrenOf
  <2>2. /\ m \in InUse(t) /\ LevelOf(t, m) = LevelOf(t, n) - (x - 1)
        /\ lo[n] <= lo[m] /\ hi[m] <= hi[n]
    BY DEF Spanned
  <2>3. DOMAIN Keys(t, m) = 1..Len(Keys(t, m))
    BY <2>2, UsedFacts
  <2>4. PICK i \in 1..Len(Keys(t, m)) : c = Keys(t, m)[i].to
    BY <2>1, <2>3 DEF Range
  <2>5. LevelOf(t, m) > 0 /\ LevelOf(t, m) - 1 = LevelOf(t, n) - x
    BY <1>1, <2>2
  <2>6. /\ c \in InUse(t) /\ lo[c] \in Int /\ hi[c] \in Int
        /\ lo[m] <= lo[c] /\ hi[c] <= hi[m]
    BY <2>2, <2>4, <2>5, OrderInner
  <2>7. LevelOf(t, c) = LevelOf(t, m) - 1
    BY <2>2, <2>4, <2>5, ChildFacts
  <2>8. lo[m] \in Int /\ hi[m] \in Int
    BY <2>2, OrderFacts
  <2>9. QED
    BY <1>1, <2>2, <2>5, <2>6, <2>7, <2>8 DEF Spanned
<1>3. QED
  BY <1>2

(* The leaves below a node lie in its span.                                *)
LEMMA LeavesFacts ==
  ASSUME NEW t, Sound(t), NEW lo, NEW hi, Ordered(t, lo, hi),
         NEW n \in InUse(t), NEW m \in Leaves(t, n)
  PROVE  /\ m \in InUse(t) /\ LevelOf(t, m) = 0
         /\ lo[n] <= lo[m] /\ hi[m] <= hi[n]
<1> DEFINE L == LevelOf(t, n)
           Body(g) == [x \in 0..L |-> IF x = 0 THEN {n}
                                      ELSE ChildrenOf(t, g[x - 1])]
           at == CHOOSE g : g = Body(g)
           G == [x \in 0..L |-> SUBSET Spanned(t, lo, hi, n, x)]
           F == [x \in 1..L |-> [v \in G[x - 1] |-> ChildrenOf(t, v)]]
<1>1. Leaves(t, n) = at[L]
  BY DEF Leaves, LevelOf, ChildrenOf
<1>2. L \in Nat
  BY UsedFacts
<1>3. PICK h : Staged(h, L, G, {n}, F)
  <2>1. {n} \in G[0]
    <3>1. lo[n] \in Int /\ hi[n] \in Int
      BY OrderFacts
    <3>2. n \in Spanned(t, lo, hi, n, 0)
      BY <1>2, <3>1 DEF Spanned
    <3>3. QED
      BY <1>2, <3>2
  <2>2. ASSUME NEW x \in 1..L, NEW v \in G[x - 1] PROVE F[x][v] \in G[x]
    <3>1. x \in 0..L /\ x - 1 \in 0..L
      BY <1>2
    <3>2. v \in SUBSET Spanned(t, lo, hi, n, x - 1)
      BY <3>1
    <3>3. ChildrenOf(t, v) \in SUBSET Spanned(t, lo, hi, n, x)
      BY <3>2, SpannedChildren
    <3>4. QED
      BY <3>1, <3>3
  <2> HIDE DEF F, G
  <2>3. QED
    BY <1>2, <2>1, <2>2, StagesExist
<1>4. /\ h = [x \in 0..L |-> h[x]] /\ h[0] = {n}
      /\ \A x \in 1..L : h[x] = F[x][h[x - 1]]
      /\ \A x \in 0..L : h[x] \in G[x]
  BY <1>3 DEF Staged
<1>5. h = Body(h)
  <2>1. ASSUME NEW x \in 0..L PROVE h[x] = Body(h)[x]
    <3>1. CASE x = 0
      BY <1>4, <3>1
    <3>2. CASE x # 0
      <4>1. x \in 1..L /\ x - 1 \in 0..L
        BY <1>2, <3>2
      <4>2. h[x] = F[x][h[x - 1]] /\ h[x - 1] \in G[x - 1]
        BY <1>4, <4>1
      <4>3. QED
        BY <3>2, <4>1, <4>2
    <3>3. QED
      BY <3>1, <3>2
  <2>2. QED
    BY <1>4, <2>1
<1>6. at = Body(at)
  BY <1>5
<1> HIDE DEF at, G, F
<1>7. at[0] = {n} /\ \A x \in 1..L : at[x] = ChildrenOf(t, at[x - 1])
  <2>1. at[0] = {n}
    BY <1>2, <1>6
  <2>2. ASSUME NEW x \in 1..L PROVE at[x] = ChildrenOf(t, at[x - 1])
    <3>1. x \in 0..L /\ x # 0
      BY <1>2
    <3>2. QED
      BY <1>6, <3>1
  <2>3. QED
    BY <2>1, <2>2
<1> DEFINE Good(x) == at[x] \subseteq Spanned(t, lo, hi, n, x)
           S == {x \in 0..L : ~Good(x)}
<1>8. S = {}
  <2> SUFFICES ASSUME S # {} PROVE FALSE
    OBVIOUS
  <2>1. S \in SUBSET Nat
    BY <1>2
  <2>2. PICK x \in S : \A y \in S : x <= y
    <3> HIDE DEF S
    <3>1. QED
      BY <2>1, LeastNumber
  <2>3. x # 0
    <3>1. lo[n] \in Int /\ hi[n] \in Int
      BY OrderFacts
    <3>2. n \in Spanned(t, lo, hi, n, 0)
      BY <1>2, <3>1 DEF Spanned
    <3>3. Good(0)
      BY <1>7, <3>2
    <3>4. QED
      BY <3>3
  <2>4. x \in 1..L /\ x - 1 \in 0..L /\ ~(x <= x - 1)
    BY <1>2, <2>3
  <2>5. Good(x - 1)
    BY <2>2, <2>4
  <2>6. at[x - 1] \in SUBSET Spanned(t, lo, hi, n, x - 1)
    BY <2>5
  <2>7. ChildrenOf(t, at[x - 1]) \in SUBSET Spanned(t, lo, hi, n, x)
    BY <2>4, <2>6, SpannedChildren
  <2>8. Good(x)
    BY <1>7, <2>4, <2>7
  <2>9. QED
    BY <2>8
<1>9. L \in 0..L
  BY <1>2
<1>10. m \in Spanned(t, lo, hi, n, L)
  BY <1>1, <1>8, <1>9
<1>11. QED
  BY <1>2, <1>10 DEF Spanned

(* Below, of two entries.                                                  *)
LEMMA EntriesBelow ==
  ASSUME NEW a \in Entries, NEW b \in Entries
  PROVE  Below(Pair(a), Pair(b)) <=> RankOf(a) < RankOf(b)
<1>1. /\ a.k \in Int /\ a.d \in -1..(MaxDup + 1)
      /\ b.k \in Int /\ b.d \in -1..(MaxDup + 1)
  BY EntryRank
<1>2. QED
  BY <1>1, BelowRank DEF Pair, RankOf

(* The entries of each node ascend, and all the entries below an interior  *)
(* entry lie between the one before it and itself (TreeOrdered): insertions,*)
(* splits, emptied nodes and a root that takes over its child keep what the*)
(* search relies on.                                                       *)
THEOREM TreeAscends == Spec => []TreeOrdered
<1>1. OrderInv => TreeOrdered
  <2> SUFFICES ASSUME OrderInv PROVE TreeOrdered
    OBVIOUS
  <2>1. Sound(tree)
    BY DEF OrderInv, TreeInv
  <2>2. PICK lo, hi : Ordered(tree, lo, hi)
    BY DEF OrderInv, InOrder
  <2>3. ASSUME NEW n \in Node, n \notin InUse(tree)
        PROVE  Keys(tree, n) = <<>> /\ tree.node[n].level = 0
    <3>1. n \in tree.free
      BY <2>3 DEF InUse
    <3>2. tree.node[n] = Blank
      BY <2>1, <3>1 DEF Sound, Shapely
    <3>3. QED
      BY <3>2 DEF Keys, Blank
  <2>4. ASSUME NEW n \in Node, NEW i \in 2..Len(Keys(tree, n))
        PROVE  Below(Pair(Keys(tree, n)[i - 1]), Pair(Keys(tree, n)[i]))
    <3>1. n \in InUse(tree)
      <4>1. ASSUME n \notin InUse(tree) PROVE FALSE
        <5>1. Len(Keys(tree, n)) = 0
          BY <2>3, <4>1
        <5>2. QED
          BY <5>1
      <4>2. QED
        BY <4>1
    <3>2. PICK s : s = Keys(tree, n)
      OBVIOUS
    <3>3. /\ Len(s) \in Nat /\ \A j \in 1..Len(s) : s[j] \in Entries
          /\ \A a, b \in 1..Len(s) : a < b => RankOf(s[a]) < RankOf(s[b])
      BY <2>1, <2>2, <3>1, <3>2, OrderFacts
    <3>4. i - 1 \in 1..Len(s) /\ i \in 1..Len(s) /\ i - 1 < i
      BY <3>2, <3>3
    <3>5. QED
      BY <3>2, <3>3, <3>4, EntriesBelow
  <2>5. ASSUME NEW x \in Slots, NEW y \in PairsOf(Leaves(tree, Child(x)))
        PROVE  /\ ~Below(Pair(Keys(tree, x[1])[x[2]]), y)
               /\ x[2] > 1 => Below(Pair(Keys(tree, x[1])[x[2] - 1]), y)
    <3>1. PICK n \in Node, i \in 1..Cap : n = x[1] /\ i = x[2]
      BY DEF Slots
    <3>2. tree.node[n].level > 0 /\ i <= Len(Keys(tree, n))
      BY <3>1 DEF Slots
    <3>3. n \in InUse(tree)
      BY <2>3, <3>2
    <3>4. PICK s : s = Keys(tree, n)
      OBVIOUS
    <3>5. /\ Len(s) \in Nat /\ \A j \in 1..Len(s) : s[j] \in Entries
          /\ \A j \in 1..Len(s) : RankOf(s[j]) \in Int
      BY <2>1, <2>2, <3>3, <3>4, OrderFacts
    <3>6. i \in 1..Len(s) /\ LevelOf(tree, n) > 0
      BY <3>2, <3>4, <3>5 DEF LevelOf
    <3>7. PICK c : c = s[i].to
      OBVIOUS
    <3>8. /\ c \in InUse(tree) /\ lo[c] \in Int /\ hi[c] \in Int
          /\ hi[c] <= RankOf(s[i])
          /\ i > 1 => i - 1 \in 1..Len(s) /\ RankOf(s[i - 1]) < lo[c]
      BY <2>1, <2>2, <3>3, <3>4, <3>6, <3>7, OrderInner
    <3>9. Child(x) = c
      BY <3>1, <3>4, <3>7 DEF Child
    <3>10. PICK m \in Leaves(tree, c) : \E e \in Range(Keys(tree, m)) :
                  y = Pair(e)
      BY <3>9 DEF PairsOf
    <3>11. /\ m \in InUse(tree) /\ LevelOf(tree, m) = 0
           /\ lo[c] <= lo[m] /\ hi[m] <= hi[c]
      BY <2>1, <2>2, <3>8, LeavesFacts
    <3>12. /\ DOMAIN Keys(tree, m) = 1..Len(Keys(tree, m))
           /\ Keys(tree, m) \in Seq(Entries)
           /\ lo[m] \in Int /\ hi[m] \in Int
      BY <2>1, <2>2, <3>11, UsedFacts, OrderFacts
    <3>13. PICK j \in 1..Len(Keys(tree, m)) : y = Pair(Keys(tree, m)[j])
      BY <3>10, <3>12 DEF Range
    <3>14. PICK e : e = Keys(tree, m)[j]
      OBVIOUS
    <3>15. /\ e \in Entries /\ y = Pair(e) /\ RankOf(e) \in Int
           /\ lo[m] <= RankOf(e) /\ RankOf(e) <= hi[m]
      BY <2>1, <2>2, <3>11, <3>12, <3>13, <3>14, OrderLeaf
    <3>16. ~(RankOf(s[i]) < RankOf(e))
      BY <3>5, <3>6, <3>8, <3>11, <3>12, <3>15
    <3>17. ~Below(Pair(s[i]), y)
      BY <3>5, <3>6, <3>15, <3>16, EntriesBelow
    <3>18. i > 1 => Below(Pair(s[i - 1]), y)
      <4> SUFFICES ASSUME i > 1 PROVE Below(Pair(s[i - 1]), y)
        OBVIOUS
      <4>1. RankOf(s[i - 1]) < RankOf(e) /\ s[i - 1] \in Entries
        BY <3>5, <3>8, <3>11, <3>12, <3>15
      <4>2. QED
        BY <3>15, <4>1, EntriesBelow
    <3>19. QED
      BY <3>1, <3>4, <3>17, <3>18
  <2>6. QED
    BY <2>4, <2>5 DEF TreeOrdered
<1>2. QED
  BY <1>1, OrderHolds, PTL
=============================================================================
