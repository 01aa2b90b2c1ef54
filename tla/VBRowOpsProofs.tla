--------------------------- MODULE VBRowOpsProofs ---------------------------
(***************************************************************************)
(* Proofs about VBRowOps, for every number of rows, keys and indexes, all  *)
(* bounds, and whatever calls fail half way.                               *)
(*                                                                         *)
(* The invariant that the steps keep (Inductive) has three parts: the      *)
(* types; the order of the entries of one index, which no failure disturbs *)
(* (Tidy); and, as long as nothing has failed and nothing was lost, that   *)
(* the entries are those of the rows (Matches). Matches is about any set   *)
(* of rows and any values: what is left of an index when an entry is taken *)
(* out is an index of the rows without that one (RemoveMatches), and an    *)
(* insertion adds the row (InsertMatches), so that a deletion, an          *)
(* insertion, a rewrite and the filling of a new index are put together    *)
(* from the same two facts.                                                *)
(*                                                                         *)
(* An insertion goes where ivbkeysearch stops, and the list it searches is *)
(* sorted; so the place splits the list (PlaceSplits), and the new entry   *)
(* of a key with duplicates, whose number is one more than that of the     *)
(* last (NewestNumber), comes behind all of them.                          *)
(*                                                                         *)
(* imakekeysfromdata is a recursive function. That it has values is shown  *)
(* by RecursionExists, what they are by the least row where they would not *)
(* be as they should (MadeFills).                                          *)
(***************************************************************************)
EXTENDS VBRowOps, SequencesExt, SequenceTheorems, WellFoundedInduction,
        FiniteSetTheorems, TLAPS

(* A nonempty set of natural numbers has a least member.                   *)
LEMMA LeastNumber ==
  ASSUME NEW T \in SUBSET Nat, T # {}
  PROVE  \E x \in T : \A y \in T : x <= y
<1> DEFINE R == OpToRel(<, Nat)
<1>1. IsWellFoundedOn(R, Nat)
  BY NatLessThanWellFounded
<1>2. \A x, y \in Nat : x < y => <<x, y>> \in R
  BY DEF OpToRel
<1> HIDE DEF R
<1>3. PICK x \in T : \A y \in T : <<y, x>> \notin R
  BY <1>1, WFMin
<1>4. ASSUME NEW y \in T PROVE x <= y
  <2>1. x \in Nat /\ y \in Nat /\ ~(y < x)
    BY <1>2, <1>3
  <2>2. QED
    BY <2>1
<1>5. QED
  BY <1>3, <1>4

(* Min of a nonempty set of natural numbers is its least member.           *)
LEMMA MinNumber ==
  ASSUME NEW T \in SUBSET Nat, T # {}
  PROVE  Min(T) \in T /\ \A y \in T : Min(T) <= y
<1>1. \E x \in T : \A y \in T : x <= y
  BY LeastNumber
<1>2. QED
  BY <1>1 DEF Min

(* Max of a nonempty bounded set of natural numbers is its greatest member.*)
LEMMA MaxNumber ==
  ASSUME NEW T \in SUBSET Nat, T # {}, NEW n \in Nat, \A y \in T : y <= n
  PROVE  Max(T) \in T /\ \A y \in T : y <= Max(T)
<1> DEFINE U == {n - y : y \in T}
<1>1. U \in SUBSET Nat /\ U # {}
  <2>1. ASSUME NEW y \in T PROVE n - y \in Nat
    <3>1. y \in Nat /\ y <= n
      OBVIOUS
    <3>2. QED
      BY <3>1
  <2>2. QED
    BY <2>1
<1>2. PICK u \in U : \A w \in U : u <= w
  <2> HIDE DEF U
  <2>1. QED
    BY <1>1, LeastNumber
<1>3. PICK x \in T : u = n - x
  BY <1>2
<1>4. ASSUME NEW y \in T PROVE x >= y
  <2>1. n - y \in U
    OBVIOUS
  <2>2. n - x <= n - y
    BY <1>2, <1>3, <2>1
  <2>3. QED
    BY <2>2
<1>5. Max(T) \in T /\ \A y \in T : Max(T) >= y
  BY <1>4 DEF Max
<1>6. QED
  BY <1>5

(* What InsertAt returns: the elements before the place, the new one, and  *)
(* the others one place further.                                           *)
LEMMA InsertAtFacts ==
  ASSUME NEW S, NEW s \in Seq(S), NEW i \in 1..(Len(s) + 1), NEW e \in S
  PROVE  /\ InsertAt(s, i, e) \in Seq(S)
         /\ Len(InsertAt(s, i, e)) = Len(s) + 1
         /\ \A k \in 1..(Len(s) + 1) :
              InsertAt(s, i, e)[k] = IF k < i THEN s[k]
                                     ELSE IF k = i THEN e ELSE s[k - 1]
<1> DEFINE a == SubSeq(s, 1, i - 1)
           c == SubSeq(s, i, Len(s))
<1>1. Len(s) \in Nat /\ i \in Nat /\ i >= 1 /\ i <= Len(s) + 1
  OBVIOUS
<1>2. /\ a \in Seq(S) /\ Len(a) = i - 1
      /\ \A k \in 1..(i - 1) : a[k] = s[k]
  <2>1. \A k \in 1..(i - 1) : s[k] \in S
    BY <1>1, ElementOfSeq
  <2>2. QED
    BY <1>1, <2>1, SubSeqProperties
<1>3. /\ c \in Seq(S) /\ Len(c) = Len(s) + 1 - i
      /\ \A k \in 1..(Len(s) + 1 - i) : c[k] = s[i + k - 1]
  <2>1. \A k \in i..Len(s) : s[k] \in S
    BY <1>1, ElementOfSeq
  <2>2. QED
    BY <1>1, <2>1, SubSeqProperties
<1> HIDE DEF a, c
<1>4. <<e>> \in Seq(S) /\ Len(<<e>>) = 1 /\ <<e>>[1] = e
  OBVIOUS
<1>5. /\ a \o <<e>> \in Seq(S) /\ Len(a \o <<e>>) = i
      /\ \A k \in 1..i : (a \o <<e>>)[k] = IF k < i THEN s[k] ELSE e
  <2>1. /\ a \o <<e>> \in Seq(S)
        /\ Len(a \o <<e>>) = Len(a) + Len(<<e>>)
        /\ \A k \in 1..(Len(a) + Len(<<e>>)) : (a \o <<e>>)[k] =
             IF k <= Len(a) THEN a[k] ELSE <<e>>[k - Len(a)]
    BY <1>2, <1>4, ConcatProperties
  <2>2. QED
    BY <1>1, <1>2, <1>4, <2>1
<1> DEFINE ae == a \o <<e>>
<1>6. ae \in Seq(S) /\ Len(ae) = i
  BY <1>5
<1>7. \A k \in 1..i : ae[k] = IF k < i THEN s[k] ELSE e
  BY <1>5
<1>8. InsertAt(s, i, e) = ae \o c
  BY DEF InsertAt, a, c
<1> HIDE DEF ae
<1>9. /\ ae \o c \in Seq(S) /\ Len(ae \o c) = Len(ae) + Len(c)
      /\ \A k \in 1..(Len(ae) + Len(c)) : (ae \o c)[k] =
           IF k <= Len(ae) THEN ae[k] ELSE c[k - Len(ae)]
  BY <1>3, <1>6, ConcatProperties
<1>10. ASSUME NEW k \in 1..(Len(s) + 1)
       PROVE  (ae \o c)[k] = IF k < i THEN s[k]
                             ELSE IF k = i THEN e ELSE s[k - 1]
  <2>1. CASE k <= i
    BY <1>1, <1>3, <1>6, <1>7, <1>9, <2>1
  <2>2. CASE k > i
    <3>1. k - i \in 1..(Len(s) + 1 - i)
      BY <1>1, <2>2
    <3>2. c[k - i] = s[k - 1]
      BY <1>1, <1>3, <3>1
    <3>3. (ae \o c)[k] = c[k - i]
      BY <1>1, <1>3, <1>6, <1>9, <2>2
    <3>4. QED
      BY <1>1, <2>2, <3>2, <3>3
  <2>3. k <= i \/ k > i
    BY <1>1
  <2>4. QED
    BY <2>1, <2>2, <2>3
<1>11. QED
  BY <1>1, <1>3, <1>6, <1>8, <1>9, <1>10

(* What RemoveAt returns: the elements before the place, and those behind it*)
(* one place nearer.                                                       *)
LEMMA RemoveAtFacts ==
  ASSUME NEW S, NEW s \in Seq(S), NEW i \in 1..Len(s)
  PROVE  /\ RemoveAt(s, i) \in Seq(S)
         /\ Len(RemoveAt(s, i)) = Len(s) - 1
         /\ \A k \in 1..(Len(s) - 1) :
              RemoveAt(s, i)[k] = IF k < i THEN s[k] ELSE s[k + 1]
<1> DEFINE a == SubSeq(s, 1, i - 1)
           c == SubSeq(s, i + 1, Len(s))
<1>1. Len(s) \in Nat /\ i \in Nat /\ i >= 1 /\ i <= Len(s)
  OBVIOUS
<1>2. /\ a \in Seq(S) /\ Len(a) = i - 1
      /\ \A k \in 1..(i - 1) : a[k] = s[k]
  <2>1. \A k \in 1..(i - 1) : s[k] \in S
    BY <1>1, ElementOfSeq
  <2>2. QED
    BY <1>1, <2>1, SubSeqProperties
<1>3. /\ c \in Seq(S) /\ Len(c) = Len(s) - i
      /\ \A k \in 1..(Len(s) - i) : c[k] = s[i + k]
  <2>1. \A k \in (i + 1)..Len(s) : s[k] \in S
    BY <1>1, ElementOfSeq
  <2>2. /\ c \in Seq(S)
        /\ Len(c) = IF i + 1 <= Len(s) THEN Len(s) - (i + 1) + 1 ELSE 0
        /\ \A k \in 1..(Len(s) - (i + 1) + 1) : c[k] = s[(i + 1) + k - 1]
    BY <1>1, <2>1, SubSeqProperties
  <2> HIDE DEF c
  <2>3. QED
    BY <1>1, <2>2
<1> HIDE DEF a, c
<1>4. RemoveAt(s, i) = a \o c
  BY DEF RemoveAt, a, c
<1>5. /\ a \o c \in Seq(S) /\ Len(a \o c) = Len(a) + Len(c)
      /\ \A k \in 1..(Len(a) + Len(c)) : (a \o c)[k] =
           IF k <= Len(a) THEN a[k] ELSE c[k - Len(a)]
  BY <1>2, <1>3, ConcatProperties
<1>6. ASSUME NEW k \in 1..(Len(s) - 1)
      PROVE  (a \o c)[k] = IF k < i THEN s[k] ELSE s[k + 1]
  <2>1. CASE k < i
    BY <1>1, <1>2, <1>3, <1>5, <2>1
  <2>2. CASE k >= i
    <3>1. k - (i - 1) \in 1..(Len(s) - i)
      BY <1>1, <2>2
    <3>2. c[k - (i - 1)] = s[k + 1]
      BY <1>1, <1>3, <3>1
    <3>3. (a \o c)[k] = c[k - (i - 1)]
      BY <1>1, <1>2, <1>3, <1>5, <2>2
    <3>4. QED
      BY <1>1, <2>2, <3>2, <3>3
  <2>3. k < i \/ k >= i
    BY <1>1
  <2>4. QED
    BY <2>1, <2>2, <2>3
<1>7. QED
  BY <1>1, <1>2, <1>3, <1>4, <1>5, <1>6

(* A step for each number.                                                 *)
Steps(N, V) == [1..N -> [V -> V]]

(* g is the function on 0..N with this value at 0 and these steps.         *)
Recursive(g, N, V, a, F) ==
  /\ g \in [0..N -> V] /\ g[0] = a
  /\ \A k \in 1..N : g[k] = F[k][g[k - 1]]

(* A function on 0..N that is given by its value at 0 and by its steps     *)
(* exists.                                                                 *)
LEMMA RecursionExists ==
  ASSUME NEW N, N \in Nat, NEW V, NEW a, a \in V, NEW F, F \in Steps(N, V)
  PROVE  \E g : Recursive(g, N, V, a, F)
<1>0. F \in [1..N -> [V -> V]]
  BY DEF Steps
<1> DEFINE Solves(g, n) == Recursive(g, n, V, a, F)
           T == {n \in 0..N : ~ \E g : Solves(g, n)}
<1>1. T = {}
  <2> SUFFICES ASSUME T # {} PROVE FALSE
    OBVIOUS
  <2>1. T \in SUBSET Nat
    OBVIOUS
  <2>2. PICK n \in T : \A m \in T : n <= m
    <3> HIDE DEF T
    <3>1. QED
      BY <2>1, LeastNumber
  <2>3. n \in 0..N /\ ~ \E g : Solves(g, n)
    OBVIOUS
  <2>4. n # 0
    <3> DEFINE g0 == [k \in 0..0 |-> a]
    <3>1. Solves(g0, 0)
      BY DEF Recursive
    <3>2. QED
      BY <2>3, <3>1
  <2>5. n - 1 \in 0..N /\ n \in 1..N /\ ~(n <= n - 1)
    BY <2>3, <2>4
  <2>6. PICK g : Solves(g, n - 1)
    BY <2>2, <2>5
  <2> DEFINE e == [k \in 0..n |-> IF k = n THEN F[n][g[n - 1]] ELSE g[k]]
  <2>7. /\ g \in [0..(n - 1) -> V] /\ g[0] = a
        /\ \A k \in 1..(n - 1) : g[k] = F[k][g[k - 1]]
    BY <2>6 DEF Recursive
  <2>8. F[n][g[n - 1]] \in V /\ n - 1 \in 0..(n - 1)
    BY <1>0, <2>5, <2>7
  <2>9. \A k \in 0..(n - 1) : k \in 0..n /\ k # n /\ e[k] = g[k]
    BY <2>5
  <2>10. e[n] = F[n][g[n - 1]]
    BY <2>5
  <2>11. e \in [0..n -> V]
    BY <2>5, <2>7, <2>8
  <2> HIDE DEF e
  <2>12. e[0] = a
    BY <2>5, <2>7, <2>9
  <2>13. ASSUME NEW k \in 1..n PROVE e[k] = F[k][e[k - 1]]
    <3>1. CASE k = n
      BY <2>8, <2>9, <2>10, <3>1
    <3>2. CASE k # n
      <4>1. k \in 1..(n - 1) /\ k \in 0..(n - 1) /\ k - 1 \in 0..(n - 1)
        BY <2>5, <3>2
      <4>2. QED
        BY <2>7, <2>9, <4>1
    <3>3. QED
      BY <3>1, <3>2
  <2>14. Solves(e, n)
    BY <2>11, <2>12, <2>13 DEF Recursive
  <2>15. QED
    BY <2>3, <2>14
<1>2. N \in 0..N
  OBVIOUS
<1>3. \E g : Solves(g, N)
  BY <1>1, <1>2
<1>4. QED
  BY <1>3

-----------------------------------------------------------------------------

(* Entries with any number: while imakekeysfromdata fills an index, a number*)
(* may pass the bound that AddIndex then tests.                            *)
Slots == [k : Nat, d : Nat, r : Row]

(* Equal entries may be next to each other, or not.                        *)
Sorted(s) ==
  \A i, j \in DOMAIN s : i < j => ~Below(s[j], s[i].k, s[i].d)

Ascending(s) ==
  \A i, j \in DOMAIN s : i < j => Below(s[i], s[j].k, s[j].d)

(* An index with entries in E.                                             *)
Indexes(E) == [part : Parts, ents : Seq(E), missed : 0..MaxRow]

(* TypeOK, made inductive: rows behind the end of the file are not there.  *)
TypeInv ==
  /\ index \in Seq(Indexes(Entries))
  /\ data \in [Row -> Values \union {NoRow}]
  /\ count \in 0..MaxRow
  /\ failed \in 0..MaxFailed
  /\ {lost, crashed} \subseteq BOOLEAN
  /\ \A r \in Row : r > count => data[r] = NoRow

(* The entries of a unique index: sorted, without duplicate numbers, and   *)
(* none for two rows.                                                      *)
SameRow(s) ==
  /\ Sorted(s)
  /\ \A e \in Range(s) : e.d = 0
  /\ \A e, g \in Range(s) : e.k = g.k => e.r = g.r

(* The order in one index. An index with ISDUPS and NULLKEY has none that a*)
(* rewrite keeps.                                                          *)
Tidy(ix) ==
  /\ ix.part \notin IsDups => SameRow(ix.ents)
  /\ ix.part \in IsDups \ NullKey => Ascending(ix.ents)

TidyInv == \A i \in DOMAIN index : Tidy(index[i])

(* The index is that of a set of rows with these values: a row has at most *)
(* one entry; an entry is of one of the rows, has its key, and the key is  *)
(* not suppressed; and all other rows have an entry but the one that       *)
(* isaddindex missed.                                                      *)
Matches(ix, rows, vals) ==
  /\ \A i, j \in DOMAIN ix.ents : ix.ents[i].r = ix.ents[j].r => i = j
  /\ \A e \in Range(ix.ents) : /\ e.r \in rows
                               /\ e.k = vals[e.r][ix.part]
                               /\ ~Suppressed(ix.part, e.k)
  /\ \A r \in rows : \/ Suppressed(ix.part, vals[r][ix.part])
                     \/ r = ix.missed
                     \/ \E e \in Range(ix.ents) : e.r = r

(* The hypotheses are those of IndexesExact.                               *)
MatchInv == failed = 0 /\ ~lost =>
              \A i \in DOMAIN index : Matches(index[i], Live, data)

-----------------------------------------------------------------------------
(* Keys are numbers, the values of a row give a key for each index, and no *)
(* values are those of a deleted row.                                      *)
LEMMA ValFacts ==
  /\ Val \in SUBSET Nat
  /\ \A v \in Values, p \in Parts : v[p] \in Val
  /\ NoRow \notin Values
  /\ Entries \in SUBSET Slots
<1>1. Val \in SUBSET Nat
  <2>1. \A p \in Parts : 0..MaxVal[p] \in SUBSET Nat
    BY RowOpsAssumption
  <2>2. QED
    BY <2>1 DEF Val
<1>2. \A v \in Values, p \in Parts : v[p] \in Val
  BY DEF Values
<1>3. NoRow \notin Values
  <2>1. \A v \in Values : 1 \in DOMAIN v
    BY RowOpsAssumption DEF Values
  <2>2. DOMAIN NoRow = {}
    BY DEF NoRow
  <2>3. QED
    BY <2>1, <2>2
<1>4. 0..MaxDup \in SUBSET Nat
  BY RowOpsAssumption
<1>5. QED
  BY <1>1, <1>2, <1>3, <1>4 DEF Entries, Slots

(* A list of entries has places and entries at them.                       *)
LEMMA SlotFacts ==
  ASSUME NEW s \in Seq(Slots)
  PROVE  /\ Len(s) \in Nat /\ DOMAIN s = 1..Len(s)
         /\ \A i \in DOMAIN s : /\ s[i] \in Slots
                                /\ s[i].k \in Nat /\ s[i].d \in Nat
                                /\ s[i].r \in Row
<1>1. Len(s) \in Nat /\ DOMAIN s = 1..Len(s)
  OBVIOUS
<1>2. \A i \in 1..Len(s) : s[i] \in Slots
  BY ElementOfSeq
<1>3. QED
  BY <1>1, <1>2 DEF Slots

(* The place for a key is one in the list, or the one behind it.           *)
LEMMA PlaceRange ==
  ASSUME NEW s \in Seq(Slots), NEW k \in Nat, NEW d \in Nat
  PROVE  Place(s, k, d) \in 1..(Len(s) + 1)
<1> DEFINE B == {i \in DOMAIN s : Below(s[i], k, d)}
<1>1. Len(s) \in Nat /\ B \in SUBSET (1..Len(s))
  BY SlotFacts
<1>2. IsFiniteSet(1..Len(s)) /\ Cardinality(1..Len(s)) = Len(s)
  BY <1>1, FS_Interval
<1> HIDE DEF B
<1>3. IsFiniteSet(B) /\ Cardinality(B) <= Len(s)
  BY <1>1, <1>2, FS_Subset
<1>4. Cardinality(B) \in Nat
  BY <1>3, FS_CardinalityType
<1>5. Place(s, k, d) = 1 + Cardinality(B)
  BY DEF Place, B
<1>6. QED
  BY <1>1, <1>3, <1>4, <1>5

(* In a sorted list the place for a key divides the entries below it from  *)
(* the others.                                                             *)
LEMMA PlaceSplits ==
  ASSUME NEW s \in Seq(Slots), Sorted(s), NEW k \in Nat, NEW d \in Nat
  PROVE  \A i \in DOMAIN s : Below(s[i], k, d) <=> i < Place(s, k, d)
<1> DEFINE B == {i \in DOMAIN s : Below(s[i], k, d)}
<1>1. /\ Len(s) \in Nat /\ B \in SUBSET Nat /\ B \in SUBSET (1..Len(s))
      /\ DOMAIN s = 1..Len(s)
  BY SlotFacts
<1>2. ASSUME NEW i \in DOMAIN s, NEW j \in B, i < j PROVE i \in B
  <2>1. ~Below(s[j], s[i].k, s[i].d) /\ Below(s[j], k, d)
    BY <1>2 DEF Sorted
  <2>2. /\ s[i].k \in Nat /\ s[i].d \in Nat
        /\ s[j].k \in Nat /\ s[j].d \in Nat
    BY SlotFacts
  <2>3. Below(s[i], k, d)
    BY <2>1, <2>2 DEF Below
  <2>4. QED
    BY <2>3
<1>3. Place(s, k, d) = 1 + Cardinality(B)
  BY DEF Place
<1>4. \E m \in 0..Len(s) : B = 1..m
  <2>1. CASE B = {}
    BY <1>1, <2>1
  <2>2. CASE B # {}
    <3> DEFINE m == Max(B)
    <3>1. m \in B /\ \A j \in B : j <= m
      <4>1. \A j \in B : j <= Len(s)
        BY <1>1
      <4> HIDE DEF B
      <4>2. QED
        BY <1>1, <2>2, <4>1, MaxNumber
    <3> HIDE DEF m
    <3>2. \A i \in 1..m : i \in B
      <4> SUFFICES ASSUME NEW i \in 1..m PROVE i \in B
        OBVIOUS
      <4>1. CASE i = m
        BY <3>1, <4>1
      <4>2. CASE i # m
        BY <1>1, <1>2, <3>1, <4>2
      <4>3. QED
        BY <4>1, <4>2
    <3>3. B = 1..m
      BY <1>1, <3>1, <3>2
    <3>4. QED
      BY <1>1, <3>1, <3>3
  <2>3. QED
    BY <2>1, <2>2
<1>5. PICK m \in 0..Len(s) : B = 1..m
  BY <1>4
<1>6. Cardinality(1..m) = m
  BY <1>1, FS_Interval
<1>7. Place(s, k, d) = m + 1 /\ m \in Nat
  <2> HIDE DEF B
  <2>1. Cardinality(B) = m
    BY <1>5, <1>6
  <2>2. QED
    BY <1>1, <1>3, <1>5, <2>1
<1>8. \A i \in DOMAIN s : i \in B <=> i < m + 1
  BY <1>1, <1>5
<1>9. QED
  BY <1>7, <1>8

(* What InsertAt gives: the new member at its place, and each other at its *)
(* old place or the one behind.                                            *)
LEMMA InsertFacts ==
  ASSUME NEW E, NEW s \in Seq(E), NEW i \in 1..(Len(s) + 1), NEW e \in E
  PROVE  LET t == InsertAt(s, i, e)
             old(j) == IF j < i THEN j ELSE j - 1
         IN /\ t \in Seq(E) /\ Len(t) = Len(s) + 1
            /\ DOMAIN t = 1..(Len(s) + 1) /\ t[i] = e
            /\ \A j \in DOMAIN t : j # i =>
                 old(j) \in DOMAIN s /\ t[j] = s[old(j)]
            /\ Range(t) = Range(s) \union {e}
<1> DEFINE t == InsertAt(s, i, e)
           old(j) == IF j < i THEN j ELSE j - 1
<1>1. /\ t \in Seq(E) /\ Len(t) = Len(s) + 1
      /\ \A k \in 1..(Len(s) + 1) :
           t[k] = IF k < i THEN s[k] ELSE IF k = i THEN e ELSE s[k - 1]
  BY InsertAtFacts
<1> HIDE DEF t
<1>2. Len(s) \in Nat /\ DOMAIN s = 1..Len(s) /\ DOMAIN t = 1..(Len(s) + 1)
  BY <1>1
<1>3. t[i] = e
  BY <1>1
<1>4. \A j \in DOMAIN t : j # i => old(j) \in DOMAIN s /\ t[j] = s[old(j)]
  BY <1>1, <1>2
<1>5. Range(t) \subseteq Range(s) \union {e}
  BY <1>3, <1>4 DEF Range
<1>6. ASSUME NEW j \in DOMAIN s PROVE s[j] \in Range(t)
  <2>1. CASE j < i
    BY <1>1, <1>2, <2>1 DEF Range
  <2>2. CASE j >= i
    <3>1. j + 1 \in DOMAIN t /\ t[j + 1] = s[j]
      BY <1>1, <1>2, <2>2
    <3>2. QED
      BY <3>1 DEF Range
  <2>3. QED
    BY <1>2, <2>1, <2>2
<1>7. e \in Range(t)
  BY <1>2, <1>3 DEF Range
<1>8. Range(t) = Range(s) \union {e}
  BY <1>5, <1>6, <1>7 DEF Range
<1>9. QED
  BY <1>1, <1>2, <1>3, <1>4, <1>8 DEF t

(* What RemoveAt gives: all but the member at the place, and the list as it*)
(* was where the place is behind its end.                                  *)
LEMMA RemoveFacts ==
  ASSUME NEW E, NEW s \in Seq(E), NEW i \in 1..(Len(s) + 1)
  PROVE  LET t == RemoveAt(s, i)
             old(j) == IF j < i THEN j ELSE j + 1
         IN /\ t \in Seq(E)
            /\ \A j \in DOMAIN t : /\ old(j) \in DOMAIN s /\ old(j) # i
                                   /\ t[j] = s[old(j)]
            /\ \A j \in DOMAIN s : j # i => s[j] \in Range(t)
            /\ Range(t) \subseteq Range(s)
<1> DEFINE t == RemoveAt(s, i)
           old(j) == IF j < i THEN j ELSE j + 1
<1>1. Len(s) \in Nat /\ DOMAIN s = 1..Len(s)
  OBVIOUS
<1>2. CASE i <= Len(s)
  <2>1. /\ t \in Seq(E) /\ Len(t) = Len(s) - 1
        /\ \A k \in 1..(Len(s) - 1) :
             t[k] = IF k < i THEN s[k] ELSE s[k + 1]
    <3>1. i \in 1..Len(s)
      BY <1>1, <1>2
    <3>2. QED
      BY <3>1, RemoveAtFacts
  <2> HIDE DEF t
  <2>2. DOMAIN t = 1..(Len(s) - 1)
    BY <2>1
  <2>3. \A j \in DOMAIN t : /\ old(j) \in DOMAIN s /\ old(j) # i
                            /\ t[j] = s[old(j)]
    BY <1>1, <1>2, <2>1, <2>2
  <2>4. ASSUME NEW j \in DOMAIN s, j # i PROVE s[j] \in Range(t)
    <3>1. CASE j < i
      BY <1>1, <1>2, <2>1, <2>2, <3>1 DEF Range
    <3>2. CASE j > i
      <4>1. j - 1 \in DOMAIN t /\ t[j - 1] = s[j]
        BY <1>1, <1>2, <2>1, <2>2, <3>2
      <4>2. QED
        BY <4>1 DEF Range
    <3>3. QED
      BY <1>1, <2>4, <3>1, <3>2
  <2>5. Range(t) \subseteq Range(s)
    BY <2>3 DEF Range
  <2>6. QED
    BY <2>1, <2>3, <2>4, <2>5 DEF t
<1>3. CASE i = Len(s) + 1
  <2>1. t = s
    <3>1. SubSeq(s, 1, i - 1) = s
      BY <1>1, <1>3, SubSeqFull
    <3>2. SubSeq(s, i + 1, Len(s)) = <<>>
      BY <1>1, <1>3, SubSeqEmpty
    <3>3. s \o <<>> = s
      BY ConcatEmptySeq
    <3>4. QED
      BY <3>1, <3>2, <3>3 DEF RemoveAt
  <2>2. \A j \in DOMAIN s : old(j) = j /\ j # i
    BY <1>1, <1>3
  <2>3. QED
    BY <2>1, <2>2 DEF Range
<1>4. QED
  BY <1>1, <1>2, <1>3

(* An insertion at the place for the key keeps the list sorted.            *)
LEMMA InsertSorted ==
  ASSUME NEW s \in Seq(Slots), Sorted(s), NEW k \in Nat, NEW d \in Nat,
         NEW r \in Row
  PROVE  Sorted(InsertAt(s, Place(s, k, d), Entry(k, d, r)))
<1> DEFINE p == Place(s, k, d)
           e == Entry(k, d, r)
           t == InsertAt(s, p, e)
           old(j) == IF j < p THEN j ELSE j - 1
<1>1. p \in 1..(Len(s) + 1)
  BY PlaceRange
<1>2. e \in Slots /\ e.k = k /\ e.d = d
  BY DEF Entry, Slots
<1>3. \A i \in DOMAIN s : Below(s[i], k, d) <=> i < p
  BY PlaceSplits
<1> HIDE DEF p, e
<1>4. /\ DOMAIN t = 1..(Len(s) + 1) /\ t[p] = e
      /\ \A j \in DOMAIN t : j # p => old(j) \in DOMAIN s /\ t[j] = s[old(j)]
  BY <1>1, <1>2, InsertFacts
<1> HIDE DEF t
<1>5. ASSUME NEW i \in DOMAIN t, NEW j \in DOMAIN t, i < j
      PROVE  ~Below(t[j], t[i].k, t[i].d)
  <2>0. i \in Nat /\ j \in Nat /\ p \in Nat
    BY <1>1, <1>4, SlotFacts
  <2>1. CASE i = p
    <3>1. old(j) \in DOMAIN s /\ t[j] = s[old(j)] /\ ~(old(j) < p)
      BY <1>4, <1>5, <2>0, <2>1
    <3>2. ~Below(s[old(j)], k, d)
      BY <1>3, <3>1
    <3>3. QED
      BY <1>2, <1>4, <2>1, <3>1, <3>2
  <2>2. CASE j = p
    <3>1. i \in DOMAIN s /\ t[i] = s[i] /\ i < p
      BY <1>4, <1>5, <2>0, <2>2
    <3>2. Below(s[i], k, d)
      BY <1>3, <3>1
    <3>3. s[i].k \in Nat /\ s[i].d \in Nat
      BY <3>1, SlotFacts
    <3>4. ~Below(e, s[i].k, s[i].d)
      BY <1>2, <3>2, <3>3 DEF Below
    <3>5. QED
      BY <1>4, <2>2, <3>1, <3>4
  <2>3. CASE i # p /\ j # p
    <3>1. /\ old(i) \in DOMAIN s /\ t[i] = s[old(i)]
          /\ old(j) \in DOMAIN s /\ t[j] = s[old(j)]
      BY <1>4, <2>3
    <3>2. old(i) < old(j)
      BY <1>5, <2>0, <2>3
    <3>3. ~Below(s[old(j)], s[old(i)].k, s[old(i)].d)
      BY <3>1, <3>2 DEF Sorted
    <3>4. QED
      BY <3>1, <3>3
  <2>4. QED
    BY <2>1, <2>2, <2>3
<1>6. QED
  BY <1>5 DEF Sorted, t, p, e

(* A list without equals that is ascending is sorted.                      *)
LEMMA AscendingSorted ==
  ASSUME NEW s \in Seq(Slots), Ascending(s)
  PROVE  Sorted(s)
<1>1. ASSUME NEW i \in DOMAIN s, NEW j \in DOMAIN s, i < j
      PROVE  ~Below(s[j], s[i].k, s[i].d)
  <2>1. Below(s[i], s[j].k, s[j].d)
    BY <1>1 DEF Ascending
  <2>2. /\ s[i].k \in Nat /\ s[i].d \in Nat
        /\ s[j].k \in Nat /\ s[j].d \in Nat
    BY SlotFacts
  <2>3. QED
    BY <2>1, <2>2 DEF Below
<1>2. QED
  BY <1>1 DEF Sorted

(* An insertion of a duplicate with a number of its own keeps the list     *)
(* ascending.                                                              *)
LEMMA InsertAscending ==
  ASSUME NEW s \in Seq(Slots), Ascending(s), NEW k \in Nat, NEW d \in Nat,
         NEW r \in Row, \A e \in Range(s) : e.k = k => e.d # d
  PROVE  Ascending(InsertAt(s, Place(s, k, d), Entry(k, d, r)))
<1> DEFINE p == Place(s, k, d)
           e == Entry(k, d, r)
           t == InsertAt(s, p, e)
           old(j) == IF j < p THEN j ELSE j - 1
<1>1. p \in 1..(Len(s) + 1)
  BY PlaceRange
<1>2. e \in Slots /\ e.k = k /\ e.d = d
  BY DEF Entry, Slots
<1>3. \A i \in DOMAIN s : Below(s[i], k, d) <=> i < p
  BY AscendingSorted, PlaceSplits
<1> HIDE DEF p, e
<1>4. /\ DOMAIN t = 1..(Len(s) + 1) /\ t[p] = e
      /\ \A j \in DOMAIN t : j # p => old(j) \in DOMAIN s /\ t[j] = s[old(j)]
  BY <1>1, <1>2, InsertFacts
<1> HIDE DEF t
<1>5. ASSUME NEW i \in DOMAIN t, NEW j \in DOMAIN t, i < j
      PROVE  Below(t[i], t[j].k, t[j].d)
  <2>0. i \in Nat /\ j \in Nat /\ p \in Nat
    BY <1>1, <1>4, SlotFacts
  <2>1. CASE i = p
    <3>1. old(j) \in DOMAIN s /\ t[j] = s[old(j)] /\ ~(old(j) < p)
      BY <1>4, <1>5, <2>0, <2>1
    <3>2. ~Below(s[old(j)], k, d)
      BY <1>3, <3>1
    <3>3. /\ s[old(j)].k \in Nat /\ s[old(j)].d \in Nat
          /\ s[old(j)] \in Range(s)
      BY <3>1, SlotFacts DEF Range
    <3>4. s[old(j)].k = k => s[old(j)].d # d
      BY <3>3
    <3>5. Below(e, s[old(j)].k, s[old(j)].d)
      BY <1>2, <3>2, <3>3, <3>4 DEF Below
    <3>6. QED
      BY <1>4, <2>1, <3>1, <3>5
  <2>2. CASE j = p
    <3>1. i \in DOMAIN s /\ t[i] = s[i] /\ i < p
      BY <1>4, <1>5, <2>0, <2>2
    <3>2. Below(s[i], k, d)
      BY <1>3, <3>1
    <3>3. QED
      BY <1>2, <1>4, <2>2, <3>1, <3>2
  <2>3. CASE i # p /\ j # p
    <3>1. /\ old(i) \in DOMAIN s /\ t[i] = s[old(i)]
          /\ old(j) \in DOMAIN s /\ t[j] = s[old(j)]
      BY <1>4, <2>3
    <3>2. old(i) < old(j)
      BY <1>5, <2>0, <2>3
    <3>3. Below(s[old(i)], s[old(j)].k, s[old(j)].d)
      BY <3>1, <3>2 DEF Ascending
    <3>4. QED
      BY <3>1, <3>3
  <2>4. QED
    BY <2>1, <2>2, <2>3
<1>6. QED
  BY <1>5 DEF Ascending, t, p, e

(* A removal keeps the order.                                              *)
LEMMA RemoveSorted ==
  ASSUME NEW s \in Seq(Slots), NEW i \in 1..(Len(s) + 1)
  PROVE  /\ Sorted(s) => Sorted(RemoveAt(s, i))
         /\ Ascending(s) => Ascending(RemoveAt(s, i))
<1> DEFINE t == RemoveAt(s, i)
           old(j) == IF j < i THEN j ELSE j + 1
<1>1. \A j \in DOMAIN t : old(j) \in DOMAIN s /\ t[j] = s[old(j)]
  BY RemoveFacts
<1>2. t \in Seq(Slots)
  BY RemoveFacts
<1> HIDE DEF t
<1>3. \A j, k \in DOMAIN t : j < k => old(j) < old(k)
  BY <1>2, SlotFacts
<1> HIDE DEF old
<1>4. Sorted(s) => Sorted(t)
  BY <1>1, <1>3 DEF Sorted
<1>5. Ascending(s) => Ascending(t)
  BY <1>1, <1>3 DEF Ascending
<1>6. QED
  BY <1>4, <1>5 DEF t

(* A duplicate number is a number, and 0 where the key is not there.       *)
LEMMA NumberRange ==
  ASSUME NEW s \in Seq(Slots), NEW k \in Nat, NEW i \in 1..(Len(s) + 1)
  PROVE  /\ NumberFromLast(s, k, i) \in Nat
         /\ \/ NumberFromLast(s, k, i) = 0
            \/ \E e \in Range(s) : e.k = k
<1>1. CASE i > 1 /\ s[i - 1].k = k
  <2>1. i - 1 \in DOMAIN s
    BY <1>1, SlotFacts
  <2>2. s[i - 1] \in Range(s) /\ s[i - 1].d \in Nat
    BY <2>1, SlotFacts DEF Range
  <2>3. QED
    BY <1>1, <2>2 DEF NumberFromLast
<1>2. CASE ~(i > 1 /\ s[i - 1].k = k)
  BY <1>2 DEF NumberFromLast
<1>3. QED
  BY <1>1, <1>2

(* The same of the number a search for the last duplicate gives.           *)
LEMMA TdupnumberRange ==
  ASSUME NEW s \in Seq(Slots), NEW k \in Nat
  PROVE  /\ tdupnumber(s, k) \in Nat
         /\ tdupnumber(s, k) = 0 \/ \E e \in Range(s) : e.k = k
<1>1. MaxDup + 1 \in Nat
  BY RowOpsAssumption
<1>2. Place(s, k, MaxDup + 1) \in 1..(Len(s) + 1)
  BY <1>1, PlaceRange
<1>3. QED
  BY <1>2, NumberRange DEF tdupnumber

(* The number for a new duplicate is above those of the others.            *)
LEMMA NewestNumber ==
  ASSUME NEW s \in Seq(Slots), Sorted(s), \A e \in Range(s) : e.d <= MaxDup,
         NEW k \in Nat
  PROVE  \A e \in Range(s) : e.k = k => e.d < tdupnumber(s, k)
<1> DEFINE p == Place(s, k, MaxDup + 1)
<1>1. MaxDup \in Nat /\ MaxDup + 1 \in Nat
  BY RowOpsAssumption
<1>2. p \in 1..(Len(s) + 1)
  BY <1>1, PlaceRange
<1>3. \A i \in DOMAIN s : Below(s[i], k, MaxDup + 1) <=> i < p
  BY <1>1, PlaceSplits
<1>4. tdupnumber(s, k) = NumberFromLast(s, k, p)
  BY DEF tdupnumber
<1> HIDE DEF p
<1>5. ASSUME NEW j \in DOMAIN s, s[j].k = k
      PROVE  s[j].d < tdupnumber(s, k)
  <2>1. s[j] \in Range(s)
    BY DEF Range
  <2>2. s[j].d <= MaxDup /\ s[j].d \in Nat /\ j \in Nat
    BY <2>1, SlotFacts
  <2>3. Below(s[j], k, MaxDup + 1)
    BY <1>1, <1>5, <2>2 DEF Below
  <2>4. j < p
    BY <1>3, <2>3
  <2>5. p - 1 \in DOMAIN s /\ p > 1 /\ j <= p - 1 /\ p - 1 < p /\ p \in Nat
    BY <1>2, <2>2, <2>4, SlotFacts
  <2>6. Below(s[p - 1], k, MaxDup + 1)
    BY <1>3, <2>5
  <2>7. s[p - 1].k \in Nat /\ s[p - 1].d \in Nat
    BY <2>5, SlotFacts
  <2>8. j = p - 1 \/ ~Below(s[p - 1], k, s[j].d)
    BY <1>5, <2>2, <2>5 DEF Sorted
  <2>9. s[p - 1].k = k /\ s[j].d <= s[p - 1].d
    BY <1>1, <1>5, <2>2, <2>3, <2>6, <2>7, <2>8 DEF Below
  <2>10. tdupnumber(s, k) = s[p - 1].d + 1
    BY <1>4, <2>5, <2>9 DEF NumberFromLast
  <2>11. QED
    BY <2>2, <2>7, <2>9, <2>10
<1>6. QED
  BY <1>5 DEF Range

-----------------------------------------------------------------------------
(* What ivbkeyinsert does to an index where the key is not suppressed.     *)
LEMMA InsertResult ==
  ASSUME NEW E \in SUBSET Slots, NEW ix \in Indexes(E), NEW k \in Nat,
         NEW d \in Nat, NEW r \in Row, Entry(k, d, r) \in E,
         ~Suppressed(ix.part, k)
  PROVE  /\ ivbkeyinsert(ix, k, d, r) \in Indexes(E)
         /\ ivbkeyinsert(ix, k, d, r).part = ix.part
         /\ ivbkeyinsert(ix, k, d, r).missed = ix.missed
         /\ ivbkeyinsert(ix, k, d, r).ents =
              InsertAt(ix.ents, Place(ix.ents, k, d), Entry(k, d, r))
         /\ ix.ents \in Seq(Slots) /\ ix.ents \in Seq(E)
         /\ Place(ix.ents, k, d) \in 1..(Len(ix.ents) + 1)
<1> DEFINE t == InsertAt(ix.ents, Place(ix.ents, k, d), Entry(k, d, r))
<1>1. ix.ents \in Seq(E) /\ ix.part \in Parts /\ ix.missed \in 0..MaxRow
  BY DEF Indexes
<1>2. ix.ents \in Seq(Slots)
  BY <1>1, SeqMonotonic
<1>3. Place(ix.ents, k, d) \in 1..(Len(ix.ents) + 1)
  BY <1>2, PlaceRange
<1>4. t \in Seq(E)
  BY <1>1, <1>3, InsertFacts
<1>5. ivbkeyinsert(ix, k, d, r) = [ix EXCEPT !.ents = t]
  BY DEF ivbkeyinsert, t
<1> HIDE DEF t
<1>6. /\ [ix EXCEPT !.ents = t] \in Indexes(E)
      /\ [ix EXCEPT !.ents = t].part = ix.part
      /\ [ix EXCEPT !.ents = t].missed = ix.missed
      /\ [ix EXCEPT !.ents = t].ents = t
  BY <1>4 DEF Indexes
<1>7. QED
  BY <1>1, <1>2, <1>3, <1>5, <1>6 DEF t

(* It keeps the types, suppressed or not.                                  *)
LEMMA InsertKept ==
  ASSUME NEW E \in SUBSET Slots, NEW ix \in Indexes(E), NEW k \in Nat,
         NEW d \in Nat, NEW r \in Row, Entry(k, d, r) \in E
  PROVE  /\ ivbkeyinsert(ix, k, d, r) \in Indexes(E)
         /\ ivbkeyinsert(ix, k, d, r).part = ix.part
         /\ ivbkeyinsert(ix, k, d, r).missed = ix.missed
<1>1. CASE Suppressed(ix.part, k)
  BY <1>1 DEF ivbkeyinsert
<1>2. CASE ~Suppressed(ix.part, k)
  BY <1>2, InsertResult
<1>3. QED
  BY <1>1, <1>2

(* A removal keeps the types.                                              *)
LEMMA RemoveKept ==
  ASSUME NEW ix \in Indexes(Entries), NEW i \in 1..(Len(ix.ents) + 1)
  PROVE  LET gone == [ix EXCEPT !.ents = RemoveAt(@, i)]
         IN /\ gone \in Indexes(Entries)
            /\ gone.part = ix.part /\ gone.missed = ix.missed
            /\ gone.ents = RemoveAt(ix.ents, i)
            /\ ix.ents \in Seq(Slots)
<1> DEFINE t == RemoveAt(ix.ents, i)
<1>1. ix.ents \in Seq(Entries)
  BY DEF Indexes
<1>2. ix.ents \in Seq(Slots)
  BY <1>1, ValFacts, SeqMonotonic
<1>3. t \in Seq(Entries)
  BY <1>1, RemoveFacts
<1> HIDE DEF t
<1>4. /\ [ix EXCEPT !.ents = t] \in Indexes(Entries)
      /\ [ix EXCEPT !.ents = t].part = ix.part
      /\ [ix EXCEPT !.ents = t].missed = ix.missed
      /\ [ix EXCEPT !.ents = t].ents = t
  BY <1>3 DEF Indexes
<1>5. QED
  BY <1>2, <1>4 DEF t

(* A removal keeps an index tidy.                                          *)
LEMMA RemoveTidy ==
  ASSUME NEW ix \in Indexes(Entries), NEW i \in 1..(Len(ix.ents) + 1),
         Tidy(ix)
  PROVE  Tidy([ix EXCEPT !.ents = RemoveAt(@, i)])
<1> DEFINE gone == [ix EXCEPT !.ents = RemoveAt(@, i)]
<1>1. /\ gone.part = ix.part /\ gone.ents = RemoveAt(ix.ents, i)
      /\ ix.ents \in Seq(Slots)
  BY RemoveKept
<1> HIDE DEF gone
<1>2. /\ Sorted(ix.ents) => Sorted(gone.ents)
      /\ Ascending(ix.ents) => Ascending(gone.ents)
  BY <1>1, RemoveSorted
<1>3. Range(gone.ents) \subseteq Range(ix.ents)
  BY <1>1, RemoveFacts
<1>4. QED
  BY <1>1, <1>2, <1>3 DEF Tidy, SameRow, gone

(* So does an insertion of a key that is not there in an index without     *)
(* duplicates, and with a number above the others in one with them.        *)
LEMMA InsertTidy ==
  ASSUME NEW ix \in Indexes(Entries), Tidy(ix), NEW k \in Val,
         NEW d \in 0..MaxDup, NEW r \in Row,
         ix.part \notin IsDups =>
           d = 0 /\ \A e \in Range(ix.ents) : e.k = k => e.r = r,
         ix.part \in IsDups \ NullKey =>
           \A e \in Range(ix.ents) : e.k = k => e.d < d
  PROVE  Tidy(ivbkeyinsert(ix, k, d, r))
<1>1. CASE Suppressed(ix.part, k)
  BY <1>1 DEF ivbkeyinsert
<1>2. CASE ~Suppressed(ix.part, k)
  <2> DEFINE new == ivbkeyinsert(ix, k, d, r)
             e0  == Entry(k, d, r)
  <2>1. k \in Nat /\ d \in Nat /\ Entries \in SUBSET Slots
    BY ValFacts, RowOpsAssumption
  <2>2. e0 \in Entries /\ e0.k = k /\ e0.d = d /\ e0.r = r
    BY DEF Entry, Entries
  <2>3. /\ new.part = ix.part /\ ix.ents \in Seq(Slots)
        /\ new.ents = InsertAt(ix.ents, Place(ix.ents, k, d), e0)
        /\ Place(ix.ents, k, d) \in 1..(Len(ix.ents) + 1)
    BY <1>2, <2>1, <2>2, InsertResult
  <2>4. Range(new.ents) = Range(ix.ents) \union {e0}
    <3>1. e0 \in Slots
      BY <2>1, <2>2
    <3> HIDE DEF new, e0
    <3>2. QED
      BY <2>3, <3>1, InsertFacts
  <2>5. CASE ix.part \notin IsDups
    <3>1. Sorted(new.ents)
      BY <2>1, <2>3, <2>5, InsertSorted DEF Tidy, SameRow
    <3> HIDE DEF new, e0
    <3>2. SameRow(ix.ents)
      BY <2>5 DEF Tidy
    <3>3. \A e \in Range(new.ents) : e.d = 0
      BY <2>2, <2>4, <2>5, <3>2 DEF SameRow
    <3>4. \A e, g \in Range(new.ents) : e.k = g.k => e.r = g.r
      BY <2>2, <2>4, <2>5, <3>2 DEF SameRow
    <3>5. QED
      BY <2>3, <2>5, <3>1, <3>3, <3>4 DEF Tidy, SameRow, new
  <2>6. CASE ix.part \in IsDups \ NullKey
    <3>1. Ascending(ix.ents)
      BY <2>6 DEF Tidy
    <3>2. \A e \in Range(ix.ents) : e.k = k => e.d # d
      BY <2>1, <2>6
    <3>3. Ascending(new.ents)
      BY <2>1, <2>3, <3>1, <3>2, InsertAscending
    <3>4. QED
      BY <2>3, <2>6, <3>3 DEF Tidy
  <2>7. CASE ix.part \in IsDups /\ ix.part \in NullKey
    BY <2>3, <2>7 DEF Tidy
  <2>8. QED
    BY <2>5, <2>6, <2>7
<1>3. QED
  BY <1>1, <1>2

(* An index is about the keys of its part only.                            *)
LEMMA MatchesSame ==
  ASSUME NEW ix, NEW rows, NEW vals, NEW vals2, Matches(ix, rows, vals),
         \A x \in rows : vals2[x][ix.part] = vals[x][ix.part]
  PROVE  Matches(ix, rows, vals2)
<1>1. QED
  BY DEF Matches

(* An index without the entry of a row is the index of the other rows, and *)
(* has no entry of that one.                                               *)
LEMMA RemoveMatches ==
  ASSUME NEW ix \in Indexes(Entries), NEW i \in DOMAIN ix.ents, NEW rows,
         NEW vals, Matches(ix, rows, vals)
  PROVE  LET gone == [ix EXCEPT !.ents = RemoveAt(@, i)]
         IN /\ Matches(gone, rows \ {ix.ents[i].r}, vals)
            /\ \A e \in Range(gone.ents) : e.r # ix.ents[i].r
<1> DEFINE gone == [ix EXCEPT !.ents = RemoveAt(@, i)]
           r    == ix.ents[i].r
           old(j) == IF j < i THEN j ELSE j + 1
<1>1. ix.ents \in Seq(Entries)
  BY DEF Indexes
<1>2. i \in 1..(Len(ix.ents) + 1) /\ i \in Nat
  BY <1>1
<1>3. /\ gone.part = ix.part /\ gone.missed = ix.missed
      /\ gone.ents = RemoveAt(ix.ents, i)
  BY <1>2, RemoveKept
<1> HIDE DEF gone
<1>4. /\ gone.ents \in Seq(Entries)
      /\ \A j \in DOMAIN gone.ents : /\ old(j) \in DOMAIN ix.ents /\ old(j) # i
                                     /\ gone.ents[j] = ix.ents[old(j)]
      /\ \A j \in DOMAIN ix.ents : j # i => ix.ents[j] \in Range(gone.ents)
      /\ Range(gone.ents) \subseteq Range(ix.ents)
  BY <1>1, <1>2, <1>3, RemoveFacts
<1>5. \A j, k \in DOMAIN gone.ents : old(j) = old(k) => j = k
  BY <1>2, <1>4
<1> HIDE DEF old
<1>6. \A j, k \in DOMAIN gone.ents :
        gone.ents[j].r = gone.ents[k].r => j = k
  BY <1>4, <1>5 DEF Matches
<1>7. \A e \in Range(gone.ents) : e.r # r
  <2>1. \A j \in DOMAIN gone.ents : gone.ents[j].r # r
    BY <1>4 DEF Matches
  <2>2. QED
    BY <2>1 DEF Range
<1>8. \A e \in Range(gone.ents) : /\ e.r \in rows \ {r}
                                  /\ e.k = vals[e.r][ix.part]
                                  /\ ~Suppressed(ix.part, e.k)
  BY <1>4, <1>7 DEF Matches
<1>9. ASSUME NEW x \in rows \ {r}
      PROVE  \/ Suppressed(ix.part, vals[x][ix.part])
             \/ x = ix.missed
             \/ \E e \in Range(gone.ents) : e.r = x
  <2>1. CASE \E e \in Range(ix.ents) : e.r = x
    <3>1. PICK j \in DOMAIN ix.ents : ix.ents[j].r = x
      BY <2>1 DEF Range
    <3>2. j # i
      BY <3>1
    <3>3. QED
      BY <1>4, <3>1, <3>2
  <2>2. QED
    BY <2>1 DEF Matches
<1>10. QED
  BY <1>3, <1>6, <1>7, <1>8, <1>9 DEF Matches, gone

(* A row without an entry may go without the index changing.               *)
LEMMA AbsentMatches ==
  ASSUME NEW ix, NEW rows, NEW vals, Matches(ix, rows, vals), NEW r,
         \A e \in Range(ix.ents) : e.r # r
  PROVE  Matches(ix, rows \ {r}, vals)
<1>1. QED
  BY DEF Matches

(* An insertion makes an index of one row more.                            *)
LEMMA InsertMatches ==
  ASSUME NEW E \in SUBSET Slots, NEW ix \in Indexes(E), NEW k \in Nat,
         NEW d \in Nat, NEW r \in Row, Entry(k, d, r) \in E,
         NEW rows, NEW vals, NEW vals2, Matches(ix, rows, vals),
         r \notin rows, vals2[r][ix.part] = k,
         \A x \in rows : vals2[x][ix.part] = vals[x][ix.part]
  PROVE  Matches(ivbkeyinsert(ix, k, d, r), rows \union {r}, vals2)
<1>0. Matches(ix, rows, vals2)
  BY MatchesSame
<1>1. CASE Suppressed(ix.part, k)
  BY <1>0, <1>1 DEF ivbkeyinsert, Matches
<1>2. CASE ~Suppressed(ix.part, k)
  <2> DEFINE new == ivbkeyinsert(ix, k, d, r)
             e0  == Entry(k, d, r)
             p   == Place(ix.ents, k, d)
             old(j) == IF j < p THEN j ELSE j - 1
  <2>1. e0 \in E /\ e0.k = k /\ e0.r = r
    BY DEF Entry
  <2>2. /\ new.part = ix.part /\ new.missed = ix.missed
        /\ ix.ents \in Seq(E)
        /\ new.ents = InsertAt(ix.ents, p, e0)
        /\ p \in 1..(Len(ix.ents) + 1)
    BY <1>2, InsertResult
  <2> HIDE DEF new, e0, p
  <2>3. /\ DOMAIN new.ents = 1..(Len(ix.ents) + 1) /\ new.ents[p] = e0
        /\ \A j \in DOMAIN new.ents : j # p =>
             old(j) \in DOMAIN ix.ents /\ new.ents[j] = ix.ents[old(j)]
        /\ Range(new.ents) = Range(ix.ents) \union {e0}
    BY <2>1, <2>2, InsertFacts
  <2>4. \A i, j \in DOMAIN new.ents :
          i # p /\ j # p /\ old(i) = old(j) => i = j
    BY <2>2, <2>3
  <2> HIDE DEF old
  <2>5. \A j \in DOMAIN ix.ents : ix.ents[j].r # r
    BY <1>0 DEF Matches, Range
  <2>6. \A i, j \in DOMAIN new.ents :
          new.ents[i].r = new.ents[j].r => i = j
    BY <1>0, <2>1, <2>3, <2>4, <2>5 DEF Matches
  <2>7. \A e \in Range(new.ents) : /\ e.r \in rows \union {r}
                                   /\ e.k = vals2[e.r][ix.part]
                                   /\ ~Suppressed(ix.part, e.k)
    BY <1>0, <1>2, <2>1, <2>3 DEF Matches
  <2>8. \A x \in rows \union {r} :
          \/ Suppressed(ix.part, vals2[x][ix.part])
          \/ x = ix.missed
          \/ \E e \in Range(new.ents) : e.r = x
    BY <1>0, <2>1, <2>3 DEF Matches
  <2>9. QED
    BY <2>2, <2>6, <2>7, <2>8 DEF Matches, new
<1>3. QED
  BY <1>1, <1>2

-----------------------------------------------------------------------------
(* A function over the places of a list is a list.                         *)
LEMMA SameDomain ==
  ASSUME NEW S, NEW s \in Seq(S), NEW t, t = [i \in DOMAIN s |-> t[i]],
         \A i \in DOMAIN s : t[i] \in S
  PROVE  t \in Seq(S) /\ DOMAIN t = DOMAIN s
<1>1. Len(s) \in Nat /\ DOMAIN s = 1..Len(s)
  OBVIOUS
<1>2. t \in [1..Len(s) -> S]
  BY <1>1
<1>3. QED
  BY <1>1, <1>2, IsASeq

(* Each index of a state has its types.                                    *)
LEMMA IndexFacts ==
  ASSUME TypeInv, NEW i \in DOMAIN index
  PROVE  /\ index[i] \in Indexes(Entries) /\ index[i].part \in Parts
         /\ index[i].ents \in Seq(Entries) /\ index[i].ents \in Seq(Slots)
         /\ \A e \in Range(index[i].ents) :
              /\ e \in Entries /\ e.k \in Nat /\ e.d \in Nat /\ e.d <= MaxDup
              /\ e.r \in Row
<1>1. index \in Seq(Indexes(Entries)) /\ i \in 1..Len(index)
  BY DEF TypeInv
<1>2. index[i] \in Indexes(Entries)
  BY <1>1, ElementOfSeq
<1>3. index[i].part \in Parts /\ index[i].ents \in Seq(Entries)
  BY <1>2 DEF Indexes
<1>4. index[i].ents \in Seq(Slots)
  BY <1>3, ValFacts, SeqMonotonic
<1>5. ASSUME NEW e \in Range(index[i].ents)
      PROVE  /\ e \in Entries /\ e.k \in Nat /\ e.d \in Nat /\ e.d <= MaxDup
             /\ e.r \in Row
  <2>1. PICK j \in DOMAIN index[i].ents : e = index[i].ents[j]
    BY DEF Range
  <2>2. e \in Entries
    BY <1>3, <2>1, ElementOfSeq
  <2>3. e.k \in Val /\ e.d \in 0..MaxDup /\ e.r \in Row
    BY <2>2 DEF Entries
  <2>4. e.k \in Nat
    BY <2>3, ValFacts
  <2>5. e.d \in Nat /\ e.d <= MaxDup
    BY <2>3, RowOpsAssumption
  <2>6. QED
    BY <2>2, <2>3, <2>4, <2>5
<1>6. QED
  BY <1>2, <1>3, <1>4, <1>5

(* An entry is made of a key, a number and a row.                          *)
LEMMA EntryTyped ==
  ASSUME NEW k \in Val, NEW d \in 0..MaxDup, NEW r \in Row
  PROVE  /\ Entry(k, d, r) \in Entries /\ k \in Nat /\ d \in Nat
         /\ Entries \in SUBSET Slots
<1>1. QED
  BY ValFacts, RowOpsAssumption DEF Entry, Entries

(* The loop of irowinsert leaves each index of its type and tidy, wherever *)
(* it stops, and inserts the key if nothing fails.                         *)
LEMMA InsertIndex ==
  ASSUME TypeInv, TidyInv, NEW v \in Values, NEW r \in Row, NEW f,
         ~EDUPL(v), NumbersFit(v), NEW i \in DOMAIN index
  PROVE  LET p == index[i].part
             d == tdupnumber(index[i].ents, v[p])
             new == irowinsert(v, r, f)[i]
         IN /\ new \in Indexes(Entries) /\ Tidy(new)
            /\ v[p] \in Val /\ d \in 0..MaxDup
            /\ f = NoFault => new = ivbkeyinsert(index[i], v[p], d, r)
<1> DEFINE p == index[i].part
           s == index[i].ents
           k == v[p]
           d == tdupnumber(s, k)
<1>1. /\ index[i] \in Indexes(Entries) /\ p \in Parts /\ s \in Seq(Slots)
      /\ \A e \in Range(s) : e.k \in Nat /\ e.d \in Nat /\ e.d <= MaxDup
  BY IndexFacts
<1>2. k \in Val /\ k \in Nat
  BY <1>1, ValFacts
<1>3. d \in 0..MaxDup
  <2>1. d \in Nat
    BY <1>1, <1>2, TdupnumberRange
  <2>2. d <= MaxDup
    BY DEF NumbersFit
  <2>3. QED
    BY <2>1, <2>2, RowOpsAssumption
<1>4. Tidy(index[i])
  BY DEF TidyInv
<1>5. p \notin IsDups =>
        d = 0 /\ \A e \in Range(s) : e.k = k => e.r = r
  <2>1. p \notin IsDups => \A e \in Range(s) : e.k # k
    BY DEF EDUPL
  <2>2. d = 0 \/ \E e \in Range(s) : e.k = k
    BY <1>1, <1>2, TdupnumberRange
  <2>3. QED
    BY <2>1, <2>2
<1>6. p \in IsDups \ NullKey => \A e \in Range(s) : e.k = k => e.d < d
  <2>1. ASSUME p \in IsDups \ NullKey
        PROVE  \A e \in Range(s) : e.k = k => e.d < d
    <3>1. Sorted(s)
      BY <1>1, <1>4, <2>1, AscendingSorted DEF Tidy
    <3>2. QED
      BY <1>1, <1>2, <3>1, NewestNumber
  <2>2. QED
    BY <2>1
<1> DEFINE new == ivbkeyinsert(index[i], k, d, r)
<1>7. Tidy(new)
  <2> HIDE DEF d, k, p
  <2>1. QED
    BY <1>1, <1>2, <1>3, <1>4, <1>5, <1>6, InsertTidy DEF p
<1>8. new \in Indexes(Entries)
  <2>1. Entry(k, d, r) \in Entries /\ d \in Nat /\ Entries \in SUBSET Slots
    BY <1>2, <1>3, EntryTyped
  <2> HIDE DEF d, k
  <2>2. QED
    BY <1>1, <1>2, <2>1, InsertKept
<1>9. /\ irowinsert(v, r, f)[i] = index[i] \/ irowinsert(v, r, f)[i] = new
      /\ f = NoFault => irowinsert(v, r, f)[i] = new
  BY DEF irowinsert
<1>10. QED
  BY <1>1, <1>2, <1>3, <1>4, <1>7, <1>8, <1>9

(* A row that is allocated is free, and at most one behind the last.       *)
LEMMA AllocateFacts ==
  ASSUME TypeInv, NEW r \in tvbdataallocate \intersect Row
  PROVE  /\ r \in Row /\ r \in Nat /\ count \in Nat /\ r >= 1
         /\ r <= count + 1 /\ r \notin Live /\ data[r] = NoRow
<1>1. count \in Nat /\ MaxRow \in Nat /\ r \in 1..MaxRow
  BY RowOpsAssumption DEF TypeInv, Row
<1>2. CASE r \in FreeRows
  BY <1>1, <1>2 DEF FreeRows, Live
<1>3. CASE r = count + 1
  <2>1. r \notin Live /\ data[r] = NoRow
    BY <1>1, <1>3 DEF Live, TypeInv
  <2>2. QED
    BY <1>1, <1>3, <2>1
<1>4. r \in FreeRows \/ r = count + 1
  BY DEF tvbdataallocate
<1>5. QED
  BY <1>2, <1>3, <1>4

(* iswrite keeps the types of everything but the indexes.                  *)
LEMMA WriteRow ==
  ASSUME TypeInv, NEW v \in Values, NEW f \in Faults(v), Write(v, f)
  PROVE  /\ data' \in [Row -> Values \union {NoRow}]
         /\ count' \in 0..MaxRow
         /\ failed' \in 0..MaxFailed
         /\ {lost, crashed}' \subseteq BOOLEAN
         /\ \A r \in Row : r > count' => data'[r] = NoRow
<1>1. PICK r \in tvbdataallocate \intersect Row :
        LET c == IF r > count THEN r ELSE count
        IN /\ IF f = NoFault
              THEN data' = [data EXCEPT ![r] = v] /\ count' = c
              ELSE count' = ivbdatafree(c, r) /\ UNCHANGED data
           /\ failed' = Count(f)
           /\ UNCHANGED <<lost, crashed>>
  BY DEF Write
<1>2. /\ r \in Row /\ r \in Nat /\ count \in Nat /\ r >= 1
      /\ r <= count + 1 /\ data[r] = NoRow
  BY AllocateFacts
<1>3. /\ count \in 0..MaxRow /\ MaxRow \in Nat /\ Row = 1..MaxRow
      /\ data \in [Row -> Values \union {NoRow}]
      /\ \A x \in Row : x > count => data[x] = NoRow
      /\ failed \in 0..MaxFailed /\ MaxFailed \in Nat
      /\ {lost, crashed} \subseteq BOOLEAN
  BY RowOpsAssumption DEF TypeInv, Row
<1>4. failed' \in 0..MaxFailed
  <2>1. CASE f = NoFault
    BY <1>1, <1>3, <2>1 DEF Count
  <2>2. CASE f # NoFault
    <3>1. failed # MaxFailed
      BY <2>2 DEF Faults
    <3>2. QED
      BY <1>1, <1>3, <2>2, <3>1 DEF Count
  <2>3. QED
    BY <2>1, <2>2
<1>5. CASE f = NoFault
  <2>1. data' = [data EXCEPT ![r] = v]
        /\ count' = IF r > count THEN r ELSE count
    BY <1>1, <1>5
  <2>2. count' \in 0..MaxRow
    BY <1>2, <1>3, <2>1
  <2>3. \A x \in Row : x > count' => x # r /\ x > count
    BY <1>2, <1>3, <2>1
  <2>4. QED
    BY <1>1, <1>3, <1>4, <2>1, <2>2, <2>3
<1>6. CASE f # NoFault
  <2>1. /\ data' = data
        /\ count' = IF r = (IF r > count THEN r ELSE count) THEN r - 1
                    ELSE count
    BY <1>1, <1>2, <1>6 DEF ivbdatafree
  <2>2. count' \in 0..MaxRow
    BY <1>2, <1>3, <2>1
  <2>3. \A x \in Row : x > count' => x = r \/ x > count
    BY <1>2, <1>3, <2>1
  <2>4. QED
    BY <1>1, <1>2, <1>3, <1>4, <2>1, <2>2, <2>3
<1>7. QED
  BY <1>5, <1>6

(* iswrite keeps the invariant.                                            *)
LEMMA WriteSafe ==
  ASSUME TypeInv, TidyInv, MatchInv, NEW v \in Values, NEW f \in Faults(v),
         Write(v, f)
  PROVE  TypeInv' /\ TidyInv' /\ MatchInv'
<1>1. PICK r \in tvbdataallocate \intersect Row :
        LET c == IF r > count THEN r ELSE count
        IN /\ ~EDUPL(v) /\ NumbersFit(v)
           /\ index' = irowinsert(v, r, f)
           /\ f = NoFault => data' = [data EXCEPT ![r] = v] /\ count' = c
           /\ failed' = Count(f) /\ lost' = lost
  BY DEF Write
<1>2. /\ r \in Row /\ r \in Nat /\ count \in Nat /\ r >= 1
      /\ r <= count + 1 /\ r \notin Live
  BY AllocateFacts
<1>3. \A i \in DOMAIN index :
        index'[i] \in Indexes(Entries) /\ Tidy(index'[i])
  BY <1>1, <1>2, InsertIndex
<1>4. index' \in Seq(Indexes(Entries)) /\ DOMAIN index' = DOMAIN index
  <2>1. index \in Seq(Indexes(Entries))
    BY DEF TypeInv
  <2>2. index' = [i \in DOMAIN index |-> index'[i]]
    BY <1>1 DEF irowinsert
  <2>3. QED
    BY <1>3, <2>1, <2>2, SameDomain
<1>5. TypeInv'
  BY <1>4, WriteRow DEF TypeInv
<1>6. TidyInv'
  BY <1>3, <1>4 DEF TidyInv, Tidy
<1>7. MatchInv'
  <2> SUFFICES ASSUME failed' = 0, ~lost', NEW i \in DOMAIN index
               PROVE  Matches(index'[i], Live', data')
    BY <1>4 DEF MatchInv, Matches
  <2>1. failed = 0 /\ f = NoFault /\ ~lost
    BY <1>1, RowOpsAssumption DEF Count, TypeInv
  <2>2. Matches(index[i], Live, data)
    BY <2>1 DEF MatchInv
  <2>3. /\ data' = [data EXCEPT ![r] = v]
        /\ count' = IF r > count THEN r ELSE count
    BY <1>1, <2>1
  <2>4. /\ data'[r] = v
        /\ \A x \in Row : x # r => data'[x] = data[x]
    BY <1>2, <2>3 DEF TypeInv
  <2>5. Live' = Live \union {r}
    <3>1. v # NoRow
      BY ValFacts
    <3>2. count \in 0..MaxRow /\ MaxRow \in Nat /\ Row = 1..MaxRow
      BY RowOpsAssumption DEF TypeInv, Row
    <3>3. \A x \in 1..count' : x \in Row /\ (x # r => x \in 1..count)
      BY <1>2, <2>3, <3>2
    <3>4. r \in 1..count' /\ 1..count \subseteq 1..count'
      BY <1>2, <2>3, <3>2
    <3>5. QED
      BY <2>4, <3>1, <3>3, <3>4 DEF Live
  <2>6. Live \in SUBSET Row
    BY RowOpsAssumption DEF Live, TypeInv, Row
  <2> DEFINE p == index[i].part
             d == tdupnumber(index[i].ents, v[p])
  <2>7. /\ v[p] \in Val /\ d \in 0..MaxDup
        /\ index'[i] = ivbkeyinsert(index[i], v[p], d, r)
    BY <1>1, <1>2, <2>1, InsertIndex
  <2>8. index[i] \in Indexes(Entries)
    BY IndexFacts
  <2>9. /\ Entry(v[p], d, r) \in Entries /\ v[p] \in Nat /\ d \in Nat
        /\ Entries \in SUBSET Slots
    BY <1>2, <2>7, EntryTyped
  <2>10. \A x \in Live : data'[x][p] = data[x][p]
    BY <1>2, <2>4, <2>6
  <2>11. data'[r][p] = v[p]
    BY <2>4
  <2> HIDE DEF d
  <2>12. Matches(ivbkeyinsert(index[i], v[p], d, r), Live \union {r}, data')
    BY <1>2, <2>2, <2>8, <2>9, <2>10, <2>11, InsertMatches
  <2>13. QED
    BY <2>5, <2>7, <2>12
<1>8. QED
  BY <1>5, <1>6, <1>7

-----------------------------------------------------------------------------
(* ivbkeylocaterow ends in the list, or on the dummy behind it.            *)
LEMMA LocateRange ==
  ASSUME NEW s \in Seq(Slots), NEW k \in Nat, NEW r
  PROVE  ivbkeylocaterow(s, k, r) \subseteq 1..(Len(s) + 1)
<1> DEFINE start == Place(s, k, 0)
           after == {i \in DOMAIN s : i > start /\ s[i].k # k}
<1>1. start \in 1..(Len(s) + 1)
  BY PlaceRange
<1>2. Len(s) \in Nat /\ DOMAIN s = 1..Len(s)
  BY SlotFacts
<1>3. after # {} => Min(after) \in after
  <2>1. after \in SUBSET Nat
    BY <1>2
  <2> HIDE DEF after
  <2>2. QED
    BY <2>1, MinNumber
<1>4. /\ start > Len(s) => EndOfWalk(s, k) = start
      /\ start <= Len(s) /\ after # {} => EndOfWalk(s, k) = Min(after)
      /\ start <= Len(s) /\ after = {} => EndOfWalk(s, k) = Len(s)
  <2>1. start \in Nat
    BY <1>1, <1>2
  <2>2. EndOfWalk(s, k) =
          CASE start > Len(s) -> start
            [] start <= Len(s) /\ after # {} -> Min(after)
            [] OTHER -> Len(s)
    BY DEF EndOfWalk
  <2> HIDE DEF start, after
  <2>3. QED
    BY <1>2, <2>1, <2>2
<1>5. EndOfWalk(s, k) \in 1..(Len(s) + 1)
  <2>1. CASE start > Len(s)
    BY <1>1, <1>4, <2>1
  <2>2. CASE start <= Len(s) /\ after # {}
    BY <1>2, <1>3, <1>4, <2>2
  <2>3. CASE start <= Len(s) /\ after = {}
    BY <1>1, <1>2, <1>4, <2>3
  <2>4. start > Len(s) \/ start <= Len(s)
    BY <1>1, <1>2
  <2>5. QED
    BY <2>1, <2>2, <2>3, <2>4
<1>6. {i \in DOMAIN s : s[i].r = r} \subseteq 1..(Len(s) + 1)
  BY <1>2
<1>7. QED
  BY <1>5, <1>6 DEF ivbkeylocaterow

(* What is known of the places where a call finds a row.                   *)
LEMMA LocationFacts ==
  ASSUME TypeInv, NEW r \in Live, NEW at \in Locations(r),
         NEW i \in DOMAIN index
  PROVE  /\ r \in Row /\ data[r] \in Values /\ r <= count
         /\ at[i] \in ivbkeylocaterow(index[i].ents,
                                      data[r][index[i].part], r)
         /\ at[i] \in 1..(Len(index[i].ents) + 1)
         /\ Found(index[i], at[i], r) =>
              at[i] \in DOMAIN index[i].ents /\ index[i].ents[at[i]].r = r
<1>1. r \in Row /\ data[r] \in Values /\ r <= count
  BY RowOpsAssumption DEF TypeInv, Live, Row
<1>2. at[i] \in ivbkeylocaterow(index[i].ents, data[r][index[i].part], r)
  BY DEF Locations
<1>3. index[i].ents \in Seq(Slots) /\ index[i].part \in Parts
  BY IndexFacts
<1>4. data[r][index[i].part] \in Nat
  BY <1>1, <1>3, ValFacts
<1>5. at[i] \in 1..(Len(index[i].ents) + 1)
  BY <1>2, <1>3, <1>4, LocateRange
<1>6. Found(index[i], at[i], r) =>
        at[i] \in DOMAIN index[i].ents /\ index[i].ents[at[i]].r = r
  BY <1>3, <1>5 DEF Found
<1>7. QED
  BY <1>1, <1>2, <1>5, <1>6

(* A row that is not found has no entry: true of an index that matches its *)
(* rows, and what a failed call destroys.                                  *)
LEMMA AbsentUnlessFound ==
  ASSUME TypeInv, NEW r \in Live, NEW at \in Locations(r),
         NEW i \in DOMAIN index, Matches(index[i], Live, data),
         ~Found(index[i], at[i], r)
  PROVE  \A e \in Range(index[i].ents) : e.r # r
<1> DEFINE s   == index[i].ents
           own == {j \in DOMAIN s : s[j].r = r}
           k   == data[r][index[i].part]
<1>1. at[i] \in ivbkeylocaterow(s, k, r)
  BY LocationFacts
<1>2. at[i] \notin own
  <2>1. \A j \in DOMAIN s : j <= Len(s)
    BY IndexFacts, SlotFacts
  <2>2. QED
    BY <2>1 DEF Found
<1>3. {j \in own : s[j].k = k} = {}
  BY <1>1, <1>2 DEF ivbkeylocaterow
<1>4. \A j \in own : s[j].k = k
  <2>1. \A j \in DOMAIN s : s[j] \in Range(s)
    BY DEF Range
  <2>2. QED
    BY <2>1 DEF Matches
<1>5. QED
  BY <1>3, <1>4 DEF Range

(* isdelete keeps the invariant. An entry that is taken out in place of one*)
(* that was not found is what `lost' records.                              *)
LEMMA DeleteSafe ==
  ASSUME TypeInv, TidyInv, MatchInv, NEW r \in Live, Delete(r)
  PROVE  TypeInv' /\ TidyInv' /\ MatchInv'
<1>1. PICK at \in Locations(r) :
        /\ index' = irowdelete(at)
        /\ data' = [data EXCEPT ![r] = NoRow]
        /\ count' = ivbdatafree(count, r)
        /\ lost' = (lost \/ \E i \in DOMAIN index : ~Found(index[i], at[i], r))
        /\ crashed' = DeletesDummy(at)
        /\ failed' = failed
  BY DEF Delete
<1>2. r \in Row /\ r \in 1..count /\ Row = 1..MaxRow /\ MaxRow \in Nat
      /\ count \in 0..MaxRow
  BY RowOpsAssumption DEF TypeInv, Live, Row
<1>3. ASSUME NEW i \in DOMAIN index
      PROVE  /\ index'[i] \in Indexes(Entries) /\ Tidy(index'[i])
             /\ index'[i] = [index[i] EXCEPT !.ents = RemoveAt(@, at[i])]
  <2>1. index'[i] = [index[i] EXCEPT !.ents = RemoveAt(@, at[i])]
    BY <1>1 DEF irowdelete
  <2>2. /\ at[i] \in 1..(Len(index[i].ents) + 1)
        /\ index[i] \in Indexes(Entries) /\ Tidy(index[i])
    BY IndexFacts, LocationFacts DEF TidyInv
  <2>3. QED
    BY <2>1, <2>2, RemoveKept, RemoveTidy
<1>4. index' \in Seq(Indexes(Entries)) /\ DOMAIN index' = DOMAIN index
  <2>1. index \in Seq(Indexes(Entries))
    BY DEF TypeInv
  <2>2. index' = [i \in DOMAIN index |-> index'[i]]
    BY <1>1 DEF irowdelete
  <2>3. QED
    BY <1>3, <2>1, <2>2, SameDomain
<1>5. /\ data' \in [Row -> Values \union {NoRow}]
      /\ data'[r] = NoRow
      /\ \A x \in Row : x # r => data'[x] = data[x]
  BY <1>1, <1>2 DEF TypeInv
<1>6. count' = IF r = count THEN count - 1 ELSE count
  BY <1>1, <1>2 DEF ivbdatafree
<1>7. TypeInv'
  <2>1. count' \in 0..MaxRow
    BY <1>2, <1>6
  <2>2. \A x \in Row : x > count' => data'[x] = NoRow
    <3>1. \A x \in Row : x > count' => x = r \/ x > count
      BY <1>2, <1>6
    <3>2. QED
      BY <1>5, <3>1 DEF TypeInv
  <2>3. failed' \in 0..MaxFailed /\ {lost, crashed}' \subseteq BOOLEAN
    BY <1>1 DEF TypeInv, DeletesDummy
  <2>4. QED
    BY <1>4, <1>5, <2>1, <2>2, <2>3 DEF TypeInv
<1>8. TidyInv'
  BY <1>3, <1>4 DEF TidyInv, Tidy
<1>9. MatchInv'
  <2> SUFFICES ASSUME failed' = 0, ~lost', NEW i \in DOMAIN index
               PROVE  Matches(index'[i], Live', data')
    BY <1>4 DEF MatchInv, Matches
  <2>1. failed = 0 /\ ~lost /\ Found(index[i], at[i], r)
    BY <1>1
  <2>2. Matches(index[i], Live, data)
    BY <2>1 DEF MatchInv
  <2>3. /\ at[i] \in DOMAIN index[i].ents /\ index[i].ents[at[i]].r = r
        /\ index[i] \in Indexes(Entries)
    BY <2>1, IndexFacts, LocationFacts
  <2>4. Matches(index'[i], Live \ {r}, data)
    <3>1. Matches([index[i] EXCEPT !.ents = RemoveAt(@, at[i])],
                  Live \ {index[i].ents[at[i]].r}, data)
      BY <2>2, <2>3, RemoveMatches
    <3>2. QED
      BY <1>3, <2>3, <3>1
  <2>5. Live' = Live \ {r}
    <3>1. \A x \in 1..count : x \in Row /\ (x # r => x \in 1..count')
      BY <1>2, <1>6
    <3>2. 1..count' \subseteq 1..count
      BY <1>2, <1>6
    <3>3. QED
      BY <1>5, <3>1, <3>2 DEF Live
  <2>6. \A x \in Live \ {r} : data'[x] = data[x]
    BY <1>2, <1>5 DEF Live
  <2> DEFINE ix == index'[i]
  <2>7. Matches(ix, Live \ {r}, data)
    BY <2>4
  <2> HIDE DEF ix
  <2>8. Matches(ix, Live \ {r}, data')
    BY <2>6, <2>7, MatchesSame
  <2>9. QED
    BY <2>5, <2>8 DEF ix
<1>10. QED
  BY <1>7, <1>8, <1>9

-----------------------------------------------------------------------------
(* The first half of a rewrite in an index: it is left without the row.    *)
LEMMA WithoutFacts ==
  ASSUME TypeInv, TidyInv, NEW r \in Live, NEW at \in Locations(r),
         NEW i \in DOMAIN index
  PROVE  LET w == Without(index[i], at[i], r)
         IN /\ w \in Indexes(Entries) /\ Tidy(w)
            /\ w.part = index[i].part /\ w.missed = index[i].missed
            /\ Range(w.ents) \subseteq Range(index[i].ents)
            /\ Matches(index[i], Live, data) =>
                 /\ Matches(w, Live \ {r}, data)
                 /\ \A e \in Range(w.ents) : e.r # r
<1> DEFINE ix   == index[i]
           gone == [ix EXCEPT !.ents = RemoveAt(@, at[i])]
<1>1. /\ ix \in Indexes(Entries) /\ Tidy(ix) /\ ix.ents \in Seq(Slots)
      /\ at[i] \in 1..(Len(ix.ents) + 1)
      /\ Found(ix, at[i], r) =>
           at[i] \in DOMAIN ix.ents /\ ix.ents[at[i]].r = r
  BY IndexFacts, LocationFacts DEF TidyInv
<1>2. CASE Found(ix, at[i], r)
  <2>1. Without(ix, at[i], r) = gone
    BY <1>2 DEF Without
  <2>2. /\ gone \in Indexes(Entries) /\ gone.part = ix.part
        /\ gone.missed = ix.missed /\ gone.ents = RemoveAt(ix.ents, at[i])
    BY <1>1, RemoveKept
  <2>3. Tidy(gone)
    BY <1>1, RemoveTidy
  <2>4. Range(gone.ents) \subseteq Range(ix.ents)
    <3> HIDE DEF gone
    <3>1. QED
      BY <1>1, <2>2, RemoveFacts
  <2>5. Matches(ix, Live, data) =>
          /\ Matches(gone, Live \ {r}, data)
          /\ \A e \in Range(gone.ents) : e.r # r
    <3>1. ASSUME Matches(ix, Live, data)
          PROVE  /\ Matches(gone, Live \ {ix.ents[at[i]].r}, data)
                 /\ \A e \in Range(gone.ents) : e.r # ix.ents[at[i]].r
      BY <1>1, <1>2, <3>1, RemoveMatches
    <3>2. ix.ents[at[i]].r = r
      BY <1>1, <1>2
    <3> HIDE DEF gone, ix
    <3>3. QED
      BY <3>1, <3>2
  <2> HIDE DEF gone
  <2>6. QED
    BY <2>1, <2>2, <2>3, <2>4, <2>5
<1>3. CASE ~Found(ix, at[i], r)
  <2>1. Without(ix, at[i], r) = ix
    BY <1>3 DEF Without
  <2>2. Matches(ix, Live, data) =>
          /\ Matches(ix, Live \ {r}, data)
          /\ \A e \in Range(ix.ents) : e.r # r
    BY <1>3, AbsentUnlessFound, AbsentMatches
  <2>3. QED
    BY <1>1, <2>1, <2>2
<1>4. QED
  BY <1>2, <1>3

(* The duplicate number of a rewrite is a number.                          *)
LEMMA NewNumberRange ==
  ASSUME TypeInv, TidyInv, NEW v \in Values, NEW r \in Live,
         NEW at \in Locations(r), NEW i \in DOMAIN index
  PROVE  NewNumber(index[i], at[i], v, r) \in Nat
<1> DEFINE ix == index[i]
           w  == Without(ix, at[i], r)
           k  == v[ix.part]
<1>1. /\ ix.part \in Parts /\ ix.ents \in Seq(Slots)
      /\ at[i] \in 1..(Len(ix.ents) + 1)
  BY IndexFacts, LocationFacts
<1>2. k \in Nat
  BY <1>1, ValFacts
<1>3. w.ents \in Seq(Slots)
  <2>1. w \in Indexes(Entries)
    BY WithoutFacts
  <2> HIDE DEF w
  <2>2. w.ents \in Seq(Entries)
    BY <2>1 DEF Indexes
  <2>3. QED
    BY <2>2, ValFacts, SeqMonotonic
<1>4. tdupnumber(w.ents, k) \in Nat
  BY <1>2, <1>3, TdupnumberRange
<1>5. ~Found(ix, at[i], r) => NumberFromLast(w.ents, k, at[i]) \in Nat
  <2>1. ~Found(ix, at[i], r) => w = ix
    BY DEF Without
  <2>2. NumberFromLast(ix.ents, k, at[i]) \in Nat
    BY <1>1, <1>2, NumberRange
  <2>3. QED
    BY <2>1, <2>2
<1>6. /\ ix.part \notin IsDups => NewNumber(ix, at[i], v, r) = 0
      /\ ix.part \in IsDups /\ Found(ix, at[i], r) =>
           NewNumber(ix, at[i], v, r) = tdupnumber(w.ents, k)
      /\ ix.part \in IsDups /\ ~Found(ix, at[i], r) =>
           NewNumber(ix, at[i], v, r) = NumberFromLast(w.ents, k, at[i])
  <2>1. NewNumber(ix, at[i], v, r) =
          CASE ix.part \notin IsDups -> 0
            [] ix.part \in IsDups /\ Found(ix, at[i], r) ->
                 tdupnumber(w.ents, k)
            [] OTHER -> NumberFromLast(w.ents, k, at[i])
    BY DEF NewNumber
  <2> HIDE DEF w, k, ix
  <2>2. QED
    BY <2>1
<1>7. QED
  <2> HIDE DEF w, k, ix
  <2>1. NewNumber(ix, at[i], v, r) \in Nat
    BY <1>4, <1>5, <1>6
  <2>2. QED
    BY <2>1 DEF ix

(* What step 1 of irowupdate tests: the first entry of the key is not      *)
(* another row's.                                                          *)
NoOther(s, k, r) ==
  LET j == Place(s, k, 0)
  IN ~(j <= Len(s) /\ s[j].k = k /\ s[j].d = 0 /\ s[j].r # r)

(* In an index without duplicates the first entry of a key tells about all *)
(* of them: step 1 of irowupdate looks at no other.                        *)
LEMMA FirstOwns ==
  ASSUME NEW s \in Seq(Slots), SameRow(s), NEW k \in Nat, NEW r,
         NoOther(s, k, r)
  PROVE  \A e \in Range(s) : e.k = k => e.r = r
<1> DEFINE j == Place(s, k, 0)
<1>1. j \in 1..(Len(s) + 1)
  BY PlaceRange
<1>2. \A i \in DOMAIN s : Below(s[i], k, 0) <=> i < j
  BY PlaceSplits DEF SameRow
<1>3. ~(j <= Len(s) /\ s[j].k = k /\ s[j].d = 0 /\ s[j].r # r)
  BY DEF NoOther
<1> HIDE DEF j
<1>4. ASSUME NEW m \in DOMAIN s, s[m].k = k PROVE s[m].r = r
  <2>1. /\ m \in 1..Len(s) /\ Len(s) \in Nat /\ DOMAIN s = 1..Len(s)
        /\ \A i \in DOMAIN s : s[i].k \in Nat /\ s[i].d \in Nat
    BY SlotFacts
  <2>2. \A i \in DOMAIN s : s[i].d = 0 /\ s[i] \in Range(s)
    BY DEF SameRow, Range
  <2>3. ~Below(s[m], k, 0)
    BY <1>4, <2>1, <2>2 DEF Below
  <2>4. j <= m /\ j \in DOMAIN s /\ j <= Len(s)
    BY <1>1, <1>2, <2>1, <2>3
  <2>5. ~Below(s[j], k, 0)
    BY <1>1, <1>2, <2>4
  <2>6. j = m \/ ~Below(s[m], s[j].k, s[j].d)
    BY <1>1, <2>1, <2>4 DEF SameRow, Sorted
  <2>7. s[j].k = k
    BY <1>4, <2>1, <2>4, <2>5, <2>6 DEF Below
  <2>8. s[j].r = r
    BY <1>3, <2>2, <2>4, <2>7
  <2>9. QED
    BY <1>4, <2>2, <2>4, <2>7, <2>8 DEF SameRow
<1>5. QED
  BY <1>4 DEF Range

(* Both halves of a rewrite in an index. A key that was not found gets a   *)
(* number that may be another's; where that can happen (NULLKEY), Tidy says*)
(* nothing of the order of duplicates.                                     *)
LEMMA UpdatedFacts ==
  ASSUME TypeInv, TidyInv, NEW v \in Values, NEW r \in Live,
         NEW at \in Locations(r), ~Conflicts(v, r), RowPresent(at, r),
         NEW i \in DOMAIN index, NewNumber(index[i], at[i], v, r) <= MaxDup
  PROVE  LET new == Updated(index[i], at[i], v, r)
         IN /\ new \in Indexes(Entries) /\ Tidy(new)
            /\ Matches(index[i], Live, data) =>
                 Matches(new, Live, [data EXCEPT ![r] = v])
<1> DEFINE ix == index[i]
           w  == Without(ix, at[i], r)
           k  == v[ix.part]
           d  == NewNumber(ix, at[i], v, r)
<1>1. /\ ix.part \in Parts /\ ix \in Indexes(Entries) /\ Tidy(ix)
      /\ ix.ents \in Seq(Slots) /\ r \in Row
  BY IndexFacts, LocationFacts DEF TidyInv
<1>2. k \in Val /\ k \in Nat
  BY <1>1, ValFacts
<1>3. d \in 0..MaxDup
  <2>1. d \in Nat /\ d <= MaxDup
    BY NewNumberRange
  <2>2. QED
    BY <2>1, RowOpsAssumption
<1>4. /\ w \in Indexes(Entries) /\ Tidy(w) /\ w.part = ix.part
      /\ Range(w.ents) \subseteq Range(ix.ents)
      /\ Matches(ix, Live, data) =>
           /\ Matches(w, Live \ {r}, data)
           /\ \A e \in Range(w.ents) : e.r # r
  BY WithoutFacts
<1>5. Updated(ix, at[i], v, r) = ivbkeyinsert(w, k, d, r)
  BY DEF Updated
<1>6. ix.part \notin IsDups =>
        d = 0 /\ \A e \in Range(w.ents) : e.k = k => e.r = r
  <2>1. ASSUME ix.part \notin IsDups
        PROVE  \A e \in Range(ix.ents) : e.k = k => e.r = r
    <3>1. SameRow(ix.ents)
      BY <1>1, <2>1 DEF Tidy
    <3>2. NoOther(ix.ents, k, r)
      BY <2>1 DEF Conflicts, NoOther
    <3> HIDE DEF k, ix
    <3>3. QED
      BY <1>1, <1>2, <3>1, <3>2, FirstOwns
  <2>2. ix.part \notin IsDups => d = 0
    BY DEF NewNumber
  <2> HIDE DEF w, d, k, ix
  <2>3. QED
    BY <1>4, <2>1, <2>2
<1>7. ix.part \in IsDups \ NullKey =>
        \A e \in Range(w.ents) : e.k = k => e.d < d
  <2>1. ASSUME ix.part \in IsDups \ NullKey
        PROVE  \A e \in Range(w.ents) : e.k = k => e.d < d
    <3>1. Found(ix, at[i], r)
      BY <2>1 DEF RowPresent
    <3>2. d = tdupnumber(w.ents, k)
      <4>1. d = CASE ix.part \notin IsDups -> 0
                  [] ix.part \in IsDups /\ Found(ix, at[i], r) ->
                       tdupnumber(w.ents, k)
                  [] OTHER -> NumberFromLast(w.ents, k, at[i])
        BY DEF NewNumber
      <4> HIDE DEF w, d, k, ix
      <4>2. QED
        BY <2>1, <3>1, <4>1
    <3>3. w.ents \in Seq(Slots)
      <4> HIDE DEF w
      <4>1. w.ents \in Seq(Entries)
        BY <1>4 DEF Indexes
      <4>2. QED
        BY <4>1, ValFacts, SeqMonotonic
    <3>4. Sorted(w.ents)
      <4> HIDE DEF w, ix
      <4>1. Ascending(w.ents)
        BY <1>4, <2>1 DEF Tidy
      <4>2. QED
        BY <3>3, <4>1, AscendingSorted
    <3>5. \A e \in Range(w.ents) : e.d <= MaxDup
      BY <1>4, IndexFacts
    <3> HIDE DEF w, d, k, ix
    <3>6. QED
      BY <1>2, <3>2, <3>3, <3>4, <3>5, NewestNumber
  <2>2. QED
    BY <2>1
<1>8. Entry(k, d, r) \in Entries /\ d \in Nat /\ Entries \in SUBSET Slots
  BY <1>1, <1>2, <1>3, EntryTyped
<1> DEFINE vals == [data EXCEPT ![r] = v]
<1>9. /\ vals[r][ix.part] = k
      /\ \A x \in Live \ {r} : vals[x][ix.part] = data[x][ix.part]
  <2>1. data \in [Row -> Values \union {NoRow}] /\ Live \subseteq Row
    BY RowOpsAssumption DEF TypeInv, Live, Row
  <2>2. QED
    BY <1>1, <2>1
<1>10. (Live \ {r}) \union {r} = Live
  OBVIOUS
<1> HIDE DEF w, d, k, ix, vals
<1>11. ivbkeyinsert(w, k, d, r) \in Indexes(Entries)
  BY <1>1, <1>2, <1>4, <1>8, InsertKept
<1>12. Tidy(ivbkeyinsert(w, k, d, r))
  BY <1>1, <1>2, <1>3, <1>4, <1>6, <1>7, InsertTidy
<1>13. ASSUME Matches(ix, Live, data)
       PROVE  Matches(ivbkeyinsert(w, k, d, r), Live, vals)
  <2>1. Matches(w, Live \ {r}, data)
    BY <1>4, <1>13
  <2>2. Matches(ivbkeyinsert(w, k, d, r), (Live \ {r}) \union {r}, vals)
    BY <1>1, <1>2, <1>4, <1>8, <1>9, <2>1, InsertMatches
  <2>3. QED
    BY <1>10, <2>2
<1>14. QED
  BY <1>5, <1>11, <1>12, <1>13 DEF ix, vals

(* The number of failed calls keeps its bound.                             *)
LEMMA CountFacts ==
  ASSUME TypeInv, NEW v, NEW f \in Faults(v)
  PROVE  /\ Count(f) \in 0..MaxFailed
         /\ Count(f) = 0 => failed = 0 /\ f = NoFault
<1>1. failed \in 0..MaxFailed /\ MaxFailed \in Nat
  BY RowOpsAssumption DEF TypeInv
<1>2. f # NoFault => failed # MaxFailed
  BY DEF Faults
<1>3. QED
  BY <1>1, <1>2 DEF Count

(* The loop of irowupdate leaves each index of its type and tidy, wherever *)
(* it stops, and an index of the rewritten rows if nothing fails.          *)
LEMMA UpdateIndex ==
  ASSUME TypeInv, TidyInv, NEW v \in Values, NEW r \in Live, NEW f,
         NEW at \in Locations(r), ~Conflicts(v, r), RowPresent(at, r),
         NEW i \in DOMAIN index, NewNumber(index[i], at[i], v, r) <= MaxDup
  PROVE  LET new == irowupdate(at, v, r, f)[i]
         IN /\ new \in Indexes(Entries) /\ Tidy(new)
            /\ f = NoFault /\ Matches(index[i], Live, data) =>
                 Matches(new, Live, [data EXCEPT ![r] = v])
<1> DEFINE ix   == index[i]
           new  == irowupdate(at, v, r, f)[i]
           vals == [data EXCEPT ![r] = v]
<1>1. ix \in Indexes(Entries) /\ Tidy(ix) /\ r \in Row
  BY IndexFacts, LocationFacts DEF TidyInv
<1>2. /\ Without(ix, at[i], r) \in Indexes(Entries)
      /\ Tidy(Without(ix, at[i], r))
  BY WithoutFacts
<1>3. /\ Updated(ix, at[i], v, r) \in Indexes(Entries)
      /\ Tidy(Updated(ix, at[i], v, r))
      /\ Matches(ix, Live, data) =>
           Matches(Updated(ix, at[i], v, r), Live, vals)
  BY UpdatedFacts
<1>4. new = CASE ~Changed(ix, at[i], v, r) \/ (f > 0 /\ i > f) -> ix
              [] Changed(ix, at[i], v, r) /\ i = f -> Without(ix, at[i], r)
              [] OTHER -> Updated(ix, at[i], v, r)
  BY DEF irowupdate
<1>5. f = NoFault /\ Changed(ix, at[i], v, r) =>
        new = Updated(ix, at[i], v, r)
  <2>1. i # NoFault
    <3>1. index \in Seq(Indexes(Entries))
      BY DEF TypeInv
    <3>2. QED
      BY <3>1 DEF NoFault
  <2> HIDE DEF new, ix
  <2>2. QED
    BY <1>4, <2>1 DEF NoFault
<1>6. f = NoFault /\ ~Changed(ix, at[i], v, r) => new = ix
  <2> HIDE DEF new, ix
  <2>1. QED
    BY <1>4
<1>7. \/ new = ix
      \/ new = Without(ix, at[i], r)
      \/ new = Updated(ix, at[i], v, r)
  <2> HIDE DEF new, ix
  <2>1. QED
    BY <1>4
<1>8. ASSUME ~Changed(ix, at[i], v, r), Matches(ix, Live, data)
      PROVE  Matches(ix, Live, vals)
  <2>1. Found(ix, at[i], r) /\ ix.ents[at[i]].k = v[ix.part]
    BY <1>8 DEF Changed
  <2>2. at[i] \in DOMAIN ix.ents /\ ix.ents[at[i]].r = r
    BY <2>1, LocationFacts
  <2>3. ix.ents[at[i]] \in Range(ix.ents)
    BY <2>2 DEF Range
  <2>4. ix.ents[at[i]].k = data[r][ix.part]
    BY <1>8, <2>2, <2>3 DEF Matches
  <2>5. data \in [Row -> Values \union {NoRow}] /\ Live \subseteq Row
    BY RowOpsAssumption DEF TypeInv, Live, Row
  <2>6. \A x \in Live : vals[x][ix.part] = data[x][ix.part]
    BY <1>1, <2>1, <2>4, <2>5
  <2> HIDE DEF ix, vals
  <2>7. QED
    BY <1>8, <2>6, MatchesSame
<1>9. new \in Indexes(Entries) /\ Tidy(new)
  <2> HIDE DEF new, ix
  <2>1. QED
    BY <1>1, <1>2, <1>3, <1>7
<1>10. f = NoFault /\ Matches(ix, Live, data) => Matches(new, Live, vals)
  <2> HIDE DEF new, ix, vals
  <2>1. QED
    BY <1>3, <1>5, <1>6, <1>8
<1>11. QED
  BY <1>9, <1>10

(* isrewrite keeps the invariant.                                          *)
LEMMA RewriteSafe ==
  ASSUME TypeInv, TidyInv, MatchInv, NEW v \in Values, NEW r \in Live,
         NEW f \in Faults(v), Rewrite(v, r, f)
  PROVE  TypeInv' /\ TidyInv' /\ MatchInv'
<1>1. PICK at \in Locations(r) :
        /\ ~Conflicts(v, r) /\ RowPresent(at, r)
        /\ \A i \in DOMAIN index : NewNumber(index[i], at[i], v, r) <= MaxDup
        /\ index' = irowupdate(at, v, r, f)
        /\ data' = IF f = NoFault THEN [data EXCEPT ![r] = v] ELSE data
        /\ failed' = Count(f)
        /\ count' = count /\ lost' = lost /\ crashed' = crashed
  BY DEF Rewrite
<1>2. /\ r \in Row /\ r \in 1..count /\ Row = 1..MaxRow /\ MaxRow \in Nat
      /\ count \in 0..MaxRow /\ data \in [Row -> Values \union {NoRow}]
  BY RowOpsAssumption DEF TypeInv, Live, Row
<1>3. ASSUME NEW i \in DOMAIN index
      PROVE  /\ index'[i] \in Indexes(Entries) /\ Tidy(index'[i])
             /\ f = NoFault /\ Matches(index[i], Live, data) =>
                  Matches(index'[i], Live, [data EXCEPT ![r] = v])
  <2>1. NewNumber(index[i], at[i], v, r) <= MaxDup
    BY <1>1
  <2>2. index' = irowupdate(at, v, r, f)
    BY <1>1
  <2>3. QED
    BY <1>1, <2>1, <2>2, UpdateIndex
<1>4. index' \in Seq(Indexes(Entries)) /\ DOMAIN index' = DOMAIN index
  <2>1. index \in Seq(Indexes(Entries))
    BY DEF TypeInv
  <2>2. index' = [i \in DOMAIN index |-> index'[i]]
    BY <1>1 DEF irowupdate
  <2>3. QED
    BY <1>3, <2>1, <2>2, SameDomain
<1>5. /\ data' \in [Row -> Values \union {NoRow}]
      /\ \A x \in Row : x # r => data'[x] = data[x]
      /\ data'[r] # NoRow
  <2>1. data[r] # NoRow /\ v # NoRow
    BY ValFacts DEF Live
  <2>2. QED
    BY <1>1, <1>2, <2>1
<1>6. TypeInv'
  <2>1. \A x \in Row : x > count' => data'[x] = NoRow
    BY <1>1, <1>2, <1>5 DEF TypeInv
  <2>2. count' \in 0..MaxRow /\ failed' \in 0..MaxFailed
    BY <1>1, <1>2, CountFacts
  <2>3. {lost, crashed}' \subseteq BOOLEAN
    BY <1>1 DEF TypeInv
  <2>4. QED
    BY <1>4, <1>5, <2>1, <2>2, <2>3 DEF TypeInv
<1>7. TidyInv'
  BY <1>3, <1>4 DEF TidyInv, Tidy
<1>8. MatchInv'
  <2> SUFFICES ASSUME failed' = 0, ~lost', NEW i \in DOMAIN index
               PROVE  Matches(index'[i], Live', data')
    BY <1>4 DEF MatchInv, Matches
  <2>1. failed = 0 /\ f = NoFault /\ ~lost
    BY <1>1, CountFacts
  <2>2. Matches(index[i], Live, data)
    BY <2>1 DEF MatchInv
  <2>3. data' = [data EXCEPT ![r] = v]
    BY <1>1, <2>1
  <2>4. Live' = Live
    <3>1. \A x \in 1..count : x \in Row /\ (data'[x] # NoRow <=>
                                            data[x] # NoRow)
      <4>1. \A x \in 1..count : x \in Row
        BY <1>2
      <4>2. data[r] # NoRow
        BY DEF Live
      <4>3. QED
        BY <1>5, <4>1, <4>2
    <3>2. QED
      BY <1>1, <3>1 DEF Live
  <2>5. QED
    BY <1>3, <2>1, <2>2, <2>3, <2>4
<1>9. QED
  BY <1>6, <1>7, <1>8

(* isdelindex keeps the invariant: what holds of each index holds of those *)
(* that are left.                                                          *)
LEMMA DelIndexSafe ==
  ASSUME TypeInv, TidyInv, MatchInv, NEW n \in DOMAIN index, DelIndex(n)
  PROVE  TypeInv' /\ TidyInv' /\ MatchInv'
<1>1. /\ index' = RemoveAt(index, n) /\ data' = data /\ count' = count
      /\ failed' = failed /\ lost' = lost /\ crashed' = crashed
  BY DEF DelIndex
<1>2. index \in Seq(Indexes(Entries))
  BY DEF TypeInv
<1>3. n \in 1..(Len(index) + 1)
  BY <1>2
<1>4. /\ index' \in Seq(Indexes(Entries))
      /\ Range(index') \subseteq Range(index)
  BY <1>1, <1>2, <1>3, RemoveFacts
<1>5. \A i \in DOMAIN index' : \E j \in DOMAIN index : index'[i] = index[j]
  BY <1>4 DEF Range
<1>6. TypeInv'
  BY <1>1, <1>4 DEF TypeInv
<1>7. TidyInv'
  BY <1>5 DEF TidyInv, Tidy
<1>8. MatchInv'
  <2> SUFFICES ASSUME failed' = 0, ~lost', NEW i \in DOMAIN index'
               PROVE  Matches(index'[i], Live', data')
    BY DEF MatchInv, Matches
  <2>1. PICK j \in DOMAIN index : index'[i] = index[j]
    BY <1>5
  <2>2. Matches(index[j], Live, data)
    BY <1>1 DEF MatchInv
  <2>3. Live' = Live
    BY <1>1 DEF Live
  <2>4. QED
    BY <1>1, <2>1, <2>2, <2>3
<1>9. QED
  BY <1>6, <1>7, <1>8

-----------------------------------------------------------------------------
(* The rows up to n that are there.                                        *)
Filled(n) == {x \in 1..n : data[x] # NoRow}

(* What imakekeysfromdata has made after n rows: an index of those rows, in*)
(* order unless a duplicate number has passed the bound; and if the keys are*)
(* unique so far, no duplicate has a number but 0.                         *)
Fills(ix, p, n) ==
  /\ ix \in Indexes(Slots)
  /\ ix.part = p
  /\ Ascending(ix.ents) \/ \E e \in Range(ix.ents) : e.d > MaxDup
  /\ Unique(ix.ents) => \A e \in Range(ix.ents) : e.d = 0
  /\ Matches(ix, Filled(n), data)

(* A list with unique keys had them before an insertion, and the key was not*)
(* there.                                                                  *)
LEMMA InsertUnique ==
  ASSUME NEW s \in Seq(Slots), NEW i \in 1..(Len(s) + 1), NEW e \in Slots
  PROVE  Unique(InsertAt(s, i, e)) =>
           Unique(s) /\ \A g \in Range(s) : g.k # e.k
<1>0. /\ InsertAt(s, i, e) \in Seq(Slots)
      /\ Len(InsertAt(s, i, e)) = Len(s) + 1
      /\ \A k \in 1..(Len(s) + 1) :
           InsertAt(s, i, e)[k] = IF k < i THEN s[k]
                                  ELSE IF k = i THEN e ELSE s[k - 1]
  BY InsertAtFacts
<1> DEFINE t == InsertAt(s, i, e)
           new(j) == IF j < i THEN j ELSE j + 1
<1>1. /\ Len(t) = Len(s) + 1 /\ t \in Seq(Slots)
      /\ \A k \in 1..(Len(s) + 1) :
           t[k] = IF k < i THEN s[k] ELSE IF k = i THEN e ELSE s[k - 1]
  BY <1>0
<1> SUFFICES ASSUME Unique(t)
             PROVE  Unique(s) /\ \A g \in Range(s) : g.k # e.k
  OBVIOUS
<1> HIDE DEF t
<1>3. DOMAIN t = 1..(Len(s) + 1) /\ DOMAIN s = 1..Len(s) /\ Len(s) \in Nat
  BY <1>1
<1>4. \A j \in DOMAIN s : /\ new(j) \in DOMAIN t /\ new(j) # i
                          /\ t[new(j)] = s[j]
  BY <1>1, <1>3
<1>5. \A j, k \in DOMAIN s : new(j) = new(k) => j = k
  BY <1>3
<1>6. i \in DOMAIN t /\ t[i] = e
  BY <1>1, <1>3
<1> HIDE DEF new
<1>7. Unique(s)
  BY <1>4, <1>5 DEF Unique
<1>8. \A j \in DOMAIN s : s[j].k # e.k
  BY <1>4, <1>6 DEF Unique
<1>9. QED
  BY <1>7, <1>8 DEF Range

(* One more row with a value in imakekeysfromdata.                         *)
LEMMA FillsNext ==
  ASSUME TypeInv, NEW p \in Parts, NEW r \in Row, NEW ix, Fills(ix, p, r - 1),
         data[r] # NoRow
  PROVE  Fills(ivbkeyinsert(ix, data[r][p], tdupnumber(ix.ents, data[r][p]),
                            r), p, r)
<1> DEFINE k   == data[r][p]
           d   == tdupnumber(ix.ents, k)
           e0  == Entry(k, d, r)
           new == ivbkeyinsert(ix, k, d, r)
           q   == Place(ix.ents, k, d)
<1>1. /\ ix \in Indexes(Slots) /\ ix.part = p
      /\ Ascending(ix.ents) \/ \E e \in Range(ix.ents) : e.d > MaxDup
      /\ Unique(ix.ents) => \A e \in Range(ix.ents) : e.d = 0
      /\ Matches(ix, Filled(r - 1), data)
  BY DEF Fills
<1>2. ix.ents \in Seq(Slots)
  BY <1>1 DEF Indexes
<1>3. data[r] \in Values /\ r \in 1..MaxRow /\ MaxRow \in Nat
  BY RowOpsAssumption DEF TypeInv, Row
<1>4. k \in Nat
  BY <1>3, ValFacts
<1>5. d \in Nat /\ (d = 0 \/ \E e \in Range(ix.ents) : e.k = k)
  BY <1>2, <1>4, TdupnumberRange
<1>6. e0 \in Slots /\ e0.k = k /\ e0.d = d /\ e0.r = r
  BY <1>4, <1>5 DEF Entry, Slots
<1>7. Filled(r) = Filled(r - 1) \union {r} /\ r \notin Filled(r - 1)
  <2>1. \A x \in 1..r : x = r \/ x \in 1..(r - 1)
    BY <1>3
  <2>2. r \in 1..r /\ r \notin 1..(r - 1) /\ 1..(r - 1) \subseteq 1..r
    BY <1>3
  <2>3. QED
    BY <2>1, <2>2 DEF Filled
<1> HIDE DEF d, k
<1>8. new \in Indexes(Slots) /\ new.part = p
  BY <1>1, <1>4, <1>5, <1>6, InsertKept
<1>9. Matches(new, Filled(r), data)
  <2>1. data[r][ix.part] = k
    BY <1>1 DEF k
  <2>2. Matches(ivbkeyinsert(ix, k, d, r), Filled(r - 1) \union {r}, data)
    BY <1>1, <1>4, <1>5, <1>6, <1>7, <2>1, InsertMatches
  <2>3. QED
    BY <1>7, <2>2
<1>10. CASE Suppressed(p, k)
  <2>1. new = ix
    BY <1>1, <1>10 DEF ivbkeyinsert
  <2> HIDE DEF new
  <2>2. QED
    BY <1>1, <1>9, <2>1 DEF Fills, k, d, new
<1>11. CASE ~Suppressed(p, k)
  <2>1. new.ents = InsertAt(ix.ents, q, e0) /\ q \in 1..(Len(ix.ents) + 1)
    BY <1>1, <1>4, <1>5, <1>6, <1>11, InsertResult
  <2>2. ASSUME Ascending(ix.ents), \A e \in Range(ix.ents) : e.d <= MaxDup
        PROVE  Ascending(new.ents)
    <3>1. Sorted(ix.ents)
      BY <1>2, <2>2, AscendingSorted
    <3>2. \A e \in Range(ix.ents) : e.k = k => e.d < d
      BY <1>2, <1>4, <2>2, <3>1, NewestNumber DEF d
    <3>3. \A e \in Range(ix.ents) : e.k = k => e.d # d
      BY <1>5, <3>2
    <3>4. Ascending(InsertAt(ix.ents, q, e0))
      BY <1>2, <1>4, <1>5, <2>2, <3>3, InsertAscending
    <3>5. QED
      BY <2>1, <3>4
  <2> HIDE DEF new, e0, q
  <2>3. Range(new.ents) = Range(ix.ents) \union {e0}
    BY <1>2, <1>6, <2>1, InsertFacts
  <2>4. \A e \in Range(ix.ents) : e.d \in Nat
    BY <1>2, SlotFacts DEF Range
  <2>5. Ascending(new.ents) \/ \E e \in Range(new.ents) : e.d > MaxDup
    <3>1. CASE \E e \in Range(ix.ents) : e.d > MaxDup
      BY <2>3, <3>1
    <3>2. CASE \A e \in Range(ix.ents) : ~(e.d > MaxDup)
      <4>1. \A e \in Range(ix.ents) : e.d <= MaxDup
        BY <2>4, <3>2, RowOpsAssumption
      <4>2. QED
        BY <1>1, <2>2, <3>2, <4>1
    <3>3. QED
      BY <3>1, <3>2
  <2>6. Unique(new.ents) => \A e \in Range(new.ents) : e.d = 0
    <3> SUFFICES ASSUME Unique(new.ents)
                 PROVE  \A e \in Range(new.ents) : e.d = 0
      OBVIOUS
    <3>1. Unique(ix.ents) /\ \A g \in Range(ix.ents) : g.k # e0.k
      BY <1>2, <1>6, <2>1, InsertUnique
    <3>2. d = 0
      BY <1>5, <1>6, <3>1
    <3>3. QED
      BY <1>1, <1>6, <2>3, <3>1, <3>2
  <2>7. QED
    BY <1>8, <1>9, <2>5, <2>6 DEF Fills, k, d, new
<1>12. QED
  BY <1>10, <1>11

(* What imakekeysfromdata makes: an index of the rows before the last.     *)
LEMMA MadeFills ==
  ASSUME TypeInv, NEW p \in Parts
  PROVE  /\ Fills(imakekeysfromdata(p), p, IF count = 0 THEN 0 ELSE count - 1)
         /\ imakekeysfromdata(p).missed = IF count \in Live THEN count ELSE 0
<1> DEFINE missed == IF count \in Live THEN count ELSE 0
           V == Indexes(Slots)
           a == Index(p, <<>>, missed)
           Step(ix, r) ==
             IF data[r] = NoRow THEN ix
             ELSE ivbkeyinsert(ix, data[r][p], tdupnumber(ix.ents, data[r][p]),
                               r)
           F == [r \in 1..MaxRow |-> [ix \in V |-> Step(ix, r)]]
           Body(g) == [r \in 0..MaxRow |->
                         IF r = 0 THEN a ELSE Step(g[r - 1], r)]
           made == CHOOSE g : g = Body(g)
           n == IF count = 0 THEN 0 ELSE count - 1
<1>0. MaxRow \in Nat /\ count \in 0..MaxRow /\ Row = 1..MaxRow
  BY RowOpsAssumption DEF TypeInv, Row
<1>1. imakekeysfromdata(p) = made[n]
  BY DEF imakekeysfromdata
<1>2. a \in V /\ a.part = p /\ a.ents = <<>> /\ a.missed = missed
  BY <1>0 DEF Index, Indexes
<1>3. ASSUME NEW r \in Row, NEW ix \in V
      PROVE  Step(ix, r) \in V /\ Step(ix, r).missed = ix.missed
  <2>1. CASE data[r] = NoRow
    BY <2>1
  <2>2. CASE data[r] # NoRow
    <3> DEFINE k == data[r][p]
               d == tdupnumber(ix.ents, k)
    <3>1. ix.ents \in Seq(Slots)
      BY DEF Indexes
    <3>2. k \in Nat
      BY <2>2, ValFacts DEF TypeInv
    <3>3. d \in Nat
      BY <3>1, <3>2, TdupnumberRange
    <3>4. Entry(k, d, r) \in Slots
      BY <3>2, <3>3 DEF Entry, Slots
    <3>5. Step(ix, r) = ivbkeyinsert(ix, k, d, r)
      BY <2>2
    <3> HIDE DEF k, d, Step
    <3>6. QED
      BY <3>2, <3>3, <3>4, <3>5, InsertKept
  <2>3. QED
    BY <2>1, <2>2
<1> HIDE DEF a, missed, Step
<1>4. F \in Steps(MaxRow, V)
  BY <1>0, <1>3 DEF Steps
<1>5. \E g : g = Body(g)
  <2>0. PICK g : Recursive(g, MaxRow, V, a, F)
    <3>1. MaxRow \in Nat /\ a \in V
      BY <1>0, <1>2
    <3> HIDE DEF F, V
    <3>2. QED
      BY <1>4, <3>1, RecursionExists
  <2>1. /\ g \in [0..MaxRow -> V] /\ g[0] = a
        /\ \A k \in 1..MaxRow : g[k] = F[k][g[k - 1]]
    BY <2>0 DEF Recursive
  <2>2. ASSUME NEW k \in 0..MaxRow PROVE g[k] = Body(g)[k]
    <3>1. CASE k = 0
      BY <2>1, <3>1
    <3>2. CASE k # 0
      <4>1. k \in 1..MaxRow /\ k - 1 \in 0..MaxRow
        BY <1>0, <3>2
      <4>2. g[k - 1] \in V
        BY <2>1, <4>1
      <4>3. g[k] = F[k][g[k - 1]]
        BY <2>1, <4>1
      <4>4. QED
        BY <3>2, <4>1, <4>2, <4>3
    <3>3. QED
      BY <3>1, <3>2
  <2>3. g = Body(g)
    BY <2>1, <2>2
  <2>4. QED
    BY <2>3
<1>6. made = Body(made)
  BY <1>5
<1> HIDE DEF made, F
<1>7. made[0] = a /\ \A r \in Row : made[r] = Step(made[r - 1], r)
  <2>1. \A r \in 0..MaxRow :
          made[r] = IF r = 0 THEN a ELSE Step(made[r - 1], r)
    BY <1>6
  <2>2. QED
    BY <1>0, <2>1
<1>8. \A r \in 0..MaxRow : Fills(made[r], p, r) /\ made[r].missed = missed
  <2> DEFINE T == {r \in 0..MaxRow :
                     ~(Fills(made[r], p, r) /\ made[r].missed = missed)}
  <2> SUFFICES ASSUME T # {} PROVE FALSE
    OBVIOUS
  <2>1. T \in SUBSET Nat
    BY <1>0
  <2>2. PICK r \in T : \A m \in T : r <= m
    <3> HIDE DEF T
    <3>1. QED
      BY <2>1, LeastNumber
  <2>3. /\ r \in 0..MaxRow
        /\ ~(Fills(made[r], p, r) /\ made[r].missed = missed)
    OBVIOUS
  <2>4. r # 0
    <3>1. Filled(0) = {}
      BY DEF Filled
    <3>2. Ascending(<<>>) /\ Range(<<>>) = {}
      BY DEF Ascending, Range
    <3>3. Matches(a, {}, data)
      BY <1>2, <3>2 DEF Matches
    <3>4. Fills(a, p, 0)
      BY <1>2, <3>1, <3>2, <3>3 DEF Fills
    <3>5. QED
      BY <1>2, <1>7, <2>3, <3>4
  <2>5. r \in Row /\ r - 1 \in 0..MaxRow /\ ~(r <= r - 1)
    BY <1>0, <2>3, <2>4
  <2>6. Fills(made[r - 1], p, r - 1) /\ made[r - 1].missed = missed
    BY <2>2, <2>5
  <2>7. made[r] = Step(made[r - 1], r)
    BY <1>7, <2>5
  <2>8. made[r].missed = missed
    BY <1>3, <2>5, <2>6, <2>7 DEF Fills
  <2>9. Fills(made[r], p, r)
    <3>1. CASE data[r] = NoRow
      <4>1. made[r] = made[r - 1]
        BY <2>7, <3>1 DEF Step
      <4>2. Filled(r) = Filled(r - 1)
        <5>1. \A x \in 1..r : x = r \/ x \in 1..(r - 1)
          BY <1>0, <2>5
        <5>2. 1..(r - 1) \subseteq 1..r
          BY <1>0, <2>5
        <5>3. QED
          BY <3>1, <5>1, <5>2 DEF Filled
      <4>3. QED
        BY <2>6, <4>1, <4>2 DEF Fills
    <3>2. CASE data[r] # NoRow
      BY <2>5, <2>6, <2>7, <3>2, FillsNext DEF Step
    <3>3. QED
      BY <3>1, <3>2
  <2>10. QED
    BY <2>3, <2>8, <2>9
<1>9. n \in 0..MaxRow
  BY <1>0
<1>10. QED
  BY <1>1, <1>8, <1>9 DEF missed

(* isaddindex keeps the invariant: the index it adds is in order, and      *)
(* matches the rows but for the last, the one `missed' names.              *)
LEMMA AddIndexSafe ==
  ASSUME TypeInv, TidyInv, MatchInv, NEW p \in Parts, AddIndex(p)
  PROVE  TypeInv' /\ TidyInv' /\ MatchInv'
<1> DEFINE ix == imakekeysfromdata(p)
           n  == IF count = 0 THEN 0 ELSE count - 1
<1>1. /\ p \in IsDups \/ Unique(ix.ents)
      /\ \A e \in Range(ix.ents) : e.d <= MaxDup
      /\ index' = Append(index, ix) /\ data' = data /\ count' = count
      /\ failed' = failed /\ lost' = lost /\ crashed' = crashed
  BY DEF AddIndex
<1>2. /\ Fills(ix, p, n)
      /\ ix.missed = IF count \in Live THEN count ELSE 0
  BY MadeFills
<1> HIDE DEF ix
<1>3. MaxRow \in Nat /\ count \in 0..MaxRow /\ Row = 1..MaxRow
      /\ MaxDup \in Nat
  BY RowOpsAssumption DEF TypeInv, Row
<1>4. ix \in Indexes(Slots) /\ ix.part = p /\ ix.ents \in Seq(Slots)
  BY <1>2 DEF Fills, Indexes
<1>5. \A e \in Range(ix.ents) : /\ e \in Slots /\ e.d \in Nat
                                /\ ~(e.d > MaxDup)
  <2>1. \A e \in Range(ix.ents) : e \in Slots /\ e.d \in Nat
    BY <1>4, SlotFacts DEF Range
  <2>2. QED
    BY <1>1, <1>3, <2>1
<1>6. Ascending(ix.ents)
  BY <1>2, <1>5 DEF Fills
<1>7. ix \in Indexes(Entries)
  <2>1. ASSUME NEW j \in DOMAIN ix.ents PROVE ix.ents[j] \in Entries
    <3> DEFINE e == ix.ents[j]
    <3>1. e \in Range(ix.ents)
      BY DEF Range
    <3>2. e \in Slots /\ e.d \in 0..MaxDup
      BY <1>1, <1>3, <1>5, <3>1
    <3>3. e.r \in Filled(n) /\ e.k = data[e.r][p]
      BY <1>2, <1>4, <3>1 DEF Fills, Matches
    <3>4. e.r \in Row
      BY <3>2 DEF Slots
    <3>5. data[e.r] \in Values
      BY <3>3, <3>4 DEF Filled, TypeInv
    <3>6. e.k \in Val
      BY <3>3, <3>5, ValFacts
    <3> HIDE DEF e
    <3>7. e \in Entries
      BY <3>2, <3>4, <3>6 DEF Slots, Entries
    <3>8. QED
      BY <3>7 DEF e
  <2>2. ix.ents = [j \in DOMAIN ix.ents |-> ix.ents[j]]
    BY <1>4
  <2>3. ix.ents \in Seq(Entries)
    <3> DEFINE s == ix.ents
    <3>1. s \in Seq(Slots) /\ \A j \in DOMAIN s : s[j] \in Entries
      BY <1>4, <2>1
    <3> HIDE DEF s
    <3>2. DOMAIN s = 1..Len(s) /\ Len(s) \in Nat
          /\ s = [j \in 1..Len(s) |-> s[j]]
      BY <3>1
    <3>3. s \in [1..Len(s) -> Entries]
      BY <3>1, <3>2
    <3>4. s \in Seq(Entries)
      BY <3>2, <3>3
    <3>5. QED
      BY <3>4 DEF s
  <2>4. QED
    BY <1>4, <2>3 DEF Indexes
<1>8. Tidy(ix)
  <2>1. ASSUME p \notin IsDups PROVE SameRow(ix.ents)
    <3>1. Unique(ix.ents) /\ \A e \in Range(ix.ents) : e.d = 0
      BY <1>1, <1>2, <2>1 DEF Fills
    <3>2. \A e, g \in Range(ix.ents) : e.k = g.k => e.r = g.r
      BY <3>1 DEF Unique, Range
    <3>3. Sorted(ix.ents)
      BY <1>4, <1>6, AscendingSorted
    <3>4. QED
      BY <3>1, <3>2, <3>3 DEF SameRow
  <2>2. QED
    BY <1>4, <1>6, <2>1 DEF Tidy
<1>9. Matches(ix, Live, data)
  <2>1. Matches(ix, Filled(n), data)
    BY <1>2 DEF Fills
  <2>2. Filled(n) \subseteq Live
    <3>1. 1..n \subseteq 1..count
      BY <1>3
    <3>2. QED
      BY <3>1 DEF Filled, Live
  <2>3. \A x \in Live : x \in Filled(n) \/ x = ix.missed
    <3>1. \A x \in 1..count : x \in 1..n \/ x = count
      BY <1>3
    <3>2. QED
      BY <1>2, <3>1 DEF Filled, Live
  <2>4. QED
    BY <2>1, <2>2, <2>3 DEF Matches
<1>10. index \in Seq(Indexes(Entries))
  BY DEF TypeInv
<1>11. /\ index' \in Seq(Indexes(Entries))
       /\ \A i \in DOMAIN index' :
            index'[i] = ix \/ (i \in DOMAIN index /\ index'[i] = index[i])
  <2>1. /\ index' \in Seq(Indexes(Entries)) /\ Len(index') = Len(index) + 1
        /\ \A i \in 1..Len(index) : index'[i] = index[i]
        /\ index'[Len(index) + 1] = ix
    BY <1>1, <1>7, <1>10, AppendProperties
  <2>2. QED
    BY <1>10, <2>1
<1>12. TypeInv'
  BY <1>1, <1>11 DEF TypeInv
<1>13. TidyInv'
  <2>1. \A i \in DOMAIN index' : Tidy(index'[i])
    BY <1>8, <1>11 DEF TidyInv
  <2>2. QED
    BY <2>1 DEF TidyInv, Tidy
<1>14. MatchInv'
  <2> SUFFICES ASSUME failed' = 0, ~lost', NEW i \in DOMAIN index'
               PROVE  Matches(index'[i], Live', data')
    BY DEF MatchInv, Matches
  <2>1. i \in DOMAIN index => Matches(index[i], Live, data)
    BY <1>1 DEF MatchInv
  <2>2. Live' = Live
    BY <1>1 DEF Live
  <2>3. QED
    BY <1>1, <1>9, <1>11, <2>1, <2>2
<1>15. QED
  BY <1>12, <1>13, <1>14

-----------------------------------------------------------------------------
(* The invariant that every step keeps.                                    *)
Inductive == TypeInv /\ TidyInv /\ MatchInv

(* The invariant holds of a new table.                                     *)
LEMMA InitInductive == Init => Inductive
<1> SUFFICES ASSUME Init PROVE Inductive
  OBVIOUS
<1> DEFINE ix == Index(1, <<>>, 0)
<1>1. /\ index = <<ix>> /\ data = [r \in Row |-> NoRow] /\ count = 0
      /\ failed = 0 /\ lost = FALSE /\ crashed = FALSE
  BY DEF Init
<1>2. MaxRow \in Nat /\ MaxFailed \in Nat /\ 1 \in Parts
  BY RowOpsAssumption
<1>3. /\ ix \in Indexes(Entries) /\ ix.part = 1 /\ ix.ents = <<>>
  BY <1>2 DEF Index, Indexes
<1> HIDE DEF ix
<1>4. index \in Seq(Indexes(Entries)) /\ \A i \in DOMAIN index : index[i] = ix
  BY <1>1, <1>3
<1>5. TypeInv
  <2>1. data \in [Row -> Values \union {NoRow}]
    BY <1>1
  <2>2. \A r \in Row : data[r] = NoRow
    BY <1>1
  <2>3. count \in 0..MaxRow /\ failed \in 0..MaxFailed
    BY <1>1, <1>2
  <2>4. {lost, crashed} \subseteq BOOLEAN
    BY <1>1
  <2>5. QED
    BY <1>4, <2>1, <2>2, <2>3, <2>4 DEF TypeInv
<1>6. DOMAIN <<>> = {} /\ Range(<<>>) = {}
  BY DEF Range
<1>7. Tidy(ix)
  BY <1>3, <1>6 DEF Tidy, SameRow, Sorted, Ascending
<1>8. Live = {}
  BY <1>1 DEF Live
<1>9. Matches(ix, Live, data)
  BY <1>3, <1>6, <1>8 DEF Matches
<1>10. QED
  BY <1>4, <1>5, <1>7, <1>9 DEF Inductive, TidyInv, MatchInv

(* Each call keeps the invariant, whether and wherever it fails.           *)
LEMMA NextInductive == Inductive /\ [Next]_vars => Inductive'
<1> SUFFICES ASSUME Inductive, [Next]_vars PROVE Inductive'
  OBVIOUS
<1>1. TypeInv /\ TidyInv /\ MatchInv
  BY DEF Inductive
<1>2. ASSUME NEW v \in Values, NEW f \in Faults(v), Write(v, f)
      PROVE  Inductive'
  BY <1>1, <1>2, WriteSafe DEF Inductive
<1>3. ASSUME NEW r \in Live, Delete(r) PROVE Inductive'
  BY <1>1, <1>3, DeleteSafe DEF Inductive
<1>4. ASSUME NEW v \in Values, NEW r \in Live, NEW f \in Faults(v),
             Rewrite(v, r, f)
      PROVE  Inductive'
  BY <1>1, <1>4, RewriteSafe DEF Inductive
<1>5. ASSUME NEW p \in Parts, AddIndex(p) PROVE Inductive'
  BY <1>1, <1>5, AddIndexSafe DEF Inductive
<1>6. ASSUME NEW i \in DOMAIN index, DelIndex(i) PROVE Inductive'
  BY <1>1, <1>6, DelIndexSafe DEF Inductive
<1>7. ASSUME UNCHANGED vars PROVE Inductive'
  <2>1. /\ index' = index /\ data' = data /\ count' = count
        /\ failed' = failed /\ lost' = lost /\ crashed' = crashed
    BY <1>7 DEF vars
  <2>2. Live' = Live
    BY <2>1 DEF Live
  <2>3. TypeInv'
    BY <1>1, <2>1 DEF TypeInv
  <2>4. TidyInv'
    BY <1>1, <2>1 DEF TidyInv, Tidy
  <2>5. MatchInv'
    BY <1>1, <2>1, <2>2 DEF MatchInv, Matches
  <2>6. QED
    BY <2>3, <2>4, <2>5 DEF Inductive
<1>8. QED
  BY <1>2, <1>3, <1>4, <1>5, <1>6, <1>7 DEF Next

(* Types, order and match, in every state.                                 *)
THEOREM RowOpsInductive == Spec => []Inductive
<1>1. Init => Inductive
  BY InitInductive
<1>2. Inductive /\ [Next]_vars => Inductive'
  BY NextInductive
<1>3. QED
  BY <1>1, <1>2, PTL DEF Spec

(* TypeOK: every value has its type in every state, whatever calls fail and*)
(* whatever they leave behind.                                             *)
THEOREM TypeCorrect == Spec => []TypeOK
<1>1. Inductive => TypeOK
  <2> SUFFICES ASSUME Inductive PROVE TypeOK
    OBVIOUS
  <2>1. TypeInv
    BY DEF Inductive
  <2>2. \A i \in DOMAIN index : index[i].missed \in 0..MaxRow
    BY <2>1, IndexFacts DEF Indexes
  <2>3. QED
    BY <2>1, <2>2, IndexFacts DEF TypeOK, TypeInv
<1>2. QED
  BY <1>1, RowOpsInductive, PTL

(* UniqueRows: a unique index never has a key for two rows, whatever has   *)
(* failed. Step 1 of irowinsert and of irowupdate look for the key before  *)
(* anything is changed, and what a failed call leaves behind is found as   *)
(* well.                                                                   *)
THEOREM UniqueKeys == Spec => []UniqueRows
<1>1. Inductive => UniqueRows
  BY DEF Inductive, TidyInv, Tidy, SameRow, UniqueRows
<1>2. QED
  BY <1>1, RowOpsInductive, PTL

(* EntriesOrdered for the indexes without NULLKEY.                         *)
DuplicatesInOrder ==
  \A i \in DOMAIN index :
    index[i].part \in IsDups \ NullKey => Ascending(index[i].ents)

(* DuplicatesInOrder: the duplicates of a key ascend by number, each new one*)
(* last and no two with the same number, whatever has failed; in every index*)
(* with ISDUPS but without NULLKEY.                                        *)
THEOREM DuplicatesAscend == Spec => []DuplicatesInOrder
<1>1. Inductive => DuplicatesInOrder
  BY DEF Inductive, TidyInv, Tidy, DuplicatesInOrder
<1>2. QED
  BY <1>1, RowOpsInductive, PTL

(* EntriesOrdered, the same for a table that has no index with both. With  *)
(* both it is false (MCVBRowOpsDups.cfg): a row whose key was suppressed has*)
(* no entry that irowupdate could find, and gets its number from wherever  *)
(* ivbkeylocaterow gave up.                                                *)
THEOREM EntriesAscend ==
  ASSUME IsDups \intersect NullKey = {}
  PROVE  Spec => []EntriesOrdered
<1>1. Inductive => EntriesOrdered
  <2> SUFFICES ASSUME Inductive, NEW i \in DOMAIN index,
                      index[i].part \in IsDups,
                      NEW j \in 2..Len(index[i].ents)
               PROVE  Below(index[i].ents[j - 1], index[i].ents[j].k,
                            index[i].ents[j].d)
    BY DEF EntriesOrdered
  <2>1. Ascending(index[i].ents) /\ index[i].ents \in Seq(Slots)
    BY IndexFacts DEF Inductive, TidyInv, Tidy
  <2> DEFINE s == index[i].ents
  <2>2. j - 1 \in DOMAIN s /\ j \in DOMAIN s /\ j - 1 < j
    BY <2>1, SlotFacts
  <2>3. QED
    BY <2>1, <2>2 DEF Ascending
<1>2. QED
  BY <1>1, RowOpsInductive, PTL

(* The two ways to say that an index is that of the rows: by entries and   *)
(* rows, and by counting pairs of key and row.                             *)
LEMMA MatchesExact ==
  ASSUME NEW ix \in Indexes(Entries), Matches(ix, Live, data)
  PROVE  Exact(ix)
<1> DEFINE s       == ix.ents
           present == {<<e.k, e.r>> : e \in Range(s)}
           f       == [i \in 1..Len(s) |-> <<s[i].k, s[i].r>>]
<1>1. Len(s) \in Nat /\ DOMAIN s = 1..Len(s)
  BY DEF Indexes
<1>2. f \in Bijection(1..Len(s), present)
  <2>1. \A i \in 1..Len(s) : s[i] \in Range(s)
    BY <1>1 DEF Range
  <2>2. f \in [1..Len(s) -> present]
    BY <2>1
  <2>3. \A i, j \in 1..Len(s) : f[i] = f[j] => i = j
    BY <1>1 DEF Matches
  <2>4. \A x \in present : \E i \in 1..Len(s) : f[i] = x
    BY <1>1 DEF Range
  <2> HIDE DEF f, present, s
  <2>5. QED
    BY <2>2, <2>3, <2>4 DEF Bijection, Injection, Surjection, IsInjective
<1>3. Cardinality(present) = Len(s)
  <2>1. IsFiniteSet(1..Len(s)) /\ Cardinality(1..Len(s)) = Len(s)
    BY <1>1, FS_Interval
  <2>2. ExistsBijection(1..Len(s), present)
    BY <1>2 DEF ExistsBijection
  <2> HIDE DEF present, s
  <2>3. QED
    BY <2>1, <2>2, FS_Bijection
<1>4. present \subseteq Expected(ix)
  BY DEF Matches, Expected
<1>5. ASSUME NEW pair \in Expected(ix) \ present PROVE pair[2] = ix.missed
  <2>1. PICK r \in Live : /\ pair = <<data[r][ix.part], r>>
                          /\ ~Suppressed(ix.part, data[r][ix.part])
    BY DEF Expected
  <2>2. ~ \E e \in Range(s) : e.r = r
    BY <1>5, <2>1 DEF Matches
  <2>3. QED
    BY <2>1, <2>2 DEF Matches
<1>6. QED
  BY <1>3, <1>4, <1>5 DEF Exact

(* IndexesExact: as long as no call has failed half way and no row with a  *)
(* suppressed key has been deleted, each index has one entry for each row, *)
(* with the row's key, but for suppressed keys and for the row that        *)
(* isaddindex has passed over.                                             *)
THEOREM RowsIndexed == Spec => []IndexesExact
<1>1. Inductive => IndexesExact
  <2> SUFFICES ASSUME Inductive, failed = 0, ~lost, NEW i \in DOMAIN index
               PROVE  Exact(index[i])
    BY DEF IndexesExact
  <2>1. index[i] \in Indexes(Entries) /\ Matches(index[i], Live, data)
    BY IndexFacts DEF Inductive, MatchInv
  <2>2. QED
    BY <2>1, MatchesExact
<1>2. QED
  BY <1>1, RowOpsInductive, PTL
=============================================================================
