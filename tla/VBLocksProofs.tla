---------------------------- MODULE VBLocksProofs ----------------------------
(***************************************************************************)
(* Proofs about VBLocks, for every number of processes, handles, rows and  *)
(* blocks, and for every way the handles are spread over the processes.    *)
(*                                                                         *)
(* LocksInv is the inductive invariant. Its BlocksPart says that the list  *)
(* of a process is sorted and holds blocks of that process's open or       *)
(* closing handles only: ListWellFormed alone is not inductive, since      *)
(* without the owner a close by one process could leave a block of its     *)
(* handle in the list of another. LockingPart says that the handle an      *)
(* islock is under way for is open, which is why the range lock it may     *)
(* take cannot outlive the handle.                                         *)
(*                                                                         *)
(* The list operations keep a list sorted because ilockinsert stops behind *)
(* the last smaller row (InsertSorted, InsertKeeps) and ilockdelete takes  *)
(* a block out (DeleteKeeps). The unlock loop, which runs along blocks     *)
(* that are on the free list already, visits rows nobody can name in       *)
(* advance; LoopInduction shows by induction on the visits that what one   *)
(* visit keeps the loop keeps.                                             *)
(***************************************************************************)
EXTENDS VBLocks, SequencesExt, SequenceTheorems, WellFoundedInduction,
        FiniteSetTheorems, TLAPS

(* A nonempty set of natural numbers has a least member.                   *)
LEMMA LeastNumber ==
  ASSUME NEW T \in SUBSET Nat, T # {}
  PROVE  \E x \in T : \A y \in T : x <= y
<1> DEFINE R == OpToRel(<, Nat)
<1>1. IsWellFoundedOn(R, Nat)
  BY NatLessThanWellFounded
<1>2. \A x, y \in Nat : x < y => <<x, y>> \in R
  BY DEF OpToRel
<1> HIDE DEF R
<1>3. PICK x \in T : \A y \in T : <<y, x>> \notin R
  BY <1>1, WFMin
<1>4. ASSUME NEW y \in T PROVE x <= y
  <2>1. x \in Nat /\ y \in Nat /\ ~(y < x)
    BY <1>2, <1>3
  <2>2. QED
    BY <2>1
<1>5. QED
  BY <1>3, <1>4

(* Min of a nonempty set of natural numbers is its least member.           *)
LEMMA MinNumber ==
  ASSUME NEW T \in SUBSET Nat, T # {}
  PROVE  Min(T) \in T /\ \A y \in T : Min(T) <= y
<1>1. \E x \in T : \A y \in T : x <= y
  BY LeastNumber
<1>2. QED
  BY <1>1 DEF Min

(* Max of a nonempty bounded set of natural numbers is its greatest member.*)
LEMMA MaxNumber ==
  ASSUME NEW T \in SUBSET Nat, T # {}, NEW n \in Nat, \A y \in T : y <= n
  PROVE  Max(T) \in T /\ \A y \in T : y <= Max(T)
<1> DEFINE U == {n - y : y \in T}
<1>1. U \in SUBSET Nat /\ U # {}
  <2>1. ASSUME NEW y \in T PROVE n - y \in Nat
    <3>1. y \in Nat /\ y <= n
      OBVIOUS
    <3>2. QED
      BY <3>1
  <2>2. QED
    BY <2>1
<1>2. PICK u \in U : \A w \in U : u <= w
  <2> HIDE DEF U
  <2>1. QED
    BY <1>1, LeastNumber
<1>3. PICK x \in T : u = n - x
  BY <1>2
<1>4. ASSUME NEW y \in T PROVE x >= y
  <2>1. n - y \in U
    OBVIOUS
  <2>2. n - x <= n - y
    BY <1>2, <1>3, <2>1
  <2>3. QED
    BY <2>2
<1>5. Max(T) \in T /\ \A y \in T : Max(T) >= y
  BY <1>4 DEF Max
<1>6. QED
  BY <1>5

(* What InsertAt returns: the elements before the place, the new one, and  *)
(* the others one place further.                                           *)
LEMMA InsertAtFacts ==
  ASSUME NEW S, NEW s \in Seq(S), NEW i \in 1..(Len(s) + 1), NEW e \in S
  PROVE  /\ InsertAt(s, i, e) \in Seq(S)
         /\ Len(InsertAt(s, i, e)) = Len(s) + 1
         /\ \A k \in 1..(Len(s) + 1) :
              InsertAt(s, i, e)[k] = IF k < i THEN s[k]
                                     ELSE IF k = i THEN e ELSE s[k - 1]
<1> DEFINE a == SubSeq(s, 1, i - 1)
           c == SubSeq(s, i, Len(s))
<1>1. Len(s) \in Nat /\ i \in Nat /\ i >= 1 /\ i <= Len(s) + 1
  OBVIOUS
<1>2. /\ a \in Seq(S) /\ Len(a) = i - 1
      /\ \A k \in 1..(i - 1) : a[k] = s[k]
  <2>1. \A k \in 1..(i - 1) : s[k] \in S
    BY <1>1, ElementOfSeq
  <2>2. QED
    BY <1>1, <2>1, SubSeqProperties
<1>3. /\ c \in Seq(S) /\ Len(c) = Len(s) + 1 - i
      /\ \A k \in 1..(Len(s) + 1 - i) : c[k] = s[i + k - 1]
  <2>1. \A k \in i..Len(s) : s[k] \in S
    BY <1>1, ElementOfSeq
  <2>2. QED
    BY <1>1, <2>1, SubSeqProperties
<1> HIDE DEF a, c
<1>4. <<e>> \in Seq(S) /\ Len(<<e>>) = 1 /\ <<e>>[1] = e
  OBVIOUS
<1>5. /\ a \o <<e>> \in Seq(S) /\ Len(a \o <<e>>) = i
      /\ \A k \in 1..i : (a \o <<e>>)[k] = IF k < i THEN s[k] ELSE e
  <2>1. /\ a \o <<e>> \in Seq(S)
        /\ Len(a \o <<e>>) = Len(a) + Len(<<e>>)
        /\ \A k \in 1..(Len(a) + Len(<<e>>)) : (a \o <<e>>)[k] =
             IF k <= Len(a) THEN a[k] ELSE <<e>>[k - Len(a)]
    BY <1>2, <1>4, ConcatProperties
  <2>2. QED
    BY <1>1, <1>2, <1>4, <2>1
<1> DEFINE ae == a \o <<e>>
<1>6. ae \in Seq(S) /\ Len(ae) = i
  BY <1>5
<1>7. \A k \in 1..i : ae[k] = IF k < i THEN s[k] ELSE e
  BY <1>5
<1>8. InsertAt(s, i, e) = ae \o c
  BY DEF InsertAt, a, c
<1> HIDE DEF ae
<1>9. /\ ae \o c \in Seq(S) /\ Len(ae \o c) = Len(ae) + Len(c)
      /\ \A k \in 1..(Len(ae) + Len(c)) : (ae \o c)[k] =
           IF k <= Len(ae) THEN ae[k] ELSE c[k - Len(ae)]
  BY <1>3, <1>6, ConcatProperties
<1>10. ASSUME NEW k \in 1..(Len(s) + 1)
       PROVE  (ae \o c)[k] = IF k < i THEN s[k]
                             ELSE IF k = i THEN e ELSE s[k - 1]
  <2>1. CASE k <= i
    BY <1>1, <1>3, <1>6, <1>7, <1>9, <2>1
  <2>2. CASE k > i
    <3>1. k - i \in 1..(Len(s) + 1 - i)
      BY <1>1, <2>2
    <3>2. c[k - i] = s[k - 1]
      BY <1>1, <1>3, <3>1
    <3>3. (ae \o c)[k] = c[k - i]
      BY <1>1, <1>3, <1>6, <1>9, <2>2
    <3>4. QED
      BY <1>1, <2>2, <3>2, <3>3
  <2>3. k <= i \/ k > i
    BY <1>1
  <2>4. QED
    BY <2>1, <2>2, <2>3
<1>11. QED
  BY <1>1, <1>3, <1>6, <1>8, <1>9, <1>10

(* What RemoveAt returns: the elements before the place, and those behind it*)
(* one place nearer.                                                       *)
LEMMA RemoveAtFacts ==
  ASSUME NEW S, NEW s \in Seq(S), NEW i \in 1..Len(s)
  PROVE  /\ RemoveAt(s, i) \in Seq(S)
         /\ Len(RemoveAt(s, i)) = Len(s) - 1
         /\ \A k \in 1..(Len(s) - 1) :
              RemoveAt(s, i)[k] = IF k < i THEN s[k] ELSE s[k + 1]
<1> DEFINE a == SubSeq(s, 1, i - 1)
           c == SubSeq(s, i + 1, Len(s))
<1>1. Len(s) \in Nat /\ i \in Nat /\ i >= 1 /\ i <= Len(s)
  OBVIOUS
<1>2. /\ a \in Seq(S) /\ Len(a) = i - 1
      /\ \A k \in 1..(i - 1) : a[k] = s[k]
  <2>1. \A k \in 1..(i - 1) : s[k] \in S
    BY <1>1, ElementOfSeq
  <2>2. QED
    BY <1>1, <2>1, SubSeqProperties
<1>3. /\ c \in Seq(S) /\ Len(c) = Len(s) - i
      /\ \A k \in 1..(Len(s) - i) : c[k] = s[i + k]
  <2>1. \A k \in (i + 1)..Len(s) : s[k] \in S
    BY <1>1, ElementOfSeq
  <2>2. /\ c \in Seq(S)
        /\ Len(c) = IF i + 1 <= Len(s) THEN Len(s) - (i + 1) + 1 ELSE 0
        /\ \A k \in 1..(Len(s) - (i + 1) + 1) : c[k] = s[(i + 1) + k - 1]
    BY <1>1, <2>1, SubSeqProperties
  <2> HIDE DEF c
  <2>3. QED
    BY <1>1, <2>2
<1> HIDE DEF a, c
<1>4. RemoveAt(s, i) = a \o c
  BY DEF RemoveAt, a, c
<1>5. /\ a \o c \in Seq(S) /\ Len(a \o c) = Len(a) + Len(c)
      /\ \A k \in 1..(Len(a) + Len(c)) : (a \o c)[k] =
           IF k <= Len(a) THEN a[k] ELSE c[k - Len(a)]
  BY <1>2, <1>3, ConcatProperties
<1>6. ASSUME NEW k \in 1..(Len(s) - 1)
      PROVE  (a \o c)[k] = IF k < i THEN s[k] ELSE s[k + 1]
  <2>1. CASE k < i
    BY <1>1, <1>2, <1>3, <1>5, <2>1
  <2>2. CASE k >= i
    <3>1. k - (i - 1) \in 1..(Len(s) - i)
      BY <1>1, <2>2
    <3>2. c[k - (i - 1)] = s[k + 1]
      BY <1>1, <1>3, <3>1
    <3>3. (a \o c)[k] = c[k - (i - 1)]
      BY <1>1, <1>2, <1>3, <1>5, <2>2
    <3>4. QED
      BY <1>1, <2>2, <3>2, <3>3
  <2>3. k < i \/ k >= i
    BY <1>1
  <2>4. QED
    BY <2>1, <2>2, <2>3
<1>7. QED
  BY <1>1, <1>2, <1>3, <1>4, <1>5, <1>6

-----------------------------------------------------------------------------

Blocks == [list : Seq([row : Row, handle : Handle]), free : Seq(Row)]

Sorted(list) == \A i \in 2..Len(list) : list[i - 1].row <= list[i].row

(* The sorted block lists whose blocks are of the handles H.               *)
BlocksOf(H) ==
  {b \in Blocks : /\ Sorted(b.list)
                  /\ \A i \in 1..Len(b.list) : b.list[i].handle \in H}

(* The types of a block list and of its blocks.                            *)
LEMMA BlockFacts ==
  ASSUME NEW b \in Blocks
  PROVE  /\ b.list \in Seq([row : Row, handle : Handle])
         /\ b.free \in Seq(Row)
         /\ Len(b.list) \in Nat
         /\ \A k \in 1..Len(b.list) : /\ b.list[k].row \in Row
                                      /\ b.list[k].row \in Nat
                                      /\ b.list[k].handle \in Handle
<1>1. b.list \in Seq([row : Row, handle : Handle]) /\ b.free \in Seq(Row)
  BY DEF Blocks
<1>2. \A k \in 1..Len(b.list) : b.list[k] \in [row : Row, handle : Handle]
  BY <1>1, ElementOfSeq
<1>3. \A r \in Row : r \in Nat
  BY DEF Row
<1>4. QED
  BY <1>1, <1>2, <1>3

(* In a sorted list any earlier block has a row no greater than a later one,*)
(* not only its neighbour.                                                 *)
LEMMA SortedEnds ==
  ASSUME NEW b \in Blocks, Sorted(b.list)
  PROVE  \A i, j \in 1..Len(b.list) :
           i <= j => b.list[i].row <= b.list[j].row
<1>1. Len(b.list) \in Nat /\ \A i \in 1..Len(b.list) : b.list[i].row \in Nat
  BY BlockFacts
<1> SUFFICES ASSUME NEW i \in 1..Len(b.list)
             PROVE  \A j \in 1..Len(b.list) :
                      i <= j => b.list[i].row <= b.list[j].row
  OBVIOUS
<1> DEFINE T == {j \in 1..Len(b.list) :
                   i <= j /\ ~(b.list[i].row <= b.list[j].row)}
<1> SUFFICES ASSUME T # {} PROVE FALSE
  OBVIOUS
<1>2. T \in SUBSET Nat
  OBVIOUS
<1> HIDE DEF T
<1>3. PICK j \in T : \A k \in T : j <= k
  BY <1>2, LeastNumber
<1> USE DEF T
<1>4. /\ j \in 1..Len(b.list) /\ i <= j
      /\ ~(b.list[i].row <= b.list[j].row)
  BY <1>3
<1>5. j # i
  BY <1>1, <1>4
<1>6. j - 1 \in 1..Len(b.list) /\ i <= j - 1 /\ j \in 2..Len(b.list)
  BY <1>1, <1>4, <1>5
<1>7. b.list[i].row <= b.list[j - 1].row
  <2>1. j - 1 \notin T
    BY <1>1, <1>3, <1>6
  <2>2. QED
    BY <1>6, <2>1
<1>8. b.list[j - 1].row <= b.list[j].row
  BY <1>6 DEF Sorted
<1>9. /\ b.list[i].row \in Nat /\ b.list[j - 1].row \in Nat
      /\ b.list[j].row \in Nat
  BY <1>1, <1>4, <1>6
<1>10. QED
  BY <1>4, <1>7, <1>8, <1>9

(* A block put where its row belongs leaves the list sorted.               *)
LEMMA InsertSorted ==
  ASSUME NEW H \in SUBSET Handle, NEW b \in BlocksOf(H), NEW h \in H,
         NEW r \in Row, NEW i \in 1..(Len(b.list) + 1),
         i > 1 => b.list[i - 1].row <= r,
         i <= Len(b.list) => r <= b.list[i].row
  PROVE  Insert(b, i, r, h) \in BlocksOf(H)
<1> DEFINE B == [row : Row, handle : Handle]
           l == b.list
           m == InsertAt(l, i, Block(r, h))
<1>1. /\ b.list \in Seq(B) /\ b.free \in Seq(Row) /\ Sorted(b.list)
      /\ Len(b.list) \in Nat
      /\ \A k \in 1..Len(b.list) : b.list[k].handle \in H
  BY DEF BlocksOf, Blocks
<1>2. /\ Block(r, h) \in B
      /\ Block(r, h).row = r /\ Block(r, h).handle = h
  BY DEF Block
<1>3. /\ m \in Seq(B) /\ Len(m) = Len(l) + 1
      /\ \A k \in 1..(Len(l) + 1) :
           m[k] = IF k < i THEN l[k]
                  ELSE IF k = i THEN Block(r, h) ELSE l[k - 1]
  <2>1. l \in Seq(B)
    BY <1>1
  <2> DEFINE e == Block(r, h)
  <2>2. e \in B
    BY <1>2
  <2> HIDE DEF B, l, e, m
  <2>3. /\ InsertAt(l, i, e) \in Seq(B)
        /\ Len(InsertAt(l, i, e)) = Len(l) + 1
        /\ \A k \in 1..(Len(l) + 1) :
             InsertAt(l, i, e)[k] = IF k < i THEN l[k]
                                    ELSE IF k = i THEN e ELSE l[k - 1]
    <3>1. i \in 1..(Len(l) + 1)
      BY DEF l
    <3>2. QED
      BY <2>1, <2>2, <3>1, InsertAtFacts
  <2>4. QED
    BY <2>3 DEF e, m
<1>4. \A k \in 1..(Len(l) + 1) :
        m[k] = IF k < i THEN l[k]
               ELSE IF k = i THEN Block(r, h) ELSE l[k - 1]
  BY <1>3
<1> HIDE DEF m
<1>5. ASSUME NEW k \in 2..Len(m) PROVE m[k - 1].row <= m[k].row
  <2>1. k \in 1..(Len(l) + 1) /\ k - 1 \in 1..(Len(l) + 1) /\ k \in Nat
    BY <1>1, <1>3
  <2>2. CASE k < i
    <3>1. m[k] = l[k] /\ m[k - 1] = l[k - 1] /\ k \in 2..Len(l)
      BY <1>1, <1>4, <2>1, <2>2, SMTT(30)
    <3>2. QED
      BY <1>1, <3>1 DEF Sorted
  <2>3. CASE k = i
    <3>1. m[k].row = r /\ m[k - 1] = l[i - 1] /\ i > 1
      BY <1>1, <1>2, <1>4, <2>1, <2>3
    <3>2. QED
      BY <3>1
  <2>4. CASE k = i + 1
    <3>1. m[k] = l[i] /\ m[k - 1].row = r /\ i <= Len(l)
      BY <1>1, <1>2, <1>3, <1>4, <2>1, <2>4
    <3>2. QED
      BY <3>1
  <2>5. CASE k > i + 1
    <3>1. /\ k - 1 \in 2..Len(l) /\ ~(k < i) /\ k # i
          /\ ~(k - 1 < i) /\ k - 1 # i
      BY <1>1, <1>3, <2>1, <2>5
    <3>2. m[k] = l[k - 1] /\ m[k - 1] = l[(k - 1) - 1]
      BY <1>4, <2>1, <3>1
    <3>3. QED
      BY <1>1, <3>1, <3>2 DEF Sorted
  <2>6. QED
    BY <2>1, <2>2, <2>3, <2>4, <2>5
<1>6. ASSUME NEW k \in 1..Len(m) PROVE m[k].handle \in H
  <2>1. CASE k < i
    <3>1. k \in 1..(Len(l) + 1) /\ k \in 1..Len(l)
      BY <1>1, <1>3, <2>1
    <3>2. m[k] = l[k]
      BY <1>4, <2>1, <3>1
    <3>3. QED
      BY <1>1, <3>1, <3>2
  <2>2. CASE k = i
    <3>1. i \in 1..(Len(l) + 1)
      BY DEF l
    <3>2. m[k] = Block(r, h)
      BY <1>4, <2>2, <3>1
    <3>3. QED
      BY <1>2, <3>2
  <2>3. CASE k > i
    <3>1. m[k] = l[k - 1] /\ k - 1 \in 1..Len(l)
      BY <1>1, <1>3, <1>4, <2>3
    <3>2. QED
      BY <1>1, <3>1
  <2>4. QED
    BY <2>1, <2>2, <2>3
<1> DEFINE f == IF b.free = <<>> THEN <<>> ELSE Tail(b.free)
<1>7. f \in Seq(Row)
  BY <1>1, HeadTailProperties, EmptySeq
<1>8. Insert(b, i, r, h) = [list |-> m, free |-> f]
  BY DEF Insert, m
<1> HIDE DEF f
<1>9. QED
  BY <1>3, <1>5, <1>6, <1>7, <1>8 DEF BlocksOf, Blocks, Sorted

(* ilockinsert finds such a place: the list stays sorted, with blocks of the*)
(* same handles and the new one.                                           *)
LEMMA InsertKeeps ==
  ASSUME NEW H \in SUBSET Handle, NEW b \in BlocksOf(H), NEW h \in H,
         NEW r \in Row
  PROVE  ilockinsert(b, h, r).b \in BlocksOf(H)
<1> DEFINE n    == Len(b.list)
           S    == {1} \union {k \in 2..n : b.list[k].row < r}
           stop == Max(S)
<1>1. /\ b \in Blocks /\ Sorted(b.list) /\ n \in Nat
      /\ \A k \in 1..n : b.list[k].row \in Nat
      /\ r \in Nat
  <2>1. b \in Blocks /\ Sorted(b.list)
    BY DEF BlocksOf
  <2>2. r \in Nat
    BY DEF Row
  <2>3. QED
    BY <2>1, <2>2, BlockFacts
<1>2. CASE n = 0 \/ (n # 0 /\ r < b.list[1].row)
  <2>0. ~(n # 0 /\ r > b.list[n].row)
    BY <1>1, <1>2, SortedEnds
  <2>1. ilockinsert(b, h, r).b = Insert(b, 1, r, h)
    BY <1>2, <2>0 DEF ilockinsert, Result
  <2>2. 1 \in 1..(n + 1) /\ (1 <= n => r <= b.list[1].row)
    BY <1>1, <1>2
  <2>3. QED
    BY <2>1, <2>2, InsertSorted
<1>3. CASE n # 0 /\ ~(r < b.list[1].row) /\ r > b.list[n].row
  <2>1. ilockinsert(b, h, r).b = Insert(b, n + 1, r, h)
    BY <1>3 DEF ilockinsert, Result
  <2>2. /\ n + 1 \in 1..(n + 1) /\ b.list[(n + 1) - 1].row <= r
        /\ ~(n + 1 <= n)
    BY <1>1, <1>3
  <2>3. QED
    BY <2>1, <2>2, InsertSorted
<1>4. CASE n # 0 /\ ~(r < b.list[1].row) /\ ~(r > b.list[n].row)
  <2>1. S \in SUBSET Nat /\ S # {} /\ \A k \in S : k <= n
    BY <1>1, <1>4
  <2>2. stop \in S /\ \A k \in S : k <= stop
    <3> HIDE DEF S
    <3>1. QED
      BY <1>1, <2>1, MaxNumber
  <2>3. \/ ilockinsert(b, h, r).b = b
        \/ ilockinsert(b, h, r).b = Insert(b, stop + 1, r, h)
    BY <1>4 DEF ilockinsert, Result
  <2> HIDE DEF stop
  <2>4. stop \in 1..n /\ stop + 1 \in 1..(n + 1)
    BY <1>1, <1>4, <2>2
  <2>5. b.list[(stop + 1) - 1].row <= r
    BY <1>1, <1>4, <2>2, <2>4
  <2>6. ASSUME stop + 1 <= n PROVE r <= b.list[stop + 1].row
    <3>1. stop + 1 \notin S /\ stop + 1 \in 2..n
      BY <1>1, <2>2, <2>4, <2>6
    <3>2. QED
      BY <1>1, <3>1
  <2>7. Insert(b, stop + 1, r, h) \in BlocksOf(H)
    BY <2>4, <2>5, <2>6, InsertSorted
  <2>8. QED
    BY <2>3, <2>7
<1>5. QED
  BY <1>2, <1>3, <1>4

(* ilockdelete keeps a list sorted, and adds no block to it.               *)
LEMMA DeleteKeeps ==
  ASSUME NEW H \in SUBSET Handle, NEW b \in BlocksOf(H), NEW h,
         NEW r \in Row
  PROVE  ilockdelete(b, h, r).b \in BlocksOf(H)
<1> DEFINE B  == [row : Row, handle : Handle]
           l  == b.list
           at == {k \in 1..Len(l) : l[k].row = r}
           i  == Min(at)
           m  == RemoveAt(l, i)
           f  == <<r>> \o b.free
<1>1. /\ l \in Seq(B) /\ b.free \in Seq(Row) /\ Sorted(l)
      /\ Len(l) \in Nat
      /\ \A k \in 1..Len(l) : l[k].handle \in H
  BY DEF BlocksOf, Blocks
<1>2. \/ ilockdelete(b, h, r).b = b
      \/ at # {} /\ ilockdelete(b, h, r).b = [list |-> m, free |-> f]
  BY DEF ilockdelete, Result
<1>3. CASE ilockdelete(b, h, r).b = b
  BY <1>3
<1>4. CASE at # {} /\ ilockdelete(b, h, r).b = [list |-> m, free |-> f]
  <2>1. i \in 1..Len(l)
    <3>1. at \in SUBSET Nat /\ at # {}
      BY <1>4
    <3> HIDE DEF at
    <3>2. i \in at
      BY <3>1, MinNumber
    <3> USE DEF at
    <3>3. QED
      BY <3>2
  <2> HIDE DEF i
  <2>2. /\ m \in Seq(B) /\ Len(m) = Len(l) - 1
        /\ \A k \in 1..(Len(l) - 1) : m[k] = IF k < i THEN l[k] ELSE l[k + 1]
    BY <1>1, <2>1, RemoveAtFacts
  <2>3. f \in Seq(Row)
    <3>1. <<r>> \in Seq(Row)
      OBVIOUS
    <3>2. QED
      BY <1>1, <3>1, ConcatProperties
  <2> HIDE DEF m, f
  <2>4. ASSUME NEW k \in 2..Len(m) PROVE m[k - 1].row <= m[k].row
    <3>1. k \in Nat /\ k \in 1..(Len(l) - 1) /\ k - 1 \in 1..(Len(l) - 1)
      BY <1>1, <2>2
    <3>2. CASE k < i
      <4>1. m[k] = l[k] /\ m[k - 1] = l[k - 1] /\ k \in 2..Len(l)
        BY <1>1, <2>1, <2>2, <3>1, <3>2
      <4>2. QED
        BY <1>1, <4>1 DEF Sorted
    <3>3. CASE k > i
      <4>1. k + 1 \in 2..Len(l) /\ ~(k < i) /\ ~(k - 1 < i)
            /\ (k - 1) + 1 = k
        BY <1>1, <2>1, <2>2, <3>1, <3>3
      <4>0. m[k] = l[k + 1] /\ m[k - 1] = l[k]
        BY <2>2, <3>1, <4>1
      <4>2. l[(k + 1) - 1].row <= l[k + 1].row
        BY <1>1, <4>1 DEF Sorted
      <4>3. (k + 1) - 1 = k
        BY <3>1
      <4>4. QED
        BY <4>0, <4>2, <4>3
    <3>4. CASE k = i
      <4>1. m[k] = l[i + 1] /\ m[k - 1] = l[i - 1]
            /\ i - 1 \in 1..Len(l) /\ i + 1 \in 1..Len(l) /\ i - 1 <= i + 1
        BY <1>1, <2>1, <2>2, <3>1, <3>4
      <4>2. b \in Blocks /\ Sorted(b.list)
        BY DEF BlocksOf
      <4>3. l[i - 1].row <= l[i + 1].row
        BY <4>1, <4>2, SortedEnds
      <4>4. QED
        BY <4>1, <4>3
    <3>5. QED
      BY <2>1, <3>1, <3>2, <3>3, <3>4
  <2>5. ASSUME NEW k \in 1..Len(m) PROVE m[k].handle \in H
    BY <1>1, <2>1, <2>2
  <2>6. QED
    BY <1>4, <2>2, <2>3, <2>4, <2>5 DEF BlocksOf, Blocks, Sorted
<1>5. QED
  BY <1>2, <1>3, <1>4

(* What holds when the unlock loop starts, and is kept by every visit, holds*)
(* when the loop ends, however long the free list is that it runs along.   *)
LEMMA LoopInduction ==
  ASSUME NEW b \in Blocks, NEW h, NEW G, [b |-> b, rows |-> {}] \in G,
         \A acc \in G, r \in Row : Visit(acc, h, r) \in G
  PROVE  UnlockLoop(b, h) \in G
<1> DEFINE mine == {k \in 1..Len(b.list) :
                      /\ b.list[k].handle = h
                      /\ \A j \in 1..(k - 1) : b.list[j].row # b.list[k].row}
           path == IF mine = {} THEN <<>>
                   ELSE <<b.list[Min(mine)].row>> \o b.free
           Step(g, n) == [k \in 0..n |->
                            IF k = 0 THEN [b |-> b, rows |-> {}]
                            ELSE Visit(g[k - 1], h, path[k])]
           after == CHOOSE g : g = Step(g, Len(path))
<1>1. path \in Seq(Row)
  <2>1. CASE mine = {}
    BY <2>1
  <2>2. CASE mine # {}
    <3>1. mine \in SUBSET Nat /\ mine \in SUBSET (1..Len(b.list))
      OBVIOUS
    <3>2. Min(mine) \in 1..Len(b.list)
      <4> HIDE DEF mine
      <4>1. Min(mine) \in mine
        BY <2>2, <3>1, MinNumber
      <4>2. QED
        BY <3>1, <4>1
    <3>3. b.list[Min(mine)].row \in Row /\ b.free \in Seq(Row)
      BY <3>2, BlockFacts
    <3>4. <<b.list[Min(mine)].row>> \in Seq(Row)
      BY <3>3
    <3>5. <<b.list[Min(mine)].row>> \o b.free \in Seq(Row)
      BY <3>3, <3>4, ConcatProperties
    <3>6. QED
      BY <2>2, <3>5
  <2>3. QED
    BY <2>1, <2>2
<1>2. UnlockLoop(b, h) = after[Len(path)]
  BY DEF UnlockLoop
<1> HIDE DEF path, mine
<1> DEFINE N == Len(path)
<1>3. N \in Nat /\ \A k \in 1..N : path[k] \in Row
  BY <1>1, ElementOfSeq
<1>4. \A n \in 0..N : \E g : g = Step(g, n)
  <2> DEFINE T == {n \in 0..N : ~ \E g : g = Step(g, n)}
  <2> SUFFICES ASSUME T # {} PROVE FALSE
    OBVIOUS
  <2>1. T \in SUBSET Nat
    BY <1>3
  <2> HIDE DEF T
  <2>2. PICK n \in T : \A m \in T : n <= m
    BY <2>1, LeastNumber
  <2> USE DEF T
  <2>3. n \in 0..N /\ ~ \E g : g = Step(g, n)
    BY <2>2
  <2>4. n # 0
    <3> DEFINE g0 == [k \in 0..0 |-> [b |-> b, rows |-> {}]]
    <3>1. g0 = Step(g0, 0)
      OBVIOUS
    <3>2. QED
      BY <2>3, <3>1
  <2>5. n - 1 \in 0..N /\ ~(n <= n - 1)
    BY <1>3, <2>3, <2>4
  <2>6. PICK g : g = Step(g, n - 1)
    BY <2>2, <2>5
  <2> DEFINE e == [k \in 0..n |-> IF k = n THEN Visit(g[n - 1], h, path[n])
                                  ELSE g[k]]
  <2>7. ASSUME NEW k \in 0..n PROVE e[k] = Step(e, n)[k]
    <3>1. CASE k = 0
      <4>1. e[0] = g[0] /\ 0 \in 0..(n - 1)
        BY <1>3, <2>3, <2>4
      <4>2. g[0] = [b |-> b, rows |-> {}]
        BY <2>6, <4>1
      <4>3. QED
        BY <3>1, <4>1, <4>2
    <3>2. CASE k = n
      <4>1. e[n - 1] = g[n - 1]
        BY <1>3, <2>3, <2>4
      <4>2. Step(e, n)[n] = Visit(e[n - 1], h, path[n])
        BY <1>3, <2>3, <2>4
      <4>3. QED
        BY <3>2, <4>1, <4>2
    <3>3. CASE k # 0 /\ k # n
      <4>1. k \in 0..(n - 1) /\ k - 1 \in 0..n /\ k - 1 # n /\ n \in Nat
        BY <1>3, <2>3, <3>3
      <4>2. e[k] = g[k] /\ e[k - 1] = g[k - 1]
        BY <3>3, <4>1
      <4>3. g[k] = Visit(g[k - 1], h, path[k])
        BY <2>6, <3>3, <4>1
      <4>4. QED
        BY <3>3, <4>2, <4>3
    <3>4. QED
      BY <3>1, <3>2, <3>3
  <2>8. e = Step(e, n)
    <3> HIDE DEF e
    <3>1. e = [k \in 0..n |-> e[k]]
      BY DEF e
    <3>2. QED
      BY <2>7, <3>1
  <2>9. QED
    BY <2>3, <2>8
<1>5. after = Step(after, N)
  <2>0. N \in 0..N
    BY <1>3
  <2>1. \E g : g = Step(g, N)
    <3> HIDE DEF N
    <3>1. QED
      BY <1>4, <2>0
  <2>2. QED
    BY <2>1
<1> HIDE DEF after
<1>6. \A k \in 0..N : after[k] \in G
  <2> DEFINE T == {k \in 0..N : after[k] \notin G}
  <2> SUFFICES ASSUME T # {} PROVE FALSE
    OBVIOUS
  <2>1. T \in SUBSET Nat
    BY <1>3
  <2> HIDE DEF T
  <2>2. PICK k \in T : \A m \in T : k <= m
    BY <2>1, LeastNumber
  <2> USE DEF T
  <2>3. k \in 0..N /\ after[k] \notin G
    BY <2>2
  <2>4. after[k] = Step(after, N)[k]
    BY <1>5
  <2>5. k # 0
    BY <2>3, <2>4
  <2>6. k - 1 \in 0..N /\ k \in 1..N /\ ~(k <= k - 1)
    BY <1>3, <2>3, <2>5
  <2>7. after[k - 1] \in G
    BY <2>2, <2>6
  <2>8. after[k] = Visit(after[k - 1], h, path[k])
    BY <2>3, <2>4, <2>5
  <2>9. QED
    BY <1>3, <2>3, <2>6, <2>7, <2>8
<1>7. QED
  BY <1>2, <1>3, <1>6

(* The unlock loop keeps a list sorted, adds no block to it and unlocks rows*)
(* of the table only.                                                      *)
LEMMA LoopKeeps ==
  ASSUME NEW H \in SUBSET Handle, NEW b \in BlocksOf(H), NEW h
  PROVE  /\ UnlockLoop(b, h).b \in BlocksOf(H)
         /\ UnlockLoop(b, h).rows \in SUBSET Row
<1> DEFINE G == [b : BlocksOf(H), rows : SUBSET Row]
<1>1. b \in Blocks /\ [b |-> b, rows |-> {}] \in G
  BY DEF BlocksOf
<1>2. ASSUME NEW acc \in G, NEW r \in Row PROVE Visit(acc, h, r) \in G
  <2>1. ilockdelete(acc.b, h, r).b \in BlocksOf(H)
    BY DeleteKeeps
  <2>2. QED
    BY <2>1 DEF Visit
<1> HIDE DEF G
<1>3. UnlockLoop(b, h) \in G
  BY <1>1, <1>2, LoopInduction
<1> USE DEF G
<1>4. QED
  BY <1>3

(* A close frees the whole list: no block is left, and the free list holds *)
(* rows.                                                                   *)
LEMMA FreedKeeps ==
  ASSUME NEW H, NEW G, NEW b \in BlocksOf(H)
  PROVE  [list |-> <<>>, free |-> Reverse(RowsOf(b.list)) \o b.free]
           \in BlocksOf(G)
<1> DEFINE n == Len(b.list)
           R == Reverse(RowsOf(b.list))
<1>1. /\ n \in Nat /\ b.free \in Seq(Row)
      /\ \A k \in 1..n : b.list[k].row \in Row
  BY BlockFacts DEF BlocksOf
<1>2. RowsOf(b.list) \in Seq(Row) /\ Len(RowsOf(b.list)) = n
  BY <1>1 DEF RowsOf
<1>3. R \in Seq(Row)
  <2> DEFINE q == RowsOf(b.list)
  <2>1. q \in Seq(Row) /\ Len(q) = n
    BY <1>2
  <2> HIDE DEF q, n
  <2>2. \A k \in 1..Len(q) : q[k] \in Row
    BY <2>1, ElementOfSeq
  <2>3. R = [k \in 1..Len(q) |-> q[(Len(q) - k) + 1]]
    BY DEF Reverse, q
  <2>4. \A k \in 1..Len(q) : (Len(q) - k) + 1 \in 1..Len(q)
    BY <1>1, <2>1
  <2> HIDE DEF R
  <2>5. R \in [1..Len(q) -> Row]
    BY <2>2, <2>3, <2>4
  <2>6. QED
    BY <1>1, <2>1, <2>5, SeqDef
<1> HIDE DEF R
<1>4. R \o b.free \in Seq(Row)
  BY <1>1, <1>3, ConcatProperties
<1>5. QED
  BY <1>4 DEF BlocksOf, Blocks, Sorted, R

-----------------------------------------------------------------------------
(* The handles whose blocks a list may hold.                               *)
Using(p) == {h \in Of(p) : iisopen[h] \in {"open", "closing"}}

BlocksPart == \A p \in Proc : vblock[p] \in BlocksOf(Using(p))

LockingPart ==
  \A p \in Proc : islocking[p] # 0 =>
    islocking[p] \in Of(p) /\ iisopen[islocking[p]] = "open"

LocksInv ==
  /\ TypeOK
  /\ BlocksPart
  /\ LockingPart
  /\ NoLockWithoutHandle

USE LockAssumption

(* The invariant holds initially.                                          *)
LEMMA InitLocks == Init => LocksInv
<1> SUFFICES ASSUME Init PROVE LocksInv
  OBVIOUS
<1>1. [list |-> <<>>, free |-> <<>>] \in Blocks
  BY DEF Blocks
<1>2. \A H : [list |-> <<>>, free |-> <<>>] \in BlocksOf(H)
  BY <1>1 DEF BlocksOf, Sorted
<1>3. TypeOK
  BY <1>1 DEF Init, TypeOK, Blocks
<1>4. BlocksPart
  BY <1>2 DEF Init, BlocksPart
<1>5. LockingPart
  BY DEF Init, LockingPart
<1>6. NoLockWithoutHandle
  BY DEF Init, NoLockWithoutHandle, Row
<1>7. QED
  BY <1>3, <1>4, <1>5, <1>6 DEF LocksInv

(* Every handle is of a process.                                           *)
LEMMA HomeFacts ==
  ASSUME NEW h \in Handle
  PROVE  Home[h] \in Proc /\ h \in Of(Home[h]) /\ h # 0
  BY DEF Of

(* Unlocking the whole file keeps the lists and only drops locks.          *)
LEMMA UnlockFileKeeps ==
  ASSUME LocksInv, NEW h \in Handle, UnlockFile(h)
  PROVE  /\ vblock' \in [Proc -> Blocks]
         /\ \A p \in Proc : vblock'[p] \in BlocksOf(Using(p))
         /\ os' \in [Row -> Proc \union {NoProc}]
         /\ \A r \in Row : os'[r] \in {os[r], NoProc}
         /\ datalocked' \in [Handle -> BOOLEAN]
         /\ held' \in [Handle -> SUBSET Row]
<1> DEFINE p == Home[h]
<1>1. p \in Proc /\ TypeOK /\ BlocksPart
  BY HomeFacts DEF LocksInv
<1>2. /\ vblock' = [vblock EXCEPT ![p] = UnlockLoop(vblock[p], h).b]
      /\ os' = Unlocked(p, Row)
      /\ datalocked' = [datalocked EXCEPT ![h] = FALSE]
      /\ held' = [held EXCEPT ![h] = {}]
  BY DEF UnlockFile
<1>3. UnlockLoop(vblock[p], h).b \in BlocksOf(Using(p))
  <2>1. vblock[p] \in BlocksOf(Using(p)) /\ Using(p) \in SUBSET Handle
    BY <1>1 DEF BlocksPart, Using, Of
  <2>2. QED
    BY <2>1, LoopKeeps
<1> HIDE DEF p
<1>4. vblock \in [Proc -> Blocks]
  BY <1>1 DEF TypeOK, Blocks
<1>5. \A q \in Proc : vblock'[q] \in BlocksOf(Using(q))
  BY <1>1, <1>2, <1>3, <1>4 DEF BlocksPart
<1>6. vblock' \in [Proc -> Blocks]
  <2>1. UnlockLoop(vblock[p], h).b \in Blocks
    BY <1>3 DEF BlocksOf
  <2>2. QED
    BY <1>2, <1>4, <2>1
<1>7. /\ os' \in [Row -> Proc \union {NoProc}]
      /\ \A r \in Row : os'[r] \in {os[r], NoProc}
  BY <1>1, <1>2 DEF TypeOK, Unlocked
<1>8. datalocked' \in [Handle -> BOOLEAN] /\ held' \in [Handle -> SUBSET Row]
  BY <1>1, <1>2 DEF TypeOK
<1>9. QED
  BY <1>5, <1>6, <1>7, <1>8


(* A list of some handles is a list of more handles.                       *)
LEMMA BlocksOfMore ==
  ASSUME NEW H, NEW G, H \subseteq G, NEW b \in BlocksOf(H)
  PROVE  b \in BlocksOf(G)
  BY DEF BlocksOf

(* A call that replaces the list of one process by a good one and leaves the*)
(* states of the handles alone keeps BlocksPart.                           *)
LEMMA BlocksChanged ==
  ASSUME LocksInv, NEW p \in Proc, NEW b \in BlocksOf(Using(p)),
         vblock' = [vblock EXCEPT ![p] = b], iisopen' = iisopen
  PROVE  /\ vblock' \in [Proc -> Blocks]
         /\ BlocksPart'
<1>1. vblock \in [Proc -> Blocks] /\ b \in Blocks /\ BlocksPart
  BY DEF LocksInv, TypeOK, Blocks, BlocksOf
<1>2. \A q \in Proc : Using(q)' = Using(q)
  BY DEF Using
<1>3. \A q \in Proc : vblock'[q] \in BlocksOf(Using(q))
  BY <1>1 DEF BlocksPart
<1>4. QED
  BY <1>1, <1>2, <1>3 DEF BlocksPart

(* The list of a process, and what the unlock loop makes of it, is good.   *)
LEMMA OwnBlocks ==
  ASSUME LocksInv, NEW p \in Proc
  PROVE  /\ vblock[p] \in BlocksOf(Using(p))
         /\ Using(p) \in SUBSET Handle
         /\ \A h : /\ UnlockLoop(vblock[p], h).b \in BlocksOf(Using(p))
                   /\ UnlockLoop(vblock[p], h).rows \in SUBSET Row
<1>1. vblock[p] \in BlocksOf(Using(p)) /\ Using(p) \in SUBSET Handle
  BY DEF LocksInv, BlocksPart, Using, Of
<1>2. QED
  BY <1>1, LoopKeeps

(* A step of a process that still has the table open afterwards leaves no  *)
(* lock without a handle.                                                  *)
LEMMA StillOpen ==
  ASSUME LocksInv, NEW p \in Proc,
         \E h \in Of(p) : iisopen'[h] \notin {"absent", "buffered"},
         \A q \in Proc \ {p} :
           \A h \in Of(q) : iisopen'[h] = iisopen[h],
         \A q \in Proc \ {p} : openlock'[q] = openlock[q],
         \A r \in Row : os'[r] \in {os[r], p, NoProc}
  PROVE  NoLockWithoutHandle'
<1> SUFFICES ASSUME NEW q \in Proc,
                    \A h \in Of(q) : iisopen'[h] \in {"absent", "buffered"}
             PROVE  openlock'[q] = "none" /\ \A r \in Row : os'[r] # q
  BY DEF NoLockWithoutHandle, Of
<1>1. q # p
  OBVIOUS
<1>2. \A h \in Of(q) : iisopen[h] \in {"absent", "buffered"}
  BY <1>1
<1>3. openlock[q] = "none" /\ \A r \in Row : os[r] # q
  BY <1>2 DEF LocksInv, NoLockWithoutHandle
<1>4. QED
  BY <1>1, <1>3

(* isopen keeps the invariant, in all three of its ways.                   *)
LEMMA isopenKeeps ==
  ASSUME LocksInv, NEW h \in Handle, NEW mode \in {"rd", "wr"},
         isopen(h, mode)
  PROVE  LocksInv'
<1> DEFINE p == Home[h]
<1>1. p \in Proc /\ h \in Of(p) /\ TypeOK /\ LockingPart
  BY HomeFacts DEF LocksInv
<1> HIDE DEF p
<1>2. /\ excl' = [excl EXCEPT ![h] = (mode = "wr")]
      /\ iisopen' = [iisopen EXCEPT ![h] = "open"]
      /\ UNCHANGED <<ivbintrans, islocking>>
      /\ islocking[p] = 0
  BY DEF isopen, Ready, p
<1>3. \/ UNCHANGED <<openlock, os, vblock, datalocked, held>>
      \/ /\ openlock' = [openlock EXCEPT ![p] = mode]
         /\ UNCHANGED <<os, vblock, datalocked, held>>
      \/ openlock' = [openlock EXCEPT ![p] = mode] /\ UnlockFile(h)
  BY DEF isopen, fcntl, p
<1>4. openlock' \in [Proc -> {"none", "rd", "wr"}]
      /\ \A q \in Proc \ {p} : openlock'[q] = openlock[q]
  BY <1>1, <1>3 DEF TypeOK
<1>5. /\ vblock' \in [Proc -> Blocks]
      /\ \A q \in Proc : vblock'[q] \in BlocksOf(Using(q))
      /\ os' \in [Row -> Proc \union {NoProc}]
      /\ \A r \in Row : os'[r] \in {os[r], NoProc}
      /\ datalocked' \in [Handle -> BOOLEAN]
      /\ held' \in [Handle -> SUBSET Row]
  <2>1. CASE UnlockFile(h)
    BY <2>1, UnlockFileKeeps
  <2>2. CASE UNCHANGED <<os, vblock, datalocked, held>>
    BY <2>2, <1>1 DEF LocksInv, TypeOK, BlocksPart, Blocks
  <2>3. QED
    BY <1>3, <2>1, <2>2
<1>6. TypeOK'
  BY <1>1, <1>2, <1>4, <1>5 DEF TypeOK, Blocks
<1>7. BlocksPart'
  <2>1. ASSUME NEW q \in Proc PROVE Using(q) \subseteq Using(q)'
    BY <1>1, <1>2 DEF Using, TypeOK, Of
  <2>2. ASSUME NEW q \in Proc PROVE vblock'[q] \in BlocksOf(Using(q)')
    BY <1>5, <2>1, BlocksOfMore
  <2>3. QED
    BY <2>2 DEF BlocksPart
<1>8. LockingPart'
  BY <1>1, <1>2 DEF LockingPart, TypeOK, Of
<1>9. NoLockWithoutHandle'
  <2>1. iisopen'[h] = "open"
    BY <1>1, <1>2 DEF TypeOK
  <2>2. \A q \in Proc \ {p} : \A g \in Of(q) : iisopen'[g] = iisopen[g]
    BY <1>1, <1>2 DEF TypeOK, Of, p
  <2>3. QED
    BY <1>1, <1>4, <1>5, <2>1, <2>2, StillOpen
<1>10. QED
  BY <1>6, <1>7, <1>8, <1>9 DEF LocksInv

(* A call of an open handle that keeps the list good keeps the invariant:  *)
(* the part all calls between an open and a close share.                   *)
LEMMA CallKeeps ==
  ASSUME LocksInv, NEW p \in Proc, NEW g \in Of(p), iisopen[g] = "open",
         NEW b \in BlocksOf(Using(p)),
         vblock' = [vblock EXCEPT ![p] = b],
         UNCHANGED <<iisopen, excl, openlock>>,
         ivbintrans' \in [Proc -> {"none", "begin", "needflush"}],
         os' \in [Row -> Proc \union {NoProc}],
         \A r \in Row : os'[r] \in {os[r], p, NoProc},
         datalocked' \in [Handle -> BOOLEAN],
         held' \in [Handle -> SUBSET Row],
         \/ islocking' = islocking
         \/ islocking' = [islocking EXCEPT ![p] = 0]
         \/ islocking' = [islocking EXCEPT ![p] = g]
  PROVE  LocksInv'
<1>1. TypeOK /\ BlocksPart /\ LockingPart /\ g \in Handle /\ 0 \notin Handle
  BY DEF LocksInv, Of
<1>2. vblock' \in [Proc -> Blocks] /\ BlocksPart'
  BY BlocksChanged
<1>3. TypeOK'
  BY <1>1, <1>2, ZenonT(30) DEF TypeOK, Blocks
<1>4. LockingPart'
  <2>1. ASSUME NEW q \in Proc, islocking'[q] # 0
        PROVE  islocking'[q] \in Of(q) /\ iisopen[islocking'[q]] = "open"
    <3>1. \/ islocking'[q] = islocking[q]
          \/ q = p /\ islocking'[q] = g
      BY <1>1, <2>1 DEF TypeOK
    <3>2. QED
      BY <1>1, <2>1, <3>1 DEF LockingPart
  <2>2. \A q \in Proc : Of(q)' = Of(q)
    BY DEF Of
  <2>3. QED
    BY <2>1, <2>2 DEF LockingPart
<1>5. NoLockWithoutHandle'
  <2>1. iisopen'[g] = "open" /\ iisopen' = iisopen /\ openlock' = openlock
    OBVIOUS
  <2>2. QED
    BY <2>1, StillOpen
<1>6. QED
  BY <1>2, <1>3, <1>4, <1>5 DEF LocksInv

(* Locking a row keeps the invariant.                                      *)
LEMMA LockRowKeeps ==
  ASSUME LocksInv, NEW h \in Handle, NEW r \in Row, LockRow(h, r)
  PROVE  LocksInv'
<1> DEFINE p == Home[h]
           b == ilockinsert(vblock[p], h, r).b
<1>1. /\ p \in Proc /\ h \in Of(p) /\ TypeOK
      /\ iisopen[h] = "open"
      /\ vblock' = [vblock EXCEPT ![p] = b]
      /\ os' = Locked(p, {r})
      /\ \/ held' = held
         \/ held' = [held EXCEPT ![h] = @ \union {r}]
      /\ UNCHANGED <<iisopen, excl, datalocked, ivbintrans, islocking,
                     openlock>>
  BY HomeFacts DEF LocksInv, LockRow, Shared
<1>2. b \in BlocksOf(Using(p))
  <2>1. h \in Using(p)
    BY <1>1 DEF Using
  <2>2. QED
    BY <1>1, <2>1, OwnBlocks, InsertKeeps
<1> HIDE DEF p, b
<1>3. /\ os' \in [Row -> Proc \union {NoProc}]
      /\ \A q \in Row : os'[q] \in {os[q], p, NoProc}
      /\ held' \in [Handle -> SUBSET Row]
      /\ datalocked' \in [Handle -> BOOLEAN]
      /\ ivbintrans' \in [Proc -> {"none", "begin", "needflush"}]
  <2>1. /\ os' \in [Row -> Proc \union {NoProc}]
        /\ \A q \in Row : os'[q] \in {os[q], p, NoProc}
    BY <1>1 DEF TypeOK, Locked
  <2>2. held' \in [Handle -> SUBSET Row]
    <3>1. held \in [Handle -> SUBSET Row]
      BY <1>1 DEF TypeOK
    <3>2. held[h] \union {r} \in SUBSET Row
      BY <3>1
    <3>3. QED
      BY <1>1, <3>1, <3>2
  <2>3. QED
    BY <1>1, <2>1, <2>2 DEF TypeOK
<1>4. QED
  BY <1>1, <1>2, <1>3, CallKeeps

(* A read with ISAUTOLOCK keeps the invariant, whether it gets the row or  *)
(* not.                                                                    *)
LEMMA ReadAutoLockKeeps ==
  ASSUME LocksInv, NEW h \in Handle, NEW r \in Row, ReadAutoLock(h, r)
  PROVE  LocksInv'
<1> DEFINE p == Home[h]
           u == UnlockLoop(vblock[p], h).b
           b == ilockinsert(u, h, r).b
<1>1. /\ p \in Proc /\ h \in Of(p) /\ TypeOK
      /\ iisopen[h] = "open"
      /\ vblock' \in {[vblock EXCEPT ![p] = b], [vblock EXCEPT ![p] = u]}
      /\ \/ os' = [Unlocked(p, Row) EXCEPT ![r] = p]
         \/ os' = Unlocked(p, Row)
      /\ \E R \in SUBSET Row : held' = [held EXCEPT ![h] = R]
      /\ datalocked' = [datalocked EXCEPT ![h] = FALSE]
      /\ UNCHANGED <<iisopen, excl, ivbintrans, islocking, openlock>>
  BY HomeFacts DEF LocksInv, ReadAutoLock, Shared
<1>2. u \in BlocksOf(Using(p)) /\ Using(p) \in SUBSET Handle
  BY <1>1, OwnBlocks
<1> HIDE DEF u
<1>3. b \in BlocksOf(Using(p))
  <2>1. h \in Using(p)
    BY <1>1 DEF Using
  <2>2. QED
    BY <1>2, <2>1, InsertKeeps
<1> HIDE DEF p, b
<1>4. /\ os' \in [Row -> Proc \union {NoProc}]
      /\ \A q \in Row : os'[q] \in {os[q], p, NoProc}
      /\ held' \in [Handle -> SUBSET Row]
      /\ datalocked' \in [Handle -> BOOLEAN]
      /\ ivbintrans' \in [Proc -> {"none", "begin", "needflush"}]
  <2>1. /\ os' \in [Row -> Proc \union {NoProc}]
        /\ \A q \in Row : os'[q] \in {os[q], p, NoProc}
    <3> DEFINE f == Unlocked(p, Row)
    <3>1. /\ f \in [Row -> Proc \union {NoProc}]
          /\ \A q \in Row : f[q] \in {os[q], NoProc}
      BY <1>1 DEF TypeOK, Unlocked
    <3>2. os' = f \/ os' = [f EXCEPT ![r] = p]
      BY <1>1
    <3> HIDE DEF f
    <3>3. QED
      BY <1>1, <3>1, <3>2
  <2>2. held' \in [Handle -> SUBSET Row]
    BY <1>1 DEF TypeOK
  <2>3. QED
    BY <1>1, <2>1, <2>2 DEF TypeOK
<1>5. CASE vblock' = [vblock EXCEPT ![p] = b]
  BY <1>1, <1>3, <1>4, <1>5, CallKeeps
<1>6. CASE vblock' = [vblock EXCEPT ![p] = u]
  BY <1>1, <1>2, <1>4, <1>6, CallKeeps
<1>7. QED
  BY <1>1, <1>5, <1>6

(* isrelrec keeps the invariant.                                           *)
LEMMA isrelrecKeeps ==
  ASSUME LocksInv, NEW h \in Handle, NEW r \in Row, isrelrec(h, r)
  PROVE  LocksInv'
<1> DEFINE p == Home[h]
           b == ilockdelete(vblock[p], h, r).b
<1>1. /\ p \in Proc /\ h \in Of(p) /\ TypeOK
      /\ iisopen[h] = "open"
      /\ vblock' = [vblock EXCEPT ![p] = b]
      /\ os' = Unlocked(p, {r})
      /\ held' = [held EXCEPT ![h] = @ \ {r}]
      /\ UNCHANGED <<iisopen, excl, datalocked, ivbintrans, islocking,
                     openlock>>
  BY HomeFacts DEF LocksInv, isrelrec, Shared
<1>2. b \in BlocksOf(Using(p))
  BY <1>1, OwnBlocks, DeleteKeeps
<1> HIDE DEF p, b
<1>3. /\ os' \in [Row -> Proc \union {NoProc}]
      /\ \A q \in Row : os'[q] \in {os[q], p, NoProc}
      /\ held' \in [Handle -> SUBSET Row]
      /\ datalocked' \in [Handle -> BOOLEAN]
      /\ ivbintrans' \in [Proc -> {"none", "begin", "needflush"}]
  BY <1>1 DEF TypeOK, Unlocked
<1>4. QED
  BY <1>1, <1>2, <1>3, CallKeeps

(* isrelease and isunlock keep the invariant.                              *)
LEMMA UnlockKeeps ==
  ASSUME LocksInv, NEW h \in Handle, isrelease(h) \/ isunlock(h)
  PROVE  LocksInv'
<1> DEFINE p == Home[h]
           b == UnlockLoop(vblock[p], h).b
<1>1. /\ p \in Proc /\ h \in Of(p) /\ TypeOK
      /\ iisopen[h] = "open"
      /\ vblock' = [vblock EXCEPT ![p] = b]
      /\ os' = Unlocked(p, Row)
      /\ held' = [held EXCEPT ![h] = {}]
      /\ datalocked' = [datalocked EXCEPT ![h] = FALSE]
      /\ UNCHANGED <<iisopen, excl, ivbintrans, islocking, openlock>>
  BY HomeFacts DEF LocksInv, isrelease, isunlock, UnlockFile, Shared
<1>2. b \in BlocksOf(Using(p))
  BY <1>1, OwnBlocks
<1> HIDE DEF p, b
<1>3. /\ os' \in [Row -> Proc \union {NoProc}]
      /\ \A q \in Row : os'[q] \in {os[q], p, NoProc}
      /\ held' \in [Handle -> SUBSET Row]
      /\ datalocked' \in [Handle -> BOOLEAN]
      /\ ivbintrans' \in [Proc -> {"none", "begin", "needflush"}]
  BY <1>1 DEF TypeOK, Unlocked
<1>4. QED
  BY <1>1, <1>2, <1>3, CallKeeps

(* The unlocking part of islock keeps the invariant.                       *)
LEMMA islockKeeps ==
  ASSUME LocksInv, NEW h \in Handle, islock(h)
  PROVE  LocksInv'
<1> DEFINE p == Home[h]
           b == UnlockLoop(vblock[p], h).b
           R == UnlockLoop(vblock[p], h).rows
<1>1. /\ p \in Proc /\ h \in Of(p) /\ TypeOK
      /\ iisopen[h] = "open"
      /\ vblock' = [vblock EXCEPT ![p] = b]
      /\ os' = Unlocked(p, R)
      /\ held' = [held EXCEPT ![h] = {}]
      /\ datalocked' = [datalocked EXCEPT ![h] = TRUE]
      /\ islocking' = [islocking EXCEPT ![p] = h]
      /\ UNCHANGED <<iisopen, excl, ivbintrans, openlock>>
  BY HomeFacts DEF LocksInv, islock, Shared
<1>2. b \in BlocksOf(Using(p))
  BY <1>1, OwnBlocks
<1> HIDE DEF p, b, R
<1>3. /\ os' \in [Row -> Proc \union {NoProc}]
      /\ \A q \in Row : os'[q] \in {os[q], p, NoProc}
      /\ held' \in [Handle -> SUBSET Row]
      /\ datalocked' \in [Handle -> BOOLEAN]
      /\ ivbintrans' \in [Proc -> {"none", "begin", "needflush"}]
  BY <1>1 DEF TypeOK, Unlocked
<1>4. QED
  BY <1>1, <1>2, <1>3, CallKeeps

(* The locking part of islock keeps the invariant.                         *)
LEMMA islockRangeKeeps ==
  ASSUME LocksInv, NEW p \in Proc, islockRange(p)
  PROVE  LocksInv'
<1> DEFINE g == islocking[p]
           b == vblock[p]
<1>1. /\ g \in Of(p) /\ TypeOK
      /\ iisopen[g] = "open"
      /\ os' = Locked(p, Row) \/ os' = os
      /\ held' = [held EXCEPT ![g] = Row] \/ held' = held
      /\ islocking' = [islocking EXCEPT ![p] = 0]
      /\ UNCHANGED <<iisopen, excl, datalocked, ivbintrans, vblock, openlock>>
  BY DEF LocksInv, islockRange, LockingPart
<1>2. b \in BlocksOf(Using(p))
  BY OwnBlocks
<1>3. vblock' = [vblock EXCEPT ![p] = b]
  BY <1>1 DEF TypeOK
<1> HIDE DEF g, b
<1>4. /\ os' \in [Row -> Proc \union {NoProc}]
      /\ \A q \in Row : os'[q] \in {os[q], p, NoProc}
      /\ held' \in [Handle -> SUBSET Row]
      /\ datalocked' \in [Handle -> BOOLEAN]
      /\ ivbintrans' \in [Proc -> {"none", "begin", "needflush"}]
  <2>1. /\ os' \in [Row -> Proc \union {NoProc}]
        /\ \A q \in Row : os'[q] \in {os[q], p, NoProc}
    BY <1>1 DEF TypeOK, Locked
  <2>2. held' \in [Handle -> SUBSET Row]
    BY <1>1 DEF TypeOK
  <2>3. QED
    BY <1>1, <2>1, <2>2 DEF TypeOK
<1>5. QED
  BY <1>1, <1>2, <1>3, <1>4, CallKeeps

(* isbegin and the first log record keep the invariant.                    *)
LEMMA BeginKeeps ==
  ASSUME LocksInv, NEW p \in Proc, isbegin(p) \/ LogRecord(p)
  PROVE  LocksInv'
<1>1. /\ UNCHANGED <<handles, fcntl, vblock, islocking>>
      /\ \E t \in {"begin", "needflush"} :
           ivbintrans' = [ivbintrans EXCEPT ![p] = t]
  BY DEF isbegin, LogRecord
<1>2. UNCHANGED <<iisopen, excl, datalocked, held, openlock, os, vblock,
                  islocking>>
  BY <1>1 DEF handles, fcntl
<1>3. TypeOK'
  BY <1>1, <1>2 DEF LocksInv, TypeOK
<1>4. BlocksPart'
  BY <1>2 DEF LocksInv, BlocksPart, Using
<1>5. LockingPart' /\ NoLockWithoutHandle'
  BY <1>2 DEF LocksInv, LockingPart, NoLockWithoutHandle
<1>6. QED
  BY <1>3, <1>4, <1>5 DEF LocksInv

(* What ivbclose2 makes of the lists, of the handles and of openlock.      *)
LEMMA ClosedKeeps ==
  ASSUME LocksInv, NEW p \in Proc, NEW S \in SUBSET Of(p),
         NEW H, NEW b \in BlocksOf(H), Closed(p, S, b), Ready(p)
  PROVE  /\ iisopen' \in [Handle -> {"absent", "open", "closing", "buffered"}]
         /\ vblock' \in [Proc -> Blocks]
         /\ openlock' \in [Proc -> {"none", "rd", "wr"}]
         /\ held' \in [Handle -> SUBSET Row]
         /\ BlocksPart'
         /\ \A q \in Proc \ {p} : \A g \in Of(q) : iisopen'[g] = iisopen[g]
         /\ \A q \in Proc \ {p} : openlock'[q] = openlock[q]
         /\ (\A g \in Of(p) : iisopen'[g] \in {"absent", "buffered"})
              => openlock'[p] = "none"
<1> DEFINE c == [list |-> <<>>, free |-> Reverse(RowsOf(b.list)) \o b.free]
           last == \A g \in Of(p) \ S : iisopen[g] \in {"absent", "buffered"}
<1>1. /\ iisopen' = [h \in Handle |->
                       IF h \in S THEN "buffered" ELSE iisopen[h]]
      /\ vblock' = [vblock EXCEPT ![p] = c]
      /\ openlock' = IF last THEN [openlock EXCEPT ![p] = "none"]
                     ELSE openlock
      /\ held' = [h \in Handle |-> IF h \in S THEN {} ELSE held[h]]
  BY DEF Closed
<1>2. \A G : c \in BlocksOf(G)
  BY FreedKeeps
<1>3. c \in Blocks
  BY <1>2 DEF BlocksOf
<1> HIDE DEF c
<1>4. TypeOK /\ BlocksPart /\ vblock \in [Proc -> Blocks]
  BY DEF LocksInv, TypeOK, Blocks
<1>5. /\ iisopen' \in [Handle -> {"absent", "open", "closing", "buffered"}]
      /\ vblock' \in [Proc -> Blocks]
      /\ openlock' \in [Proc -> {"none", "rd", "wr"}]
      /\ held' \in [Handle -> SUBSET Row]
  BY <1>1, <1>3, <1>4 DEF TypeOK
<1>6. \A q \in Proc \ {p} : \A g \in Of(q) : iisopen'[g] = iisopen[g]
  BY <1>1 DEF Of
<1>7. \A q \in Proc \ {p} : openlock'[q] = openlock[q]
  BY <1>1, <1>4 DEF TypeOK
<1>8. ASSUME NEW q \in Proc PROVE vblock'[q] \in BlocksOf(Using(q)')
  <2>1. CASE q = p
    BY <1>1, <1>2, <1>4, <2>1
  <2>2. CASE q # p
    <3>1. vblock'[q] = vblock[q]
      BY <1>1, <1>4, <2>2
    <3>2. Using(q)' = Using(q)
      BY <1>6, <2>2 DEF Using
    <3>3. QED
      BY <1>4, <3>1, <3>2 DEF BlocksPart
  <2>3. QED
    BY <2>1, <2>2
<1>9. ASSUME \A g \in Of(p) : iisopen'[g] \in {"absent", "buffered"}
      PROVE  openlock'[p] = "none"
  <2>1. last
    BY <1>1, <1>9 DEF Of
  <2>2. QED
    BY <1>1, <1>4, <2>1 DEF TypeOK
<1>10. QED
  BY <1>5, <1>6, <1>7, <1>8, <1>9 DEF BlocksPart

(* Handles that are closed take the locks with them: the rows are unlocked *)
(* unless the process keeps another handle.                                *)
LEMMA ClosedLocks ==
  ASSUME LocksInv, NEW p \in Proc, NEW S \in SUBSET Of(p),
         NEW H, NEW b \in BlocksOf(H), Closed(p, S, b), Ready(p),
         islocking' = islocking,
         excl' \in [Handle -> BOOLEAN],
         datalocked' \in [Handle -> BOOLEAN],
         ivbintrans' \in [Proc -> {"none", "begin", "needflush"}],
         \/ os' = Unlocked(p, Row)
         \/ /\ os' = os
            /\ \E g \in Of(p) : iisopen'[g] \notin {"absent", "buffered"}
  PROVE  LocksInv'
<1>1. TypeOK /\ LockingPart /\ NoLockWithoutHandle
  BY DEF LocksInv
<1>2. /\ iisopen' \in [Handle -> {"absent", "open", "closing", "buffered"}]
      /\ vblock' \in [Proc -> Blocks]
      /\ openlock' \in [Proc -> {"none", "rd", "wr"}]
      /\ held' \in [Handle -> SUBSET Row]
      /\ BlocksPart'
  BY ClosedKeeps
<1>3. /\ \A q \in Proc \ {p} : \A g \in Of(q) : iisopen'[g] = iisopen[g]
      /\ \A q \in Proc \ {p} : openlock'[q] = openlock[q]
      /\ (\A g \in Of(p) : iisopen'[g] \in {"absent", "buffered"})
           => openlock'[p] = "none"
  BY ClosedKeeps
<1>4. /\ os' \in [Row -> Proc \union {NoProc}]
      /\ \A r \in Row : os'[r] \in {os[r], NoProc}
  BY <1>1 DEF TypeOK, Unlocked
<1>5. TypeOK'
  BY <1>1, <1>2, <1>4 DEF TypeOK, Blocks
<1>6. LockingPart'
  <2>1. islocking[p] = 0
    BY DEF Ready
  <2>2. QED
    BY <1>1, <1>3, <2>1 DEF LockingPart
<1>7. ASSUME NEW q \in Proc,
             \A h \in Of(q) : iisopen'[h] \in {"absent", "buffered"}
      PROVE  openlock'[q] = "none" /\ \A r \in Row : os'[r] # q
  <2>1. CASE q = p
    <3>1. os' = Unlocked(p, Row) /\ openlock'[q] = "none"
      BY <1>3, <1>7, <2>1
    <3>2. QED
      BY <2>1, <3>1 DEF Unlocked
  <2>2. CASE q # p
    <3>1. \A h \in Of(q) : iisopen[h] \in {"absent", "buffered"}
      BY <1>3, <1>7, <2>2
    <3>2. openlock[q] = "none" /\ \A r \in Row : os[r] # q
      BY <1>1, <3>1 DEF NoLockWithoutHandle
    <3>3. QED
      BY <1>3, <1>4, <2>2, <3>2
  <2>3. QED
    BY <2>1, <2>2
<1>8. NoLockWithoutHandle'
  BY <1>7 DEF NoLockWithoutHandle, Of
<1>9. QED
  BY <1>2, <1>5, <1>6, <1>8 DEF LocksInv

(* isclose keeps the invariant, inside a transaction and outside.          *)
LEMMA iscloseKeeps ==
  ASSUME LocksInv, NEW h \in Handle, isclose(h)
  PROVE  LocksInv'
<1> DEFINE p == Home[h]
           last == \A g \in Of(p) \ {h} : iisopen[g] \in {"absent", "buffered"}
           b == IF excl[h] THEN vblock[p] ELSE UnlockLoop(vblock[p], h).b
<1>1. /\ p \in Proc /\ h \in Of(p) /\ TypeOK /\ LockingPart /\ Ready(p)
      /\ iisopen[h] = "open"
      /\ UNCHANGED <<excl, ivbintrans, islocking>>
  BY HomeFacts DEF LocksInv, isclose
<1>2. CASE /\ iisopen' = [iisopen EXCEPT ![h] = "closing"]
           /\ UNCHANGED <<fcntl, vblock, datalocked, held>>
  <2> HIDE DEF p
  <2>1. UNCHANGED <<openlock, os, vblock, datalocked, held>>
    BY <1>2 DEF fcntl
  <2>2. TypeOK'
    BY <1>1, <1>2, <2>1 DEF TypeOK
  <2>3. LockingPart'
    BY <1>1, <1>2, <2>1 DEF LockingPart, TypeOK, Of, Ready, p
  <2>4. BlocksPart'
    <3>1. \A q \in Proc : Using(q)' = Using(q)
      BY <1>1, <1>2 DEF Using, TypeOK, Of
    <3>2. QED
      BY <2>1, <3>1 DEF LocksInv, BlocksPart
  <2>5. NoLockWithoutHandle'
    <3>1. /\ iisopen'[h] = "closing"
          /\ \A g \in Handle \ {h} : iisopen'[g] = iisopen[g]
      BY <1>1, <1>2 DEF TypeOK, Of
    <3>2. \A q \in Proc \ {p} : \A g \in Of(q) : iisopen'[g] = iisopen[g]
      BY <3>1, <1>1 DEF Of
    <3>3. QED
      BY <1>1, <2>1, <3>1, <3>2, StillOpen
  <2>6. QED
    BY <2>2, <2>3, <2>4, <2>5 DEF LocksInv
<1>3. CASE /\ Closed(p, {h}, b)
           /\ os' = IF last \/ ~excl[h] THEN Unlocked(p, Row) ELSE os
           /\ datalocked' = [datalocked EXCEPT ![h] = @ /\ excl[h]]
  <2>1. b \in BlocksOf(Using(p))
    BY <1>1, OwnBlocks
  <2> HIDE DEF b
  <2>2. iisopen' = [g \in Handle |->
                      IF g \in {h} THEN "buffered" ELSE iisopen[g]]
    BY <1>3 DEF Closed
  <2>3. \/ os' = Unlocked(p, Row)
        \/ /\ os' = os
           /\ \E g \in Of(p) : iisopen'[g] \notin {"absent", "buffered"}
    <3>1. CASE last \/ ~excl[h]
      BY <1>3, <3>1
    <3>2. CASE ~(last \/ ~excl[h])
      <4>1. PICK g \in Of(p) \ {h} : iisopen[g] \notin {"absent", "buffered"}
        BY <3>2
      <4>2. g \in Of(p) /\ iisopen'[g] = iisopen[g]
        BY <2>2, <4>1 DEF Of
      <4>3. QED
        BY <1>3, <3>2, <4>1, <4>2
    <3>3. QED
      BY <3>1, <3>2
  <2> HIDE DEF p, last
  <2>4. /\ excl' \in [Handle -> BOOLEAN]
        /\ datalocked' \in [Handle -> BOOLEAN]
        /\ ivbintrans' \in [Proc -> {"none", "begin", "needflush"}]
        /\ islocking' = islocking /\ {h} \in SUBSET Of(p)
    BY <1>1, <1>3 DEF TypeOK
  <2>5. QED
    BY <1>1, <1>3, <2>1, <2>3, <2>4, ClosedLocks
<1>4. QED
  BY <1>2, <1>3 DEF isclose

(* iscommit and isrollback keep the invariant, with every set of handles   *)
(* they close.                                                             *)
LEMMA EndTransKeeps ==
  ASSUME LocksInv, NEW p \in Proc, NEW after \in {"none", "begin"},
         EndTrans(p, after)
  PROVE  LocksInv'
<1> DEFINE files == {h \in Of(p) : iisopen[h] \in {"open", "closing"}}
           S     == IF ivbintrans[p] = "begin"
                    THEN {h \in Of(p) : iisopen[h] = "closing"} ELSE files
<1>1. /\ Ready(p) /\ TypeOK /\ LockingPart
      /\ UNCHANGED <<excl, datalocked, islocking>>
      /\ \E t \in {"none", "begin"} :
           ivbintrans' = [ivbintrans EXCEPT ![p] = t]
  BY DEF LocksInv, EndTrans
<1>2. /\ excl' \in [Handle -> BOOLEAN]
      /\ datalocked' \in [Handle -> BOOLEAN]
      /\ ivbintrans' \in [Proc -> {"none", "begin", "needflush"}]
      /\ islocking' = islocking
  BY <1>1 DEF TypeOK
<1>3. CASE UNCHANGED <<iisopen, fcntl, vblock, held>>
  <2>1. UNCHANGED <<iisopen, excl, datalocked, held, openlock, os, vblock,
                    islocking>>
    BY <1>1, <1>3 DEF fcntl
  <2>2. TypeOK'
    BY <1>1, <1>2, <2>1 DEF TypeOK
  <2>3. BlocksPart'
    BY <2>1 DEF LocksInv, BlocksPart, Using
  <2>4. LockingPart' /\ NoLockWithoutHandle'
    BY <2>1 DEF LocksInv, LockingPart, NoLockWithoutHandle
  <2>5. QED
    BY <2>2, <2>3, <2>4 DEF LocksInv
<1>4. CASE /\ Closed(p, S, vblock[p])
           /\ os' = IF S = files THEN Unlocked(p, Row) ELSE os
  <2>1. vblock[p] \in BlocksOf(Using(p))
    BY OwnBlocks
  <2>2. iisopen' = [g \in Handle |->
                      IF g \in S THEN "buffered" ELSE iisopen[g]]
    BY <1>4 DEF Closed
  <2>3. \/ os' = Unlocked(p, Row)
        \/ /\ os' = os
           /\ \E g \in Of(p) : iisopen'[g] \notin {"absent", "buffered"}
    <3>1. CASE S = files
      BY <1>4, <3>1
    <3>2. CASE S # files
      <4>1. PICK g \in files : g \notin S
        BY <3>2
      <4>2. g \in Of(p) /\ iisopen'[g] = iisopen[g]
        BY <2>2, <4>1 DEF Of
      <4>3. QED
        BY <1>4, <3>2, <4>1, <4>2
    <3>3. QED
      BY <3>1, <3>2
  <2>4. S \in SUBSET Of(p)
    OBVIOUS
  <2> HIDE DEF S
  <2>5. QED
    BY <1>1, <1>2, <1>4, <2>1, <2>3, <2>4, ClosedLocks
<1>5. QED
  BY <1>3, <1>4 DEF EndTrans

(* A crash keeps the invariant.                                            *)
LEMMA CrashKeeps ==
  ASSUME LocksInv, NEW p \in Proc, Crash(p)
  PROVE  LocksInv'
<1>1. TypeOK /\ BlocksPart /\ LockingPart /\ NoLockWithoutHandle
  BY DEF LocksInv
<1>2. /\ iisopen' = [h \in Handle |->
                       IF h \in Of(p) THEN "absent" ELSE iisopen[h]]
      /\ excl' = [h \in Handle |-> excl[h] /\ h \notin Of(p)]
      /\ datalocked' = [h \in Handle |-> datalocked[h] /\ h \notin Of(p)]
      /\ held' = [h \in Handle |-> IF h \in Of(p) THEN {} ELSE held[h]]
      /\ ivbintrans' = [ivbintrans EXCEPT ![p] = "none"]
      /\ vblock' = [vblock EXCEPT ![p] = [list |-> <<>>, free |-> <<>>]]
      /\ islocking' = [islocking EXCEPT ![p] = 0]
      /\ openlock' = [openlock EXCEPT ![p] = "none"]
      /\ os' = Unlocked(p, Row)
  BY DEF Crash
<1>3. [list |-> <<>>, free |-> <<>>] \in Blocks
  BY DEF Blocks
<1>4. \A H : [list |-> <<>>, free |-> <<>>] \in BlocksOf(H)
  BY <1>3 DEF BlocksOf, Sorted
<1>5. os' \in [Row -> Proc \union {NoProc}]
      /\ \A r \in Row : os'[r] \in {os[r], NoProc} /\ os'[r] # p
  BY <1>1, <1>2 DEF TypeOK, Unlocked
<1>6. vblock' \in [Proc -> Blocks]
  BY <1>1, <1>2, <1>3 DEF TypeOK, Blocks
<1>7. TypeOK'
  <2>1. /\ excl' \in [Handle -> BOOLEAN] /\ datalocked' \in [Handle -> BOOLEAN]
    BY <1>1, <1>2 DEF TypeOK
  <2>2. QED
    BY <1>1, <1>2, <1>5, <1>6, <2>1 DEF TypeOK, Blocks
<1>8. \A q \in Proc \ {p} : \A g \in Of(q) : iisopen'[g] = iisopen[g]
  BY <1>2 DEF Of
<1>9. ASSUME NEW q \in Proc PROVE vblock'[q] \in BlocksOf(Using(q)')
  <2>1. CASE q = p
    BY <1>1, <1>2, <1>4, <2>1 DEF TypeOK
  <2>2. CASE q # p
    <3>1. vblock'[q] = vblock[q]
      BY <1>1, <1>2, <2>2 DEF TypeOK
    <3>2. Using(q)' = Using(q)
      BY <1>8, <2>2 DEF Using
    <3>3. QED
      BY <1>1, <3>1, <3>2 DEF BlocksPart
  <2>3. QED
    BY <2>1, <2>2
<1>10. LockingPart'
  BY <1>1, <1>2, <1>8 DEF LockingPart, TypeOK
<1>11. NoLockWithoutHandle'
  <2>1. ASSUME NEW q \in Proc,
               \A h \in Of(q) : iisopen'[h] \in {"absent", "buffered"}
        PROVE  openlock'[q] = "none" /\ \A r \in Row : os'[r] # q
    <3>1. CASE q = p
      BY <1>1, <1>2, <1>5, <3>1 DEF TypeOK
    <3>2. CASE q # p
      <4>1. \A h \in Of(q) : iisopen[h] \in {"absent", "buffered"}
        BY <1>8, <2>1, <3>2
      <4>2. openlock[q] = "none" /\ \A r \in Row : os[r] # q
        BY <1>1, <4>1 DEF NoLockWithoutHandle
      <4>3. openlock'[q] = openlock[q]
        BY <1>1, <1>2, <3>2 DEF TypeOK
      <4>4. QED
        BY <1>5, <4>2, <4>3
    <3>3. QED
      BY <3>1, <3>2
  <2>2. QED
    BY <2>1 DEF NoLockWithoutHandle, Of
<1>12. QED
  BY <1>7, <1>9, <1>10, <1>11 DEF LocksInv, BlocksPart

(* The invariant holds in every state.                                     *)
THEOREM Inductive == Spec => []LocksInv
<1>1. Init => LocksInv
  BY InitLocks
<1>2. LocksInv /\ [Next]_vars => LocksInv'
  <2> SUFFICES ASSUME LocksInv, [Next]_vars PROVE LocksInv'
    OBVIOUS
  <2>1. ASSUME NEW h \in Handle, NEW mode \in {"rd", "wr"}, isopen(h, mode)
        PROVE  LocksInv'
    BY <2>1, isopenKeeps
  <2>2. ASSUME NEW h \in Handle, isclose(h) PROVE LocksInv'
    BY <2>2, iscloseKeeps
  <2>3. ASSUME NEW h \in Handle, isrelease(h) \/ isunlock(h) PROVE LocksInv'
    BY <2>3, UnlockKeeps
  <2>4. ASSUME NEW h \in Handle, islock(h) PROVE LocksInv'
    BY <2>4, islockKeeps
  <2>5. ASSUME NEW h \in Handle, NEW r \in Row, LockRow(h, r) PROVE LocksInv'
    BY <2>5, LockRowKeeps
  <2>6. ASSUME NEW h \in Handle, NEW r \in Row, ReadAutoLock(h, r)
        PROVE  LocksInv'
    BY <2>6, ReadAutoLockKeeps
  <2>7. ASSUME NEW h \in Handle, NEW r \in Row, isrelrec(h, r) PROVE LocksInv'
    BY <2>7, isrelrecKeeps
  <2>8. ASSUME NEW p \in Proc, islockRange(p) PROVE LocksInv'
    BY <2>8, islockRangeKeeps
  <2>9. ASSUME NEW p \in Proc, isbegin(p) \/ LogRecord(p) PROVE LocksInv'
    BY <2>9, BeginKeeps
  <2>10. ASSUME NEW p \in Proc, iscommit(p) \/ isrollback(p) PROVE LocksInv'
    BY <2>10, EndTransKeeps DEF iscommit, isrollback
  <2>11. ASSUME NEW p \in Proc, Crash(p) PROVE LocksInv'
    BY <2>11, CrashKeeps
  <2>12. CASE UNCHANGED vars
    <3>1. UNCHANGED <<iisopen, excl, datalocked, held, openlock, os,
                      ivbintrans, vblock, islocking>>
      BY <2>12 DEF vars, handles, fcntl
    <3>2. TypeOK' /\ LockingPart' /\ NoLockWithoutHandle'
      BY <3>1 DEF LocksInv, TypeOK, LockingPart, NoLockWithoutHandle
    <3>3. BlocksPart'
      BY <3>1 DEF LocksInv, BlocksPart, Using
    <3>4. QED
      BY <3>2, <3>3 DEF LocksInv
  <2>13. QED
    BY <2>1, <2>2, <2>3, <2>4, <2>5, <2>6, <2>7, <2>8, <2>9, <2>10, <2>11,
       <2>12 DEF Next
<1>3. QED
  BY <1>1, <1>2, PTL DEF Spec

(* TypeOK: every value has its type in every state.                        *)
THEOREM TypeCorrect == Spec => []TypeOK
<1>1. LocksInv => TypeOK
  BY DEF LocksInv
<1>2. QED
  BY <1>1, Inductive, PTL

(* NoLockWithoutHandle: when the last handle of a process is closed        *)
(* (isclose, iscommit, isrollback, a crash), neither the open lock nor a row*)
(* lock of the process is left, whatever closes were put off by a          *)
(* transaction and whatever handles were reused.                           *)
THEOREM LocksEnd == Spec => []NoLockWithoutHandle
<1>1. LocksInv => NoLockWithoutHandle
  BY DEF LocksInv
<1>2. QED
  BY <1>1, Inductive, PTL

(* ListWellFormed: the block list stays sorted and holds blocks of handles *)
(* in use only, through ilockinsert, ilockdelete, the unlock loop over the *)
(* free list and ivbclose2.                                                *)
THEOREM ListsSorted == Spec => []ListWellFormed
<1>1. LocksInv => ListWellFormed
  <2> SUFFICES ASSUME LocksInv, NEW p \in Proc,
                      NEW i \in 1..Len(vblock[p].list)
               PROVE  /\ i > 1 => vblock[p].list[i - 1].row
                                    <= vblock[p].list[i].row
                      /\ iisopen[vblock[p].list[i].handle]
                           \in {"open", "closing"}
    BY DEF ListWellFormed
  <2>1. /\ Sorted(vblock[p].list)
        /\ \A j \in 1..Len(vblock[p].list) :
             vblock[p].list[j].handle \in Using(p)
        /\ Len(vblock[p].list) \in Nat
    BY BlockFacts DEF LocksInv, BlocksPart, BlocksOf
  <2>2. i > 1 => i \in 2..Len(vblock[p].list)
    BY <2>1
  <2>3. QED
    BY <2>1, <2>2 DEF Sorted, Using
<1>2. QED
  BY <1>1, Inductive, PTL

-----------------------------------------------------------------------------
(* HeldIsLocked, for the handles that are the only one of their process.   *)
Alone(h) == Of(Home[h]) = {h}

AloneHeld ==
  \A h \in Handle : Alone(h) => \A r \in held[h] : os[r] = Home[h]

(* What another process does to fcntl drops no lock of a handle.           *)
LEMMA HeldApart ==
  ASSUME LocksInv, AloneHeld, NEW g \in Handle, Alone(g),
         NEW q \in Proc, q # Home[g],
         held'[g] = held[g],
         \/ os' = os
         \/ \E rows \in SUBSET Row : os' = Unlocked(q, rows)
         \/ \E rows \in SUBSET Row : CanLock(q, rows) /\ os' = Locked(q, rows)
         \/ \E r \in Row : /\ CanLock(q, {r})
                           /\ os' = [Unlocked(q, Row) EXCEPT ![r] = q]
  PROVE  \A r \in held'[g] : os'[r] = Home[g]
<1> SUFFICES ASSUME NEW r \in held[g] PROVE os'[r] = Home[g]
  OBVIOUS
<1>1. os[r] = Home[g] /\ r \in Row /\ Home[g] \in Proc
  BY HomeFacts DEF AloneHeld, LocksInv, TypeOK
<1>2. os[r] \notin {q, NoProc}
  BY <1>1
<1>3. CASE os' = os
  BY <1>1, <1>3
<1>4. CASE \E rows \in SUBSET Row : os' = Unlocked(q, rows)
  BY <1>1, <1>2, <1>4 DEF Unlocked
<1>5. CASE \E rows \in SUBSET Row : CanLock(q, rows) /\ os' = Locked(q, rows)
  BY <1>1, <1>2, <1>5 DEF CanLock, Locked
<1>6. CASE \E t \in Row : /\ CanLock(q, {t})
                          /\ os' = [Unlocked(q, Row) EXCEPT ![t] = q]
  <2>1. PICK t \in Row : /\ CanLock(q, {t})
                         /\ os' = [Unlocked(q, Row) EXCEPT ![t] = q]
    BY <1>6
  <2>2. t # r
    BY <1>1, <1>2, <2>1 DEF CanLock
  <2>3. os'[r] = Unlocked(q, Row)[r]
    BY <1>1, <2>1, <2>2 DEF Unlocked
  <2>4. QED
    BY <1>1, <1>2, <2>3 DEF Unlocked
<1>7. QED
  BY <1>3, <1>4, <1>5, <1>6

(* No step drops the lock of a row held for a handle that is the only one of*)
(* its process.                                                            *)
LEMMA HeldKept ==
  ASSUME LocksInv, AloneHeld, [Next]_vars,
         NEW g \in Handle, Alone(g)
  PROVE  \A r \in held'[g] : os'[r] = Home[g]
<1> DEFINE Goal == \A r \in held'[g] : os'[r] = Home[g]
           p == Home[g]
<1>0. /\ TypeOK /\ p \in Proc /\ p # NoProc
      /\ held \in [Handle -> SUBSET Row]
      /\ os \in [Row -> Proc \union {NoProc}]
      /\ \A r \in held[g] : os[r] = p /\ r \in Row
      /\ \A h \in Handle : h # g => Home[h] # p /\ Home[h] \in Proc
  BY HomeFacts DEF LocksInv, TypeOK, AloneHeld, Alone, Of
<1>1. ASSUME NEW h \in Handle, UnlockFile(h) PROVE Goal
  <2>1. os' = Unlocked(Home[h], Row) /\ held' = [held EXCEPT ![h] = {}]
    BY <1>1 DEF UnlockFile
  <2>2. CASE h = g
    BY <1>0, <2>1, <2>2
  <2>3. CASE h # g
    <3>1. held'[g] = held[g]
      BY <1>0, <2>1, <2>3
    <3>2. QED
      BY <1>0, <2>1, <2>3, <3>1, HeldApart
  <2>4. QED
    BY <2>2, <2>3
<1>2. ASSUME UNCHANGED <<os, held>> PROVE Goal
  BY <1>0, <1>2
<1>3. ASSUME NEW q \in Proc, NEW S \in SUBSET Of(q), NEW b, Closed(q, S, b),
             S # {}, os' = Unlocked(q, Row) \/ os' = os
      PROVE  Goal
  <2>1. held' = [h \in Handle |-> IF h \in S THEN {} ELSE held[h]]
    BY <1>3 DEF Closed
  <2>2. CASE g \in S
    BY <2>1, <2>2
  <2>3. CASE g \notin S
    <3>1. q # p
      BY <1>3, <2>3 DEF Alone
    <3>2. held'[g] = held[g]
      BY <2>1, <2>3
    <3>3. QED
      BY <1>3, <3>1, <3>2, HeldApart
  <2>4. QED
    BY <2>2, <2>3
<1>4. ASSUME NEW h \in Handle, NEW mode \in {"rd", "wr"}, isopen(h, mode)
      PROVE  Goal
  <2>1. UnlockFile(h) \/ UNCHANGED <<os, held>>
    BY <1>4 DEF isopen, fcntl
  <2>2. QED
    BY <1>1, <1>2, <2>1
<1>5. ASSUME NEW h \in Handle, isclose(h) PROVE Goal
  <2> DEFINE b == IF excl[h] THEN vblock[Home[h]]
                  ELSE UnlockLoop(vblock[Home[h]], h).b
  <2>1. \/ UNCHANGED <<os, held>>
        \/ /\ Closed(Home[h], {h}, b)
           /\ os' = Unlocked(Home[h], Row) \/ os' = os
    BY <1>5 DEF isclose, fcntl
  <2>2. Home[h] \in Proc /\ {h} \in SUBSET Of(Home[h]) /\ {h} # {}
    BY HomeFacts
  <2> HIDE DEF b
  <2>3. QED
    BY <1>2, <1>3, <2>1, <2>2
<1>6. ASSUME NEW h \in Handle, isrelease(h) \/ isunlock(h) PROVE Goal
  BY <1>1, <1>6 DEF isrelease, isunlock
<1>7. ASSUME NEW h \in Handle, islock(h) PROVE Goal
  <2> DEFINE R == UnlockLoop(vblock[Home[h]], h).rows
  <2>1. os' = Unlocked(Home[h], R) /\ held' = [held EXCEPT ![h] = {}]
    BY <1>7 DEF islock
  <2>2. R \in SUBSET Row
    BY HomeFacts, OwnBlocks
  <2> HIDE DEF R
  <2>3. CASE h = g
    BY <1>0, <2>1, <2>3
  <2>4. CASE h # g
    <3>1. held'[g] = held[g]
      BY <1>0, <2>1, <2>4
    <3>2. QED
      BY <1>0, <2>1, <2>2, <2>4, <3>1, HeldApart
  <2>5. QED
    BY <2>3, <2>4
<1>8. ASSUME NEW h \in Handle, NEW r \in Row, LockRow(h, r) PROVE Goal
  <2>1. /\ CanLock(Home[h], {r}) /\ os' = Locked(Home[h], {r})
        /\ \/ held' = held
           \/ held' = [held EXCEPT ![h] = @ \union {r}]
    BY <1>8 DEF LockRow
  <2>2. CASE h = g
    <3>1. held'[g] \subseteq held[g] \union {r}
      BY <1>0, <2>1, <2>2
    <3>2. QED
      BY <1>0, <2>1, <2>2, <3>1 DEF Locked
  <2>3. CASE h # g
    <3>1. held'[g] = held[g]
      BY <1>0, <2>1, <2>3
    <3>2. {r} \in SUBSET Row
      OBVIOUS
    <3>3. QED
      BY <1>0, <2>1, <2>3, <3>1, <3>2, HeldApart
  <2>4. QED
    BY <2>2, <2>3
<1>9. ASSUME NEW h \in Handle, NEW r \in Row, ReadAutoLock(h, r) PROVE Goal
  <2>1. \/ /\ CanLock(Home[h], {r})
           /\ os' = [Unlocked(Home[h], Row) EXCEPT ![r] = Home[h]]
           /\ \/ held' = [held EXCEPT ![h] = {r}]
              \/ held' = [held EXCEPT ![h] = {}]
        \/ /\ os' = Unlocked(Home[h], Row)
           /\ held' = [held EXCEPT ![h] = {}]
    BY <1>9 DEF ReadAutoLock
  <2>2. CASE h = g
    <3>1. CASE held'[g] = {}
      BY <3>1
    <3>2. CASE /\ os' = [Unlocked(Home[h], Row) EXCEPT ![r] = Home[h]]
               /\ held' = [held EXCEPT ![h] = {r}]
      <4>1. held'[g] = {r}
        BY <1>0, <2>2, <3>2
      <4>2. os'[r] = p
        BY <2>2, <3>2 DEF Unlocked
      <4>3. QED
        BY <4>1, <4>2
    <3>3. held'[g] = {} \/ held' = [held EXCEPT ![h] = {r}]
      BY <1>0, <2>1, <2>2
    <3>4. QED
      BY <1>0, <2>1, <2>2, <3>1, <3>2, <3>3
  <2>3. CASE h # g
    <3>1. held'[g] = held[g]
      BY <1>0, <2>1, <2>3
    <3>2. Home[h] \in Proc /\ Home[h] # p
      BY <1>0, <2>3
    <3>3. QED
      BY <2>1, <3>1, <3>2, HeldApart
  <2>4. QED
    BY <2>2, <2>3
<1>10. ASSUME NEW h \in Handle, NEW r \in Row, isrelrec(h, r) PROVE Goal
  <2>1. os' = Unlocked(Home[h], {r}) /\ held' = [held EXCEPT ![h] = @ \ {r}]
    BY <1>10 DEF isrelrec
  <2>2. CASE h = g
    <3>1. held'[g] = held[g] \ {r}
      BY <1>0, <2>1, <2>2
    <3>2. QED
      BY <1>0, <2>1, <3>1 DEF Unlocked
  <2>3. CASE h # g
    <3>1. held'[g] = held[g] /\ {r} \in SUBSET Row
      BY <1>0, <2>1, <2>3
    <3>2. QED
      BY <1>0, <2>1, <2>3, <3>1, HeldApart
  <2>4. QED
    BY <2>2, <2>3
<1>11. ASSUME NEW q \in Proc, islockRange(q) PROVE Goal
  <2> DEFINE h == islocking[q]
  <2>1. /\ h # 0
        /\ \/ UNCHANGED <<os, held>>
           \/ /\ CanLock(q, Row) /\ os' = Locked(q, Row)
              /\ held' = [held EXCEPT ![h] = Row]
    BY <1>11 DEF islockRange
  <2>2. h \in Handle /\ Home[h] = q
    BY <2>1 DEF LocksInv, LockingPart, Of
  <2> HIDE DEF h
  <2>3. CASE h = g /\ os' = Locked(q, Row)
    <3>1. \A r \in Row : os'[r] = p
      BY <2>2, <2>3 DEF Locked
    <3>2. held'[g] \subseteq Row
      BY <1>0, <2>1
    <3>3. QED
      BY <3>1, <3>2
  <2>4. CASE /\ h # g /\ CanLock(q, Row) /\ os' = Locked(q, Row)
             /\ held' = [held EXCEPT ![h] = Row]
    <3>1. held'[g] = held[g] /\ Row \in SUBSET Row /\ q # p
      BY <1>0, <2>2, <2>4
    <3>2. QED
      BY <2>4, <3>1, HeldApart
  <2>5. QED
    BY <1>2, <2>1, <2>3, <2>4
<1>12. ASSUME NEW q \in Proc, isbegin(q) \/ LogRecord(q) PROVE Goal
  BY <1>2, <1>12 DEF isbegin, LogRecord, handles, fcntl
<1>13. ASSUME NEW q \in Proc, iscommit(q) \/ isrollback(q) PROVE Goal
  <2> DEFINE files == {h \in Of(q) : iisopen[h] \in {"open", "closing"}}
             S     == IF ivbintrans[q] = "begin"
                      THEN {h \in Of(q) : iisopen[h] = "closing"} ELSE files
  <2>1. \/ UNCHANGED <<os, held>>
        \/ /\ S # {} /\ Closed(q, S, vblock[q])
           /\ os' = Unlocked(q, Row) \/ os' = os
    BY <1>13 DEF iscommit, isrollback, EndTrans, fcntl
  <2>2. S \in SUBSET Of(q)
    OBVIOUS
  <2> HIDE DEF S
  <2>3. QED
    BY <1>2, <1>3, <2>1, <2>2
<1>14. ASSUME NEW q \in Proc, Crash(q) PROVE Goal
  <2>1. /\ held' = [h \in Handle |-> IF h \in Of(q) THEN {} ELSE held[h]]
        /\ os' = Unlocked(q, Row)
    BY <1>14 DEF Crash
  <2>2. CASE q = p
    <3>1. held'[g] = {}
      BY <2>1, <2>2 DEF Alone
    <3>2. QED
      BY <3>1
  <2>3. CASE q # p
    <3>1. held'[g] = held[g] /\ Row \in SUBSET Row
      BY <2>1, <2>3 DEF Of
    <3>2. QED
      BY <2>1, <2>3, <3>1, HeldApart
  <2>4. QED
    BY <2>2, <2>3
<1>15. ASSUME UNCHANGED vars PROVE Goal
  BY <1>2, <1>15 DEF vars, handles, fcntl
<1> HIDE DEF Goal
<1>16. Goal
  <2>1. CASE \E h \in Handle, mode \in {"rd", "wr"} : isopen(h, mode)
    BY <1>4, <2>1
  <2>2. CASE \E h \in Handle : isclose(h) \/ isrelease(h) \/ isunlock(h)
                              \/ islock(h)
    BY <1>5, <1>6, <1>7, <2>2
  <2>3. CASE \E h \in Handle, r \in Row :
               LockRow(h, r) \/ ReadAutoLock(h, r) \/ isrelrec(h, r)
    BY <1>8, <1>9, <1>10, <2>3
  <2>4. CASE \E q \in Proc : \/ islockRange(q) \/ isbegin(q) \/ LogRecord(q)
                            \/ iscommit(q) \/ isrollback(q) \/ Crash(q)
    BY <1>11, <1>12, <1>13, <1>14, <2>4
  <2>5. Next \/ UNCHANGED vars
    OBVIOUS
  <2>6. CASE Next
    BY <2>1, <2>2, <2>3, <2>4, <2>6 DEF Next
  <2>7. QED
    BY <1>15, <2>5, <2>6
<1>17. QED
  BY <1>16 DEF Goal

(* For a handle that is the only one of its process: every row locked for it*)
(* and not released is locked against the other processes.                 *)
THEOREM AloneHeldLocked == Spec => []AloneHeld
<1>1. Init => AloneHeld
  BY DEF Init, AloneHeld
<1>2. LocksInv /\ AloneHeld /\ [Next]_vars => AloneHeld'
  <2> SUFFICES ASSUME LocksInv, AloneHeld, [Next]_vars,
                      NEW h \in Handle, Alone(h)'
               PROVE  \A r \in held'[h] : os'[r] = Home[h]
    BY DEF AloneHeld
  <2>1. Alone(h)
    BY DEF Alone, Of
  <2>2. QED
    BY <2>1, HeldKept
<1>3. QED
  BY <1>1, <1>2, Inductive, PTL DEF Spec

(* HeldIsLocked, when every process uses one handle. (With several,        *)
(* isrelease and isclose of one drop the locks of the others: see the      *)
(* README.)                                                                *)
THEOREM HeldRowsLocked ==
  ASSUME \A g, h \in Handle : Home[g] = Home[h] => g = h
  PROVE  Spec => []HeldIsLocked
<1>1. AloneHeld => HeldIsLocked
  BY DEF AloneHeld, HeldIsLocked, Alone, Of
<1>2. QED
  BY <1>1, AloneHeldLocked, PTL
=============================================================================
