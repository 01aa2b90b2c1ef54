---------------------------- MODULE VBTreeProofs ----------------------------
(***************************************************************************)
(* Proofs about VBTree, for every number of nodes, every capacity, any     *)
(* keys and duplicate numbers, and trees of any height: the shape of the   *)
(* tree (TypeOK, NodesAccounted).                                          *)
(*                                                                         *)
(* That shape is Sound: the levels fall by one from a node to its child,   *)
(* no node but the root is empty or overfull, and the nodes hang together. *)
(* The last is said with a function up, the parent of each node (Hung):    *)
(* the children of a node are those it is the parent of, and every node    *)
(* but the root is the child of its parent. It is what makes               *)
(* NodesAccounted inductive: a path of entries from the root says nothing  *)
(* of the nodes beside it.                                                 *)
(*                                                                         *)
(* ivbkeyinsert and ivbkeydelete go up the path from the leaf, level by    *)
(* level, and between two levels the tree is not sound: the new half of a  *)
(* split node hangs on nothing yet (the set L of Hung), a freed node is    *)
(* still named by an entry of its parent (the set G). Rising and Falling   *)
(* say how far an operation has come; SaveStage and RemoveStage take it    *)
(* one level on.                                                           *)
(*                                                                         *)
(* Searches, steps and operations of the model are recursive functions     *)
(* over the levels. That such a function has values is StagesExist; which  *)
(* values is shown by going from one level to the next. The bisection in a *)
(* node is such a function as well; BisectExact says that it finds the     *)
(* entry that the value belongs before, whatever the number of entries.    *)
(***************************************************************************)
EXTENDS VBTree, SequencesExt, SequenceTheorems, WellFoundedInduction,
        FiniteSetTheorems, TLAPS

(* A nonempty set of natural numbers has a least member.                   *)
LEMMA LeastNumber ==
  ASSUME NEW T \in SUBSET Nat, T # {}
  PROVE  \E x \in T : \A y \in T : x <= y
<1> DEFINE R == OpToRel(<, Nat)
<1>1. IsWellFoundedOn(R, Nat)
  BY NatLessThanWellFounded
<1>2. \A x, y \in Nat : x < y => <<x, y>> \in R
  BY DEF OpToRel
<1> HIDE DEF R
<1>3. PICK x \in T : \A y \in T : <<y, x>> \notin R
  BY <1>1, WFMin
<1>4. ASSUME NEW y \in T PROVE x <= y
  <2>1. x \in Nat /\ y \in Nat /\ ~(y < x)
    BY <1>2, <1>3
  <2>2. QED
    BY <2>1
<1>5. QED
  BY <1>3, <1>4

(* Min of a nonempty set of natural numbers is its least member.           *)
LEMMA MinNumber ==
  ASSUME NEW T \in SUBSET Nat, T # {}
  PROVE  Min(T) \in T /\ \A y \in T : Min(T) <= y
<1>1. \E x \in T : \A y \in T : x <= y
  BY LeastNumber
<1>2. QED
  BY <1>1 DEF Min

(* Max of a nonempty bounded set of natural numbers is its greatest member.*)
LEMMA MaxNumber ==
  ASSUME NEW T \in SUBSET Nat, T # {}, NEW n \in Nat, \A y \in T : y <= n
  PROVE  Max(T) \in T /\ \A y \in T : y <= Max(T)
<1> DEFINE U == {n - y : y \in T}
<1>1. U \in SUBSET Nat /\ U # {}
  <2>1. ASSUME NEW y \in T PROVE n - y \in Nat
    <3>1. y \in Nat /\ y <= n
      OBVIOUS
    <3>2. QED
      BY <3>1
  <2>2. QED
    BY <2>1
<1>2. PICK u \in U : \A w \in U : u <= w
  <2> HIDE DEF U
  <2>1. QED
    BY <1>1, LeastNumber
<1>3. PICK x \in T : u = n - x
  BY <1>2
<1>4. ASSUME NEW y \in T PROVE x >= y
  <2>1. n - y \in U
    OBVIOUS
  <2>2. n - x <= n - y
    BY <1>2, <1>3, <2>1
  <2>3. QED
    BY <2>2
<1>5. Max(T) \in T /\ \A y \in T : Max(T) >= y
  BY <1>4 DEF Max
<1>6. QED
  BY <1>5

(* What InsertAt returns: the elements before the place, the new one, and  *)
(* the others one place further.                                           *)
LEMMA InsertAtFacts ==
  ASSUME NEW S, NEW s \in Seq(S), NEW i \in 1..(Len(s) + 1), NEW e \in S
  PROVE  /\ InsertAt(s, i, e) \in Seq(S)
         /\ Len(InsertAt(s, i, e)) = Len(s) + 1
         /\ \A k \in 1..(Len(s) + 1) :
              InsertAt(s, i, e)[k] = IF k < i THEN s[k]
                                     ELSE IF k = i THEN e ELSE s[k - 1]
<1> DEFINE a == SubSeq(s, 1, i - 1)
           c == SubSeq(s, i, Len(s))
<1>1. Len(s) \in Nat /\ i \in Nat /\ i >= 1 /\ i <= Len(s) + 1
  OBVIOUS
<1>2. /\ a \in Seq(S) /\ Len(a) = i - 1
      /\ \A k \in 1..(i - 1) : a[k] = s[k]
  <2>1. \A k \in 1..(i - 1) : s[k] \in S
    BY <1>1, ElementOfSeq
  <2>2. QED
    BY <1>1, <2>1, SubSeqProperties
<1>3. /\ c \in Seq(S) /\ Len(c) = Len(s) + 1 - i
      /\ \A k \in 1..(Len(s) + 1 - i) : c[k] = s[i + k - 1]
  <2>1. \A k \in i..Len(s) : s[k] \in S
    BY <1>1, ElementOfSeq
  <2>2. QED
    BY <1>1, <2>1, SubSeqProperties
<1> HIDE DEF a, c
<1>4. <<e>> \in Seq(S) /\ Len(<<e>>) = 1 /\ <<e>>[1] = e
  OBVIOUS
<1>5. /\ a \o <<e>> \in Seq(S) /\ Len(a \o <<e>>) = i
      /\ \A k \in 1..i : (a \o <<e>>)[k] = IF k < i THEN s[k] ELSE e
  <2>1. /\ a \o <<e>> \in Seq(S)
        /\ Len(a \o <<e>>) = Len(a) + Len(<<e>>)
        /\ \A k \in 1..(Len(a) + Len(<<e>>)) : (a \o <<e>>)[k] =
             IF k <= Len(a) THEN a[k] ELSE <<e>>[k - Len(a)]
    BY <1>2, <1>4, ConcatProperties
  <2>2. QED
    BY <1>1, <1>2, <1>4, <2>1
<1> DEFINE ae == a \o <<e>>
<1>6. ae \in Seq(S) /\ Len(ae) = i
  BY <1>5
<1>7. \A k \in 1..i : ae[k] = IF k < i THEN s[k] ELSE e
  BY <1>5
<1>8. InsertAt(s, i, e) = ae \o c
  BY DEF InsertAt, a, c
<1> HIDE DEF ae
<1>9. /\ ae \o c \in Seq(S) /\ Len(ae \o c) = Len(ae) + Len(c)
      /\ \A k \in 1..(Len(ae) + Len(c)) : (ae \o c)[k] =
           IF k <= Len(ae) THEN ae[k] ELSE c[k - Len(ae)]
  BY <1>3, <1>6, ConcatProperties
<1>10. ASSUME NEW k \in 1..(Len(s) + 1)
       PROVE  (ae \o c)[k] = IF k < i THEN s[k]
                             ELSE IF k = i THEN e ELSE s[k - 1]
  <2>1. CASE k <= i
    BY <1>1, <1>3, <1>6, <1>7, <1>9, <2>1
  <2>2. CASE k > i
    <3>1. k - i \in 1..(Len(s) + 1 - i)
      BY <1>1, <2>2
    <3>2. c[k - i] = s[k - 1]
      BY <1>1, <1>3, <3>1
    <3>3. (ae \o c)[k] = c[k - i]
      BY <1>1, <1>3, <1>6, <1>9, <2>2
    <3>4. QED
      BY <1>1, <2>2, <3>2, <3>3
  <2>3. k <= i \/ k > i
    BY <1>1
  <2>4. QED
    BY <2>1, <2>2, <2>3
<1>11. QED
  BY <1>1, <1>3, <1>6, <1>8, <1>9, <1>10

(* What RemoveAt returns: the elements before the place, and those behind it*)
(* one place nearer.                                                       *)
LEMMA RemoveAtFacts ==
  ASSUME NEW S, NEW s \in Seq(S), NEW i \in 1..Len(s)
  PROVE  /\ RemoveAt(s, i) \in Seq(S)
         /\ Len(RemoveAt(s, i)) = Len(s) - 1
         /\ \A k \in 1..(Len(s) - 1) :
              RemoveAt(s, i)[k] = IF k < i THEN s[k] ELSE s[k + 1]
<1> DEFINE a == SubSeq(s, 1, i - 1)
           c == SubSeq(s, i + 1, Len(s))
<1>1. Len(s) \in Nat /\ i \in Nat /\ i >= 1 /\ i <= Len(s)
  OBVIOUS
<1>2. /\ a \in Seq(S) /\ Len(a) = i - 1
      /\ \A k \in 1..(i - 1) : a[k] = s[k]
  <2>1. \A k \in 1..(i - 1) : s[k] \in S
    BY <1>1, ElementOfSeq
  <2>2. QED
    BY <1>1, <2>1, SubSeqProperties
<1>3. /\ c \in Seq(S) /\ Len(c) = Len(s) - i
      /\ \A k \in 1..(Len(s) - i) : c[k] = s[i + k]
  <2>1. \A k \in (i + 1)..Len(s) : s[k] \in S
    BY <1>1, ElementOfSeq
  <2>2. /\ c \in Seq(S)
        /\ Len(c) = IF i + 1 <= Len(s) THEN Len(s) - (i + 1) + 1 ELSE 0
        /\ \A k \in 1..(Len(s) - (i + 1) + 1) : c[k] = s[(i + 1) + k - 1]
    BY <1>1, <2>1, SubSeqProperties
  <2> HIDE DEF c
  <2>3. QED
    BY <1>1, <2>2
<1> HIDE DEF a, c
<1>4. RemoveAt(s, i) = a \o c
  BY DEF RemoveAt, a, c
<1>5. /\ a \o c \in Seq(S) /\ Len(a \o c) = Len(a) + Len(c)
      /\ \A k \in 1..(Len(a) + Len(c)) : (a \o c)[k] =
           IF k <= Len(a) THEN a[k] ELSE c[k - Len(a)]
  BY <1>2, <1>3, ConcatProperties
<1>6. ASSUME NEW k \in 1..(Len(s) - 1)
      PROVE  (a \o c)[k] = IF k < i THEN s[k] ELSE s[k + 1]
  <2>1. CASE k < i
    BY <1>1, <1>2, <1>3, <1>5, <2>1
  <2>2. CASE k >= i
    <3>1. k - (i - 1) \in 1..(Len(s) - i)
      BY <1>1, <2>2
    <3>2. c[k - (i - 1)] = s[k + 1]
      BY <1>1, <1>3, <3>1
    <3>3. (a \o c)[k] = c[k - (i - 1)]
      BY <1>1, <1>2, <1>3, <1>5, <2>2
    <3>4. QED
      BY <1>1, <2>2, <3>2, <3>3
  <2>3. k < i \/ k >= i
    BY <1>1
  <2>4. QED
    BY <2>1, <2>2, <2>3
<1>7. QED
  BY <1>1, <1>2, <1>3, <1>4, <1>5, <1>6

-----------------------------------------------------------------------------

(* The steps F[1], F[2], ... from a, of which the k-th leads from a member *)
(* of G[k - 1] to one of G[k].                                             *)
Staged(g, N, G, a, F) ==
  /\ g = [k \in 0..N |-> g[k]] /\ g[0] = a
  /\ \A k \in 1..N : g[k] = F[k][g[k - 1]]
  /\ \A k \in 0..N : g[k] \in G[k]

(* A recursive function over 0..N has values if each step leads from one set*)
(* to the next: the longest piece of it that exists could be made longer.  *)
LEMMA StagesExist ==
  ASSUME NEW N \in Nat, NEW G, NEW a, a \in G[0], NEW F,
         \A k \in 1..N : \A v \in G[k - 1] : F[k][v] \in G[k]
  PROVE  \E g : Staged(g, N, G, a, F)
<1> DEFINE T == {n \in 0..N : ~ \E g : Staged(g, n, G, a, F)}
<1>1. T = {}
  <2> SUFFICES ASSUME T # {} PROVE FALSE
    OBVIOUS
  <2>1. T \in SUBSET Nat
    OBVIOUS
  <2>2. PICK n \in T : \A m \in T : n <= m
    <3> HIDE DEF T
    <3>1. QED
      BY <2>1, LeastNumber
  <2>3. n \in 0..N /\ ~ \E g : Staged(g, n, G, a, F)
    OBVIOUS
  <2>4. n # 0
    <3> DEFINE g0 == [k \in 0..0 |-> a]
    <3>1. g0[0] = a
      OBVIOUS
    <3>2. Staged(g0, 0, G, a, F)
      BY <3>1 DEF Staged
    <3>3. QED
      BY <2>3, <3>2
  <2>5. n - 1 \in 0..N /\ n \in 1..N /\ ~(n <= n - 1)
    BY <2>3, <2>4
  <2>6. PICK g : Staged(g, n - 1, G, a, F)
    BY <2>2, <2>5
  <2> DEFINE e == [k \in 0..n |-> IF k = n THEN F[n][g[n - 1]] ELSE g[k]]
  <2>7. /\ g[0] = a
        /\ \A k \in 1..(n - 1) : g[k] = F[k][g[k - 1]]
        /\ \A k \in 0..(n - 1) : g[k] \in G[k]
    BY <2>6 DEF Staged
  <2>8. F[n][g[n - 1]] \in G[n] /\ n - 1 \in 0..(n - 1)
    BY <2>5, <2>7
  <2>9. \A k \in 0..(n - 1) : k \in 0..n /\ k # n /\ e[k] = g[k]
    BY <2>5
  <2>10. e[n] = F[n][g[n - 1]]
    BY <2>5
  <2>11. e = [k \in 0..n |-> e[k]]
    OBVIOUS
  <2> HIDE DEF e
  <2>12. e[0] = a
    BY <2>5, <2>7, <2>9
  <2>13. ASSUME NEW k \in 1..n PROVE e[k] = F[k][e[k - 1]]
    <3>1. CASE k = n
      BY <2>8, <2>9, <2>10, <3>1
    <3>2. CASE k # n
      <4>1. k \in 1..(n - 1) /\ k \in 0..(n - 1) /\ k - 1 \in 0..(n - 1)
        BY <2>5, <3>2
      <4>2. QED
        BY <2>7, <2>9, <4>1
    <3>3. QED
      BY <3>1, <3>2
  <2>14. ASSUME NEW k \in 0..n PROVE e[k] \in G[k]
    <3>1. k = n \/ k \in 0..(n - 1)
      BY <2>5
    <3>2. QED
      BY <2>7, <2>8, <2>9, <2>10, <3>1
  <2>15. Staged(e, n, G, a, F)
    BY <2>11, <2>12, <2>13, <2>14 DEF Staged
  <2>16. QED
    BY <2>3, <2>15
<1>2. N \in 0..N
  OBVIOUS
<1>3. QED
  BY <1>1, <1>2

-----------------------------------------------------------------------------
(* Where the bisection stops.                                              *)
Doubles(f, n) ==
  /\ f \in [0..n -> Nat \ {0}] /\ f[0] = 1
  /\ \A b \in 1..n : f[b] = 2 * f[b - 1]

(* The first power of 2 beyond n is at most twice n.                       *)
LEMMA DoublesReach ==
  ASSUME NEW n \in Nat, n # 0, NEW f, Doubles(f, n)
  PROVE  \E b \in 1..n : n < f[b] /\ f[b] <= 2 * n
<1>1. \A b \in 0..n : f[b] >= b + 1
  <2> DEFINE T == {b \in 0..n : ~(f[b] >= b + 1)}
  <2> SUFFICES ASSUME T # {} PROVE FALSE
    OBVIOUS
  <2>1. T \in SUBSET Nat
    OBVIOUS
  <2>2. PICK b \in T : \A a \in T : b <= a
    <3> HIDE DEF T
    <3>1. QED
      BY <2>1, LeastNumber
  <2>3. b \in 1..n /\ b - 1 \in 0..n /\ b - 1 \notin T
    BY <2>2, SMTT(30) DEF Doubles
  <2>4. f[b - 1] >= b /\ f[b] = 2 * f[b - 1] /\ f[b - 1] \in Nat
    BY <2>3 DEF Doubles
  <2>5. QED
    BY <2>2, <2>3, <2>4
<1> DEFINE U == {b \in 0..n : n < f[b]}
<1>2. n \in U /\ U \in SUBSET Nat
  <2>1. n \in 0..n /\ f[n] \in Nat /\ f[n] >= n + 1
    BY <1>1 DEF Doubles
  <2>2. QED
    BY <2>1
<1>3. PICK b \in U : \A a \in U : b <= a
  <2> HIDE DEF U
  <2>1. QED
    BY <1>2, LeastNumber
<1>4. b # 0
  BY <1>3 DEF Doubles
<1>5. b \in 1..n /\ b - 1 \in 0..n /\ b - 1 \notin U /\ n < f[b]
  BY <1>3, <1>4
<1>6. f[b] = 2 * f[b - 1] /\ f[b - 1] \in Nat /\ ~(n < f[b - 1])
  BY <1>5 DEF Doubles
<1>7. QED
  BY <1>5, <1>6

(* The bisection stops at the entry the value belongs before, and never on *)
(* the one before that or on one behind it: what is left of the way is     *)
(* always less than the width of the last step.                            *)
LEMMA BisectExact ==
  ASSUME NEW n \in Nat, NEW c \in 0..n, NEW eq \in BOOLEAN
  PROVE  bisect(n, c, eq) = c + 1
<1> DEFINE N == n + 1
           D == 0..N
           cmp(i) == CASE i <= c          -> 1
                       [] i = c + 1 /\ eq -> 0
                       [] OTHER           -> -1
           TwiceBody(g) == [b \in D |-> IF b = 0 THEN 1 ELSE 2 * g[b - 1]]
           twice == CHOOSE g : g = TwiceBody(g)
           first == CHOOSE b \in 1..N : N < twice[b] /\ twice[b] <= 2 * N
           Half(f, w) == [i \in Int |->
                            CASE i > N                     -> f[i - w]
                              [] i <= N /\ cmp(i) = 0 -> i
                              [] OTHER -> f[i + w * cmp(i)]]
           StepBody(g) == [b \in D |-> IF b = 0 THEN [i \in Int |-> i]
                                       ELSE Half(g[b - 1], twice[b - 1])]
           step == CHOOSE g : g = StepBody(g)
           stop == step[first][twice[first]]
<1>1. bisect(n, c, eq) = IF cmp(stop) > 0 THEN stop + 1 ELSE stop
  BY DEF bisect
<1>2. N \in Nat /\ N # 0 /\ c \in Int /\ 0 <= c /\ c + 1 <= N
  OBVIOUS
<1> DEFINE Pos == Nat \ {0}
           G2 == [k \in D |-> Pos]
           F2 == [k \in 1..N |-> [v \in Pos |-> 2 * v]]
<1>3. PICK g : Staged(g, N, G2, 1, F2)
  <2>1. 1 \in G2[0]
    BY <1>2
  <2>2. \A k \in 1..N : \A v \in G2[k - 1] : F2[k][v] \in G2[k]
    BY <1>2, SMTT(30)
  <2> HIDE DEF F2, G2
  <2>3. QED
    BY <1>2, <2>1, <2>2, StagesExist
<1>4. g = TwiceBody(g)
  <2>1. /\ g = [k \in 0..N |-> g[k]] /\ g[0] = 1
        /\ \A k \in 1..N : g[k] = F2[k][g[k - 1]]
        /\ \A k \in 0..N : g[k] \in G2[k]
    BY <1>3 DEF Staged
  <2>2. ASSUME NEW k \in D PROVE g[k] = TwiceBody(g)[k]
    <3>1. k = 0 \/ (k \in 1..N /\ k - 1 \in D)
      BY <1>2
    <3>2. CASE k \in 1..N /\ k - 1 \in D
      <4>1. g[k - 1] \in Pos
        BY <2>1, <3>2
      <4>2. QED
        BY <1>2, <2>1, <3>2, <4>1
    <3>3. QED
      BY <2>1, <3>1, <3>2
  <2>3. QED
    BY <2>1, <2>2
<1>5. twice = TwiceBody(twice)
  BY <1>4
<1> HIDE DEF twice
<1>6. Doubles(twice, N)
  <2> DEFINE T == {b \in D : twice[b] \notin Pos}
  <2>1. twice[0] = 1 /\ \A b \in 1..N : twice[b] = 2 * twice[b - 1]
    BY <1>2, <1>5
  <2>2. T = {}
    <3> SUFFICES ASSUME T # {} PROVE FALSE
      OBVIOUS
    <3>1. T \in SUBSET Nat
      OBVIOUS
    <3>2. PICK b \in T : \A a \in T : b <= a
      <4> HIDE DEF T
      <4>1. QED
        BY <3>1, LeastNumber
    <3>3. b \in 1..N /\ b - 1 \in D /\ ~(b <= b - 1)
      BY <2>1, <3>2
    <3>4. twice[b - 1] \in Pos /\ twice[b] = 2 * twice[b - 1]
      BY <2>1, <3>2, <3>3
    <3>5. QED
      BY <3>2, <3>4
  <2>3. twice = [b \in D |-> twice[b]]
    BY <1>5
  <2>4. QED
    BY <2>1, <2>2, <2>3 DEF Doubles
<1>7. first \in 1..N /\ N < twice[first] /\ twice[first] <= 2 * N
  <2>1. \E b \in 1..N : N < twice[b] /\ twice[b] <= 2 * N
    BY <1>2, <1>6, DoublesReach
  <2>2. QED
    BY <2>1
<1> HIDE DEF first
<1> DEFINE Near(f, w) ==
             /\ f \in [Int -> Int]
             /\ \A i \in Int : 1 - w <= c + 1 - i /\ c + 1 - i <= w
                               => f[i] \in {c, c + 1}
           G == [b \in D |-> {f \in [Int -> Int] : Near(f, twice[b])}]
           F == [b \in 1..N |-> [f \in G[b - 1] |-> Half(f, twice[b - 1])]]
           a == [i \in Int |-> i]
<1>8. twice \in [D -> Pos] /\ twice[0] = 1
      /\ \A b \in 1..N : twice[b] = 2 * twice[b - 1]
  BY <1>6 DEF Doubles
<1>9. a \in G[0]
  <2>1. Near(a, 1)
    BY <1>2
  <2>2. 0 \in D /\ a \in [Int -> Int]
    BY <1>2
  <2> HIDE DEF Near, a
  <2>3. QED
    BY <1>8, <2>1, <2>2
<1>10. ASSUME NEW w \in Pos, NEW f, Near(f, w)
       PROVE  Half(f, w) \in [Int -> Int] /\ Near(Half(f, w), 2 * w)
  <2>1. \A i \in Int : cmp(i) \in {-1, 0, 1}
    OBVIOUS
  <2>2. \A i \in Int : i - w \in Int /\ i + w * cmp(i) \in Int
    BY <1>10, <2>1
  <2>3. Half(f, w) \in [Int -> Int]
    BY <1>10, <2>2
  <2>4. ASSUME NEW i \in Int, 1 - 2 * w <= c + 1 - i, c + 1 - i <= 2 * w
        PROVE  Half(f, w)[i] \in {c, c + 1}
    <3>1. CASE i > N
      <4>1. Half(f, w)[i] = f[i - w]
        BY <3>1
      <4>2. 1 - w <= c + 1 - (i - w) /\ c + 1 - (i - w) <= w
        BY <1>2, <2>4, <3>1, <1>10
      <4>3. QED
        BY <1>10, <2>2, <4>1, <4>2
    <3>2. CASE i <= N /\ cmp(i) = 0
      BY <3>2
    <3>3. CASE i <= N /\ cmp(i) # 0
      <4>1. Half(f, w)[i] = f[i + w * cmp(i)]
        BY <3>3
      <4>2. CASE i <= c
        <5>1. cmp(i) = 1 /\ i + w * cmp(i) = i + w
          BY <1>10, <4>2
        <5>2. 1 - w <= c + 1 - (i + w) /\ c + 1 - (i + w) <= w
          BY <1>2, <1>10, <2>4, <4>2
        <5>3. i + w \in Int
          BY <1>10
        <5>4. QED
          BY <1>10, <4>1, <5>1, <5>2, <5>3
      <4>3. CASE ~(i <= c)
        <5>1. cmp(i) = -1 /\ i + w * cmp(i) = i - w
          BY <1>10, <3>3, <4>3
        <5>2. 1 - w <= c + 1 - (i - w) /\ c + 1 - (i - w) <= w
          BY <1>2, <1>10, <2>4, <4>3
        <5>3. QED
          BY <1>10, <2>2, <4>1, <5>1, <5>2
      <4>4. QED
        BY <4>2, <4>3
    <3>4. QED
      BY <1>2, <3>1, <3>2, <3>3
  <2>5. QED
    BY <2>3, <2>4
<1>11. ASSUME NEW b \in 1..N, NEW f \in G[b - 1]
       PROVE  F[b][f] \in G[b]
  <2>1. b - 1 \in D /\ b \in D
    BY <1>2
  <2>2. twice[b - 1] \in Pos /\ twice[b] = 2 * twice[b - 1]
    BY <1>8, <2>1
  <2>3. Near(f, twice[b - 1])
    BY <2>1
  <2>4. F[b][f] = Half(f, twice[b - 1])
    OBVIOUS
  <2> HIDE DEF Half, F, Near
  <2>5. F[b][f] \in [Int -> Int] /\ Near(F[b][f], twice[b])
    BY <1>10, <2>2, <2>3, <2>4
  <2>6. QED
    BY <2>1, <2>5
<1>12. PICK h : Staged(h, N, G, a, F)
  <2> HIDE DEF F, G, a
  <2>1. QED
    BY <1>2, <1>9, <1>11, StagesExist
<1>13. /\ h = [k \in 0..N |-> h[k]] /\ h[0] = a
       /\ \A k \in 1..N : h[k] = F[k][h[k - 1]]
       /\ \A k \in 0..N : h[k] \in G[k]
  BY <1>12 DEF Staged
<1>14. h = StepBody(h)
  <2>2. ASSUME NEW k \in D PROVE h[k] = StepBody(h)[k]
    <3>1. k = 0 \/ (k \in 1..N /\ k - 1 \in D)
      BY <1>2
    <3>2. CASE k \in 1..N /\ k - 1 \in D
      <4>1. h[k - 1] \in G[k - 1]
        BY <1>13, <3>2
      <4>2. h[k] = F[k][h[k - 1]]
        BY <1>13, <3>2
      <4> HIDE DEF Half, G
      <4>3. h[k] = Half(h[k - 1], twice[k - 1])
        BY <3>2, <4>1, <4>2
      <4>4. QED
        BY <1>2, <3>2, <4>3
    <3>3. QED
      BY <1>13, <3>1, <3>2
  <2>3. QED
    BY <1>13, <2>2
<1>15. step = StepBody(step)
  BY <1>14
<1> HIDE DEF step
<1>16. ASSUME NEW b \in D PROVE step[b] \in [Int -> Int] /\ Near(step[b], twice[b])
  <2> DEFINE T == {x \in D : ~(step[x] \in [Int -> Int] /\ Near(step[x], twice[x]))}
  <2>1. step[0] = a
    BY <1>2, <1>15
  <2>2. \A x \in 1..N : step[x] = Half(step[x - 1], twice[x - 1])
    <3>1. \A x \in 1..N : x \in D /\ x # 0
      BY <1>2
    <3> HIDE DEF Half
    <3>2. QED
      BY <1>15, <3>1
  <2>3. T = {}
    <3> SUFFICES ASSUME T # {} PROVE FALSE
      OBVIOUS
    <3>1. T \in SUBSET Nat
      OBVIOUS
    <3>2. PICK x \in T : \A y \in T : x <= y
      <4> HIDE DEF T
      <4>1. QED
        BY <3>1, LeastNumber
    <3>3. x # 0
      <4>1. Near(a, twice[0]) /\ a \in [Int -> Int]
        <5>1. 0 \in D
          BY <1>2
        <5> HIDE DEF Near, a
        <5>2. QED
          BY <1>9, <5>1
      <4> HIDE DEF Near, a
      <4>2. QED
        BY <2>1, <3>2, <4>1
    <3>4. x \in 1..N /\ x - 1 \in D /\ ~(x <= x - 1)
      BY <1>2, <3>2, <3>3
    <3> HIDE DEF Near, Half
    <3>5. Near(step[x - 1], twice[x - 1])
      BY <3>2, <3>4
    <3>6. twice[x - 1] \in Pos /\ twice[x] = 2 * twice[x - 1]
      BY <1>8, <3>4
    <3>7. step[x] \in [Int -> Int] /\ Near(step[x], twice[x])
      BY <1>10, <2>2, <3>4, <3>5, <3>6
    <3>8. QED
      BY <3>2, <3>7
  <2> HIDE DEF Near
  <2>4. QED
    BY <2>3
<1>17. stop \in {c, c + 1}
  <2>1. first \in D /\ twice[first] \in Int
    BY <1>2, <1>7, <1>8
  <2>2. 1 - twice[first] <= c + 1 - twice[first] /\ c + 1 - twice[first] <= twice[first]
    BY <1>2, <1>7, <2>1
  <2>3. QED
    BY <1>16, <2>1, <2>2
<1> HIDE DEF stop
<1>18. QED
  BY <1>1, <1>2, <1>17

-----------------------------------------------------------------------------
(* A node of a path and the place in it.                                   *)

(* The entries of a node that a search value is above.                     *)
Passed(s, k, d) == {j \in DOMAIN s : ivbkeycompare(s[j], k, d) = 1}

(* Their number.                                                           *)
LEMMA PassedCount ==
  ASSUME NEW s \in Seq(Entries), NEW k, NEW d
  PROVE  Cardinality(Passed(s, k, d)) \in 0..Len(s)
<1>1. Len(s) \in Nat /\ DOMAIN s = 1..Len(s)
  OBVIOUS
<1>2. IsFiniteSet(1..Len(s)) /\ Cardinality(1..Len(s)) = Len(s)
  <2>1. 1 \in Int /\ Len(s) \in Int
    BY <1>1
  <2>2. /\ IsFiniteSet(1..Len(s))
        /\ Cardinality(1..Len(s)) = IF 1 > Len(s) THEN 0 ELSE Len(s) - 1 + 1
    BY <2>1, FS_Interval
  <2>3. QED
    BY <1>1, <2>2
<1>3. Passed(s, k, d) \in SUBSET (1..Len(s))
  BY <1>1 DEF Passed
<1>4. /\ IsFiniteSet(Passed(s, k, d))
      /\ Cardinality(Passed(s, k, d)) <= Cardinality(1..Len(s))
  BY <1>2, <1>3, FS_Subset
<1>5. Cardinality(Passed(s, k, d)) \in Nat
  BY <1>4, FS_CardinalityType
<1>6. QED
  BY <1>1, <1>2, <1>4, <1>5

(* The search settles on the entry behind those, in an interior node on    *)
(* the last if there is none.                                              *)
LEMMA PositionExact ==
  ASSUME NEW t, NEW n, NEW k, NEW d,
         Keys(t, n) \in Seq(Entries), Len(Keys(t, n)) <= Cap
  PROVE  LET s == Keys(t, n)
             c == Cardinality(Passed(s, k, d))
         IN  position(t, n, k, d) =
               IF t.node[n].level > 0 /\ c = Len(s) THEN Len(s) ELSE c + 1
<1> DEFINE s == Keys(t, n)
           c == Cardinality(Passed(s, k, d))
           eq == c < Len(s) /\ ivbkeycompare(s[c + 1], k, d) = 0
<1>1. Len(s) \in 0..Cap /\ Cap \in Nat
  BY TreeAssumption
<1>2. c \in 0..Len(s)
  BY PassedCount
<1>3. c \in 0..Cap /\ Len(s) \in Nat /\ eq \in BOOLEAN
  BY <1>1, <1>2
<1>4. position(t, n, k, d) =
        IF t.node[n].level > 0 /\ Settled[Len(s)][c][eq] > Len(s)
        THEN Len(s) ELSE Settled[Len(s)][c][eq]
  BY DEF position, Passed
<1> HIDE DEF s, c, eq
<1>5. bisect(Len(s), c, eq) = c + 1
  BY <1>2, <1>3, BisectExact
<1>6. Settled[Len(s)][c][eq] = c + 1
  BY <1>1, <1>2, <1>3, <1>5 DEF Settled
<1>7. position(t, n, k, d) =
        IF t.node[n].level > 0 /\ c = Len(s) THEN Len(s) ELSE c + 1
  BY <1>1, <1>2, <1>4, <1>6
<1>8. QED
  BY <1>7 DEF s, c

(* The place of a search in a node: an entry, or in a leaf the dummy behind*)
(* the last.                                                               *)
LEMMA PositionRange ==
  ASSUME NEW t, NEW n, NEW k, NEW d,
         Keys(t, n) \in Seq(Entries), Len(Keys(t, n)) <= Cap
  PROVE  /\ position(t, n, k, d) \in 1..(Len(Keys(t, n)) + 1)
                \/ (t.node[n].level > 0 /\ Len(Keys(t, n)) = 0)
         /\ t.node[n].level > 0 => position(t, n, k, d) <= Len(Keys(t, n))
<1>1. Cardinality(Passed(Keys(t, n), k, d)) \in 0..Len(Keys(t, n))
  BY PassedCount
<1>2. Len(Keys(t, n)) \in Nat
  OBVIOUS
<1>3. QED
  BY <1>1, <1>2, PositionExact

-----------------------------------------------------------------------------
(* The shape of a tree.                                                    *)

InUse(t)    == Node \ t.free
(* The level of a node.                                                    *)
LevelOf(t, n) == t.node[n].level

(* A node that is not the root has entries and is below it.                *)
NodeShape(t, n) ==
  /\ LevelOf(t, n) <= Top(t)
  /\ n # 1 => LevelOf(t, n) < Top(t)
  /\ n # 1 \/ LevelOf(t, n) > 0 => Len(Keys(t, n)) >= 1
  /\ Len(Keys(t, n)) <= Cap

(* The shape of a tree, node by node: free nodes are blank.                *)
Shapely(t) ==
  /\ t \in Tree /\ 1 \in InUse(t)
  /\ \A n \in t.free : t.node[n] = Blank
  /\ \A n \in InUse(t) : NodeShape(t, n)

KidsOf(l, s)   == IF l > 0 THEN {s[i].to : i \in DOMAIN s} ELSE {}
(* An interior node does not name a child twice.                           *)
Distinct(l, s) == l > 0 => \A i, j \in DOMAIN s : s[i].to = s[j].to => i = j
Kids(t, n)     == KidsOf(LevelOf(t, n), Keys(t, n))

(* The nodes hang together: up is the node that a node hangs on. Those in  *)
(* L hang on nothing yet; those in G are freed and named by an entry still.*)
Hung(t, up, L, G) ==
  /\ up \in [Node -> Node]
  /\ \A n \in InUse(t) : Distinct(LevelOf(t, n), Keys(t, n))
  /\ \A n \in InUse(t) : \A c \in Kids(t, n) :
       /\ c \in Node /\ up[c] = n
       /\ c \in G \/ /\ c \in InUse(t) \ L /\ c # 1
                     /\ LevelOf(t, c) + 1 = LevelOf(t, n)
  /\ \A c \in InUse(t) \ L :
       c = 1 \/ (up[c] \in InUse(t) /\ c \in Kids(t, up[c]))

(* There are nodes they hang on like that.                                 *)
Hangs(t, L, G) == \E up : Hung(t, up, L, G)

(* What a tree is like between two operations.                             *)
Sound(t) == Shapely(t) /\ Hangs(t, {}, {})

(* The types of a node.                                                    *)
LEMMA NodeFacts ==
  ASSUME NEW t \in Tree, NEW n \in Node
  PROVE  /\ LevelOf(t, n) \in Level /\ LevelOf(t, n) \in Nat
         /\ t.node[n].level = LevelOf(t, n)
         /\ Keys(t, n) \in Seq(Entries) /\ Len(Keys(t, n)) \in Nat
         /\ DOMAIN Keys(t, n) = 1..Len(Keys(t, n))
         /\ \A i \in DOMAIN Keys(t, n) : Keys(t, n)[i] \in Entries
<1>1. t.node \in [Node -> [level : Level, keys : Seq(Entries)]]
  BY DEF Tree
<1>2. t.node[n] \in [level : Level, keys : Seq(Entries)]
  BY <1>1
<1>3. LevelOf(t, n) \in Level /\ Keys(t, n) \in Seq(Entries)
  BY <1>2 DEF LevelOf, Keys
<1>4. Level \subseteq Nat
  BY TreeAssumption DEF Level
<1>5. \A i \in DOMAIN Keys(t, n) : Keys(t, n)[i] \in Entries
  BY <1>3
<1>6. Len(Keys(t, n)) \in Nat /\ DOMAIN Keys(t, n) = 1..Len(Keys(t, n))
  BY <1>3
<1>7. t.node[n].level = LevelOf(t, n)
  BY DEF LevelOf
<1>8. QED
  BY <1>3, <1>4, <1>5, <1>6, <1>7

(* The child an interior entry names.                                      *)
LEMMA ChildFacts ==
  ASSUME NEW t, Sound(t), NEW n \in InUse(t), LevelOf(t, n) > 0,
         NEW i \in 1..Len(Keys(t, n))
  PROVE  LET c == Keys(t, n)[i].to IN
         /\ c \in InUse(t) /\ c \in Node /\ c # 1
         /\ LevelOf(t, c) = LevelOf(t, n) - 1
         /\ Len(Keys(t, c)) \in 1..Cap
<1>1. t \in Tree /\ n \in Node
  BY DEF Sound, Shapely, InUse
<1>2. PICK up : Hung(t, up, {}, {})
  BY DEF Sound, Hangs
<1> DEFINE c == Keys(t, n)[i].to
<1>3. c \in Kids(t, n)
  BY <1>1, NodeFacts DEF Kids, KidsOf
<1> HIDE DEF c
<1>4. c \in InUse(t) /\ c # 1 /\ LevelOf(t, c) + 1 = LevelOf(t, n)
  BY <1>2, <1>3 DEF Hung
<1>5. c \in Node /\ LevelOf(t, c) \in Nat /\ Len(Keys(t, c)) \in Nat
  BY <1>1, <1>4, NodeFacts DEF InUse
<1>6. Len(Keys(t, c)) >= 1 /\ Len(Keys(t, c)) <= Cap
  BY <1>4 DEF Sound, Shapely, NodeShape
<1>7. QED
  BY <1>1, <1>4, <1>5, <1>6, TreeAssumption, NodeFacts DEF c

-----------------------------------------------------------------------------
(* Paths.                                                                  *)

(* A node and a place in it.                                               *)
Spots == [n : Node, i : Nat]

(* From the root to a leaf, along the entries it is at; in the leaf it may *)
(* be at the dummy.                                                        *)
PathOf(t, p) ==
  /\ p \in [0..Top(t) -> Spots]
  /\ p[Top(t)].n = 1
  /\ \A l \in 0..Top(t) :
       /\ p[l].n \in InUse(t) /\ LevelOf(t, p[l].n) = l
       /\ p[l].i \in 1..(Len(Keys(t, p[l].n)) + 1)
  /\ \A l \in 1..Top(t) :
       /\ p[l].i <= Len(Keys(t, p[l].n))
       /\ Keys(t, p[l].n)[p[l].i].to = p[l - 1].n

(* The types of a sound tree.                                              *)
LEMMA TopFacts ==
  ASSUME NEW t, Sound(t)
  PROVE  /\ t \in Tree /\ Top(t) \in Nat /\ Top(t) \in Level
         /\ 1 \in Node /\ 1 \in InUse(t) /\ LevelOf(t, 1) = Top(t)
         /\ InUse(t) \subseteq Node
<1>1. t \in Tree /\ 1 \in InUse(t)
  BY DEF Sound, Shapely
<1>2. 1 \in Node /\ InUse(t) \subseteq Node
  BY <1>1 DEF InUse
<1>3. QED
  BY <1>1, <1>2, NodeFacts DEF Top

(* The nodes in use of a sound tree.                                       *)
LEMMA UsedFacts ==
  ASSUME NEW t, Sound(t), NEW n \in InUse(t)
  PROVE  /\ n \in Node /\ LevelOf(t, n) \in Nat /\ LevelOf(t, n) <= Top(t)
         /\ Keys(t, n) \in Seq(Entries) /\ Len(Keys(t, n)) \in 0..Cap
         /\ DOMAIN Keys(t, n) = 1..Len(Keys(t, n))
         /\ n # 1 => LevelOf(t, n) < Top(t)
         /\ n # 1 \/ LevelOf(t, n) > 0 => Len(Keys(t, n)) >= 1
<1>1. t \in Tree /\ n \in Node /\ NodeShape(t, n)
  BY DEF Sound, Shapely, InUse
<1>2. QED
  BY <1>1, NodeFacts, TreeAssumption DEF NodeShape

(* A search (itreeload) goes from the root to a leaf, and is at its position*)
(* in every node of the way.                                               *)
LEMMA LoadExists ==
  ASSUME NEW t, Sound(t), NEW k, NEW d
  PROVE  /\ PathOf(t, itreeload(t, k, d))
         /\ \A l \in 0..Top(t) :
              itreeload(t, k, d)[l].i
                = position(t, itreeload(t, k, d)[l].n, k, d)
<1> DEFINE T == Top(t)
           D == 0..T
           next(n) == Keys(t, n)[position(t, n, k, d)].to
           Body(g) == [l \in D |-> IF l = T THEN 1 ELSE next(g[l + 1])]
           at == CHOOSE g : g = Body(g)
           p == itreeload(t, k, d)
<1>1. p = [l \in D |-> [n |-> at[l], i |-> position(t, at[l], k, d)]]
  BY DEF itreeload
<1>2. T \in Nat /\ 1 \in InUse(t) /\ LevelOf(t, 1) = T /\ InUse(t) \subseteq Node
  BY TopFacts
<1>3. ASSUME NEW n \in InUse(t)
      PROVE  /\ position(t, n, k, d) \in 1..(Len(Keys(t, n)) + 1)
             /\ LevelOf(t, n) > 0 =>
                  /\ position(t, n, k, d) \in 1..Len(Keys(t, n))
                  /\ next(n) \in InUse(t)
                  /\ LevelOf(t, next(n)) = LevelOf(t, n) - 1
  <2>1. /\ Keys(t, n) \in Seq(Entries) /\ Len(Keys(t, n)) \in 0..Cap
        /\ LevelOf(t, n) > 0 => Len(Keys(t, n)) >= 1
    BY UsedFacts
  <2>2. /\ position(t, n, k, d) \in 1..(Len(Keys(t, n)) + 1)
               \/ (LevelOf(t, n) > 0 /\ Len(Keys(t, n)) = 0)
        /\ LevelOf(t, n) > 0 => position(t, n, k, d) <= Len(Keys(t, n))
    BY <2>1, PositionRange DEF LevelOf
  <2>3. position(t, n, k, d) \in 1..(Len(Keys(t, n)) + 1)
    BY <2>1, <2>2
  <2>4. LevelOf(t, n) > 0 => position(t, n, k, d) \in 1..Len(Keys(t, n))
    BY <2>1, <2>2, <2>3
  <2>5. QED
    BY <2>3, <2>4, ChildFacts
<1> HIDE DEF next, p
<1> DEFINE G == [x \in D |-> {n \in InUse(t) : LevelOf(t, n) = T - x}]
           F == [x \in 1..T |-> [n \in InUse(t) |-> next(n)]]
<1>4. PICK h : Staged(h, T, G, 1, F)
  <2>1. 1 \in G[0]
    BY <1>2
  <2>2. ASSUME NEW x \in 1..T, NEW n \in G[x - 1] PROVE F[x][n] \in G[x]
    <3>1. x \in D /\ x - 1 \in D
      BY <1>2
    <3>2. n \in InUse(t) /\ LevelOf(t, n) = T - (x - 1)
      BY <3>1
    <3>3. LevelOf(t, n) > 0 /\ LevelOf(t, n) - 1 = T - x
      BY <1>2, <3>2
    <3>4. QED
      BY <1>3, <3>1, <3>2, <3>3
  <2> HIDE DEF F, G
  <2>3. QED
    BY <1>2, <2>1, <2>2, StagesExist
<1>5. /\ h[0] = 1
      /\ \A x \in 1..T : h[x] = F[x][h[x - 1]]
      /\ \A x \in 0..T : h[x] \in G[x]
  BY <1>4 DEF Staged
<1> DEFINE g == [l \in D |-> h[T - l]]
<1>6. \A l \in D : g[l] \in InUse(t) /\ LevelOf(t, g[l]) = l
  <2>1. ASSUME NEW l \in D PROVE g[l] \in InUse(t) /\ LevelOf(t, g[l]) = l
    <3>1. T - l \in D /\ T - (T - l) = l /\ g[l] = h[T - l]
      BY <1>2
    <3>2. h[T - l] \in G[T - l]
      BY <1>5, <3>1
    <3>3. QED
      BY <3>1, <3>2
  <2>2. QED
    BY <2>1
<1>7. g = Body(g)
  <2>1. ASSUME NEW l \in D PROVE g[l] = Body(g)[l]
    <3>1. CASE l = T
      BY <1>2, <1>5, <3>1
    <3>2. CASE l # T
      <4>1. l + 1 \in D /\ T - l \in 1..T /\ (T - l) - 1 = T - (l + 1)
        BY <1>2, <3>2
      <4>2. g[l] = h[T - l] /\ g[l + 1] = h[(T - l) - 1]
        BY <4>1
      <4>3. h[T - l] = F[T - l][h[(T - l) - 1]]
        BY <1>5, <4>1
      <4>4. g[l + 1] \in InUse(t)
        BY <1>6, <4>1
      <4> HIDE DEF g
      <4>5. QED
        BY <3>2, <4>1, <4>2, <4>3, <4>4
    <3>3. QED
      BY <3>1, <3>2
  <2>2. QED
    BY <2>1
<1>8. at = Body(at)
  BY <1>7
<1> HIDE DEF at, g
<1>9. at[T] = 1 /\ \A l \in D : l # T => at[l] = next(at[l + 1])
  BY <1>2, <1>8
<1>10. \A l \in D : at[l] \in InUse(t) /\ LevelOf(t, at[l]) = l
  <2> DEFINE S == {x \in D : ~(at[T - x] \in InUse(t)
                               /\ LevelOf(t, at[T - x]) = T - x)}
  <2>1. S = {}
    <3> SUFFICES ASSUME S # {} PROVE FALSE
      OBVIOUS
    <3>1. S \in SUBSET Nat
      BY <1>2
    <3>2. PICK x \in S : \A y \in S : x <= y
      <4> HIDE DEF S
      <4>1. QED
        BY <3>1, LeastNumber
    <3>3. x # 0
      BY <1>2, <1>9, <3>2
    <3>4. x - 1 \in D /\ x \in D /\ ~(x <= x - 1) /\ T - x \in D /\ T - x # T
          /\ (T - x) + 1 = T - (x - 1)
      BY <1>2, <3>2, <3>3
    <3>5. at[T - (x - 1)] \in InUse(t) /\ LevelOf(t, at[T - (x - 1)]) = T - (x - 1)
      BY <3>2, <3>4
    <3>6. at[T - x] = next(at[T - (x - 1)])
      BY <1>9, <3>4
    <3>7. LevelOf(t, at[T - (x - 1)]) > 0
          /\ LevelOf(t, at[T - (x - 1)]) - 1 = T - x
      BY <1>2, <3>4, <3>5
    <3>8. at[T - x] \in InUse(t) /\ LevelOf(t, at[T - x]) = T - x
      BY <1>3, <3>5, <3>6, <3>7
    <3>9. QED
      BY <3>2, <3>8
  <2>2. ASSUME NEW l \in D PROVE at[l] \in InUse(t) /\ LevelOf(t, at[l]) = l
    <3>1. T - l \in D /\ T - (T - l) = l
      BY <1>2
    <3>2. QED
      BY <2>1, <3>1
  <2>3. QED
    BY <2>2
<1>11. \A l \in D : p[l].n = at[l] /\ p[l].i = position(t, at[l], k, d)
  BY <1>1
<1>12. p \in [D -> Spots]
  <2>1. \A l \in D : at[l] \in Node /\ position(t, at[l], k, d) \in Nat
    <3>1. ASSUME NEW l \in D PROVE position(t, at[l], k, d) \in Nat
      <4>1. position(t, at[l], k, d) \in 1..(Len(Keys(t, at[l])) + 1)
        BY <1>3, <1>10
      <4>2. QED
        BY <4>1
    <3>2. QED
      BY <1>2, <1>10, <3>1
  <2>2. QED
    BY <1>1, <2>1 DEF Spots
<1>13. ASSUME NEW l \in 1..T
       PROVE  /\ p[l].i <= Len(Keys(t, p[l].n))
              /\ Keys(t, p[l].n)[p[l].i].to = p[l - 1].n
  <2>1. l \in D /\ l - 1 \in D /\ l - 1 # T /\ (l - 1) + 1 = l /\ l > 0
    BY <1>2
  <2>2. at[l - 1] = next(at[l])
    BY <1>9, <2>1
  <2>3. position(t, at[l], k, d) \in 1..Len(Keys(t, at[l]))
    BY <1>3, <1>10, <2>1
  <2>4. Len(Keys(t, at[l])) \in Nat
    BY <1>10, <2>1, UsedFacts
  <2>5. QED
    BY <1>11, <2>1, <2>2, <2>3, <2>4 DEF next
<1>14. T \in D
  BY <1>2
<1>15. PathOf(t, p)
  BY <1>3, <1>9, <1>10, <1>11, <1>12, <1>13, <1>14 DEF PathOf
<1>16. \A l \in D : p[l].i = position(t, p[l].n, k, d)
  BY <1>11
<1>17. QED
  BY <1>15, <1>16 DEF p

-----------------------------------------------------------------------------
(* Searches and steps.                                                     *)

(* What a handle may have in memory.                                       *)
Memories(t) == UNION {[S -> Marks] : S \in SUBSET InUse(t)}

(* The memory of a handle: marks for some of the nodes in use.             *)
LEMMA MemoryFacts ==
  ASSUME NEW t, NEW m
  PROVE  m \in Memories(t) <=> /\ m = [n \in DOMAIN m |-> m[n]]
                               /\ DOMAIN m \subseteq InUse(t)
                               /\ \A n \in DOMAIN m : m[n] \in Marks
<1>1. ASSUME m \in Memories(t)
      PROVE  /\ m = [n \in DOMAIN m |-> m[n]]
             /\ DOMAIN m \subseteq InUse(t)
             /\ \A n \in DOMAIN m : m[n] \in Marks
  <2>1. PICK S \in SUBSET InUse(t) : m \in [S -> Marks]
    BY <1>1 DEF Memories
  <2>2. QED
    BY <2>1
<1>2. ASSUME m = [n \in DOMAIN m |-> m[n]], DOMAIN m \subseteq InUse(t),
             \A n \in DOMAIN m : m[n] \in Marks
      PROVE  m \in Memories(t)
  <2>1. m \in [DOMAIN m -> Marks]
    BY <1>2
  <2>2. QED
    BY <1>2, <2>1 DEF Memories
<1>3. QED
  BY <1>1, <1>2

(* The marks of the nodes of a path: those in memory, or for a node that is*)
(* loaded now the marks of its parent, if it is at that edge of it.        *)
LEMMA MarksFacts ==
  ASSUME NEW t, Sound(t), NEW p, PathOf(t, p), NEW m \in Memories(t)
  PROVE  LET mk == MarksOf(t, m, p) IN
         /\ \A l \in 0..Top(t) : mk[l] \in Marks
         /\ mk[Top(t)] = RootMarks
         /\ \A l \in 0..(Top(t) - 1) :
              mk[l] = IF p[l].n \in DOMAIN m THEN m[p[l].n]
                      ELSE [tof |-> mk[l + 1].tof /\ p[l + 1].i = 1,
                            eof |-> mk[l + 1].eof
                                    /\ p[l + 1].i = Len(Keys(t, p[l + 1].n))]
<1> DEFINE T == Top(t)
           D == 0..T
           below(l, of) ==
             IF p[l].n \in DOMAIN m THEN m[p[l].n]
             ELSE [tof |-> of.tof /\ p[l + 1].i = 1,
                   eof |-> of.eof /\ p[l + 1].i = Len(Keys(t, p[l + 1].n))]
           Body(g) == [l \in D |-> IF l = T THEN RootMarks
                                   ELSE below(l, g[l + 1])]
           marks == CHOOSE g : g = Body(g)
<1>1. MarksOf(t, m, p) = marks
  BY DEF MarksOf
<1>2. T \in Nat
  BY TopFacts
<1>3. \A n \in DOMAIN m : m[n] \in Marks
  BY MemoryFacts
<1>4. ASSUME NEW l, NEW of \in Marks PROVE below(l, of) \in Marks
  <2>1. of.tof \in BOOLEAN /\ of.eof \in BOOLEAN
    BY DEF Marks
  <2>2. QED
    BY <1>3, <2>1 DEF Marks
<1>5. RootMarks \in Marks
  BY DEF RootMarks, Marks
<1> HIDE DEF below
<1> DEFINE G == [x \in D |-> Marks]
           F == [x \in 1..T |-> [of \in Marks |-> below(T - x, of)]]
<1>6. PICK h : Staged(h, T, G, RootMarks, F)
  <2>1. RootMarks \in G[0]
    BY <1>2, <1>5
  <2>2. \A x \in 1..T : \A v \in G[x - 1] : F[x][v] \in G[x]
    BY <1>2, <1>4
  <2> HIDE DEF F, G
  <2>3. QED
    BY <1>2, <2>1, <2>2, StagesExist
<1>7. /\ h[0] = RootMarks
      /\ \A x \in 1..T : h[x] = F[x][h[x - 1]]
      /\ \A x \in 0..T : h[x] \in Marks
  BY <1>6 DEF Staged
<1> DEFINE g == [l \in D |-> h[T - l]]
<1>8. g = Body(g)
  <2>1. ASSUME NEW l \in D PROVE g[l] = Body(g)[l]
    <3>1. CASE l = T
      BY <1>2, <1>7, <3>1
    <3>2. CASE l # T
      <4>1. l + 1 \in D /\ T - l \in 1..T /\ (T - l) - 1 = T - (l + 1)
            /\ T - (T - l) = l /\ (T - l) - 1 \in D
        BY <1>2, <3>2
      <4>2. g[l] = h[T - l] /\ g[l + 1] = h[(T - l) - 1]
        BY <4>1
      <4>3. h[T - l] = F[T - l][h[(T - l) - 1]]
        BY <1>7, <4>1
      <4>4. h[(T - l) - 1] \in Marks
        BY <1>7, <4>1
      <4> HIDE DEF g
      <4>5. QED
        BY <3>2, <4>1, <4>2, <4>3, <4>4
    <3>3. QED
      BY <3>1, <3>2
  <2>2. QED
    BY <2>1
<1>9. marks = Body(marks)
  BY <1>8
<1> HIDE DEF marks, g
<1>10. marks[T] = RootMarks
  BY <1>2, <1>9
<1>11. \A l \in 0..(T - 1) : marks[l] = below(l, marks[l + 1])
  <2>1. \A l \in 0..(T - 1) : l \in D /\ l # T
    BY <1>2
  <2>2. QED
    BY <1>9, <2>1
<1>12. \A l \in D : marks[l] \in Marks
  <2> DEFINE S == {x \in D : marks[T - x] \notin Marks}
  <2>1. S = {}
    <3> SUFFICES ASSUME S # {} PROVE FALSE
      OBVIOUS
    <3>1. S \in SUBSET Nat
      BY <1>2
    <3>2. PICK x \in S : \A y \in S : x <= y
      <4> HIDE DEF S
      <4>1. QED
        BY <3>1, LeastNumber
    <3>3. x # 0
      BY <1>2, <1>5, <1>10, <3>2
    <3>4. x - 1 \in D /\ ~(x <= x - 1) /\ T - x \in 0..(T - 1)
          /\ (T - x) + 1 = T - (x - 1)
      BY <1>2, <3>2, <3>3
    <3>5. marks[T - (x - 1)] \in Marks
      BY <3>2, <3>4
    <3>6. marks[T - x] = below(T - x, marks[T - (x - 1)])
      BY <1>11, <3>4
    <3>7. QED
      BY <1>4, <3>2, <3>5, <3>6
  <2>2. ASSUME NEW l \in D PROVE marks[l] \in Marks
    <3>1. T - l \in D /\ T - (T - l) = l
      BY <1>2
    <3>2. QED
      BY <2>1, <3>1
  <2>3. QED
    BY <2>2
<1>13. QED
  BY <1>1, <1>10, <1>11, <1>12 DEF below

(* D holds what m does and the nodes of the path, these with their marks.  *)
Holding(t, m, p, D) ==
  /\ DOMAIN D = DOMAIN m \union {p[l].n : l \in 0..Top(t)}
  /\ \A l \in 0..Top(t) : D[p[l].n] = MarksOf(t, m, p)[l]
  /\ \A n \in DOMAIN m \ {p[l].n : l \in 0..Top(t)} : D[n] = m[n]

(* The nodes of a path differ: each is on a level of its own.              *)
LEMMA LoadedFacts ==
  ASSUME NEW t, Sound(t), NEW p, PathOf(t, p), NEW m \in Memories(t)
  PROVE  /\ Loaded(t, m, p) \in Memories(t)
         /\ Holding(t, m, p, Loaded(t, m, p))
<1> DEFINE D == 0..Top(t)
           P == {p[l].n : l \in D}
           mk == MarksOf(t, m, p)
           r == Loaded(t, m, p)
<1>1. DOMAIN p = D
  BY DEF PathOf
<1>2. r = [n \in DOMAIN m \union P |->
             IF n \in P THEN mk[CHOOSE l \in D : p[l].n = n] ELSE m[n]]
  BY <1>1 DEF Loaded
<1>3. \A l \in D : mk[l] \in Marks
  BY MarksFacts
<1>4. \A l, x \in D : p[l].n = p[x].n => l = x
  BY DEF PathOf
<1>5. DOMAIN m \subseteq InUse(t) /\ \A n \in DOMAIN m : m[n] \in Marks
  BY MemoryFacts
<1>6. P \subseteq InUse(t)
  BY DEF PathOf
<1> HIDE DEF mk, r
<1>7. \A l \in D : r[p[l].n] = mk[l]
  <2>1. ASSUME NEW l \in D PROVE r[p[l].n] = mk[l]
    <3>1. p[l].n \in P
      OBVIOUS
    <3>2. r[p[l].n] = mk[CHOOSE x \in D : p[x].n = p[l].n]
      BY <1>2, <3>1
    <3>3. (CHOOSE x \in D : p[x].n = p[l].n) = l
      BY <1>4
    <3>4. QED
      BY <3>2, <3>3
  <2>2. QED
    BY <2>1
<1>8. DOMAIN r = DOMAIN m \union P
  BY <1>2
<1>9. \A n \in DOMAIN m \ P : r[n] = m[n]
  BY <1>2
<1>10. \A n \in DOMAIN r : r[n] \in Marks
  BY <1>3, <1>5, <1>7, <1>8, <1>9
<1>11. r = [n \in DOMAIN r |-> r[n]]
  BY <1>2
<1>12. r \in Memories(t)
  BY <1>5, <1>6, <1>8, <1>10, <1>11, MemoryFacts
<1>13. QED
  <2>1. Holding(t, m, p, r)
    BY <1>7, <1>8, <1>9 DEF Holding, mk
  <2>2. QED
    BY <1>12, <2>1 DEF r

(* Down from an entry of a path, by first or by last entries.              *)
LEMMA DownFacts ==
  ASSUME NEW t, Sound(t), NEW p, PathOf(t, p), NEW l \in 1..Top(t),
         NEW i \in 1..Len(Keys(t, p[l].n)), NEW last \in BOOLEAN
  PROVE  LET q == Down(t, p, l, i, last) IN
         /\ PathOf(t, q)
         /\ \A x \in (l + 1)..Top(t) : q[x] = p[x]
         /\ q[l] = [n |-> p[l].n, i |-> i]
         /\ \A x \in 0..(l - 1) :
              q[x].i = IF last THEN Len(Keys(t, q[x].n)) ELSE 1
<1> DEFINE T == Top(t)
           D == 0..l
           child(s) == Keys(t, s.n)[s.i].to
           next(s) == [n |-> child(s),
                       i |-> IF last THEN Len(Keys(t, child(s))) ELSE 1]
           a == [n |-> p[l].n, i |-> i]
           Body(g) == [x \in D |-> IF x = l THEN a ELSE next(g[x + 1])]
           at == CHOOSE g : g = Body(g)
           q == Down(t, p, l, i, last)
           Fit(x, s) == /\ s \in Spots /\ s.n \in InUse(t) /\ LevelOf(t, s.n) = x
                        /\ s.i \in 1..Len(Keys(t, s.n))
<1>1. q = [x \in DOMAIN p |-> IF x > l THEN p[x] ELSE at[x]]
  BY DEF Down
<1>2. T \in Nat /\ l \in Nat /\ l >= 1 /\ l <= T /\ InUse(t) \subseteq Node
  BY TopFacts
<1>3. DOMAIN p = 0..T /\ p[l].n \in InUse(t) /\ LevelOf(t, p[l].n) = l
  BY <1>2 DEF PathOf
<1>4. Fit(l, a)
  <2>1. Len(Keys(t, p[l].n)) \in Nat
    BY <1>3, UsedFacts
  <2>2. QED
    BY <1>2, <1>3, <2>1 DEF Spots
<1>5. ASSUME NEW x \in 1..l, NEW s, Fit(x, s) PROVE Fit(x - 1, next(s))
  <2>1. LevelOf(t, s.n) > 0 /\ s.n \in InUse(t) /\ s.i \in 1..Len(Keys(t, s.n))
    BY <1>2, <1>5
  <2>2. /\ child(s) \in InUse(t) /\ child(s) \in Node
        /\ LevelOf(t, child(s)) = x - 1
        /\ Len(Keys(t, child(s))) \in 1..Cap
    BY <1>5, <2>1, ChildFacts
  <2>3. next(s).n = child(s)
        /\ next(s).i \in 1..Len(Keys(t, child(s)))
    BY <2>2, TreeAssumption
  <2>4. next(s) \in Spots
    <3>1. next(s).i \in Nat
      BY <2>2, <2>3
    <3>2. QED
      BY <2>2, <3>1 DEF Spots
  <2>5. QED
    BY <2>2, <2>3, <2>4
<1> HIDE DEF a, next, Fit, q
<1> DEFINE G == [x \in 0..l |-> {s \in Spots : Fit(l - x, s)}]
           F == [x \in 1..l |-> [s \in Spots |-> next(s)]]
<1>6. ASSUME NEW x, NEW s, Fit(x, s) PROVE s \in Spots
  BY <1>6 DEF Fit
<1>7. PICK h : Staged(h, l, G, a, F)
  <2>1. a \in G[0]
    BY <1>2, <1>4, <1>6
  <2>2. ASSUME NEW x \in 1..l, NEW s \in G[x - 1] PROVE F[x][s] \in G[x]
    <3>1. x \in 0..l /\ x - 1 \in 0..l /\ l - (x - 1) \in 1..l
          /\ (l - (x - 1)) - 1 = l - x
      BY <1>2
    <3>2. s \in Spots /\ Fit(l - (x - 1), s)
      BY <3>1
    <3>3. Fit(l - x, next(s))
      BY <1>5, <3>1, <3>2
    <3>4. QED
      BY <1>6, <3>1, <3>2, <3>3
  <2> HIDE DEF F, G
  <2>3. QED
    BY <1>2, <2>1, <2>2, StagesExist
<1>8. /\ h[0] = a
      /\ \A x \in 1..l : h[x] = F[x][h[x - 1]]
      /\ \A x \in 0..l : h[x] \in G[x]
  BY <1>7 DEF Staged
<1> DEFINE g == [x \in D |-> h[l - x]]
<1>9. g = Body(g)
  <2>1. ASSUME NEW x \in D PROVE g[x] = Body(g)[x]
    <3>1. CASE x = l
      BY <1>2, <1>8, <3>1
    <3>2. CASE x # l
      <4>1. x + 1 \in D /\ l - x \in 1..l /\ (l - x) - 1 = l - (x + 1)
            /\ (l - x) - 1 \in 0..l
        BY <1>2, <3>2
      <4>2. g[x] = h[l - x] /\ g[x + 1] = h[(l - x) - 1]
        BY <4>1
      <4>3. h[l - x] = F[l - x][h[(l - x) - 1]]
        BY <1>8, <4>1
      <4>4. h[(l - x) - 1] \in Spots
        BY <1>8, <4>1
      <4> HIDE DEF g
      <4>5. QED
        BY <3>2, <4>1, <4>2, <4>3, <4>4
    <3>3. QED
      BY <3>1, <3>2
  <2>2. QED
    BY <2>1
<1>10. at = Body(at)
  BY <1>9
<1> HIDE DEF at, g
<1>11. at[l] = a /\ \A x \in 0..(l - 1) : at[x] = next(at[x + 1])
  <2>1. l \in D /\ \A x \in 0..(l - 1) : x \in D /\ x # l
    BY <1>2
  <2>2. QED
    BY <1>10, <2>1
<1>12. \A x \in D : Fit(x, at[x])
  <2> DEFINE S == {x \in D : ~Fit(l - x, at[l - x])}
  <2>1. S = {}
    <3> SUFFICES ASSUME S # {} PROVE FALSE
      OBVIOUS
    <3>1. S \in SUBSET Nat
      BY <1>2
    <3>2. PICK x \in S : \A y \in S : x <= y
      <4> HIDE DEF S
      <4>1. QED
        BY <3>1, LeastNumber
    <3>3. x # 0
      BY <1>2, <1>4, <1>11, <3>2
    <3>4. x - 1 \in D /\ ~(x <= x - 1) /\ l - x \in 0..(l - 1)
          /\ (l - x) + 1 = l - (x - 1) /\ l - (x - 1) \in 1..l
          /\ (l - (x - 1)) - 1 = l - x
      BY <1>2, <3>2, <3>3
    <3>5. Fit(l - (x - 1), at[l - (x - 1)])
      BY <3>2, <3>4
    <3>6. at[l - x] = next(at[l - (x - 1)])
      BY <1>11, <3>4
    <3>7. QED
      BY <1>5, <3>2, <3>4, <3>5, <3>6
  <2>2. ASSUME NEW x \in D PROVE Fit(x, at[x])
    <3>1. l - x \in D /\ l - (l - x) = x
      BY <1>2
    <3>2. QED
      BY <2>1, <3>1
  <2>3. QED
    BY <2>2
<1>13. \A x \in (l + 1)..T : x \in 0..T /\ q[x] = p[x]
  BY <1>1, <1>2, <1>3
<1>14. \A x \in D : x \in 0..T /\ q[x] = at[x]
  BY <1>1, <1>2, <1>3
<1>15. \A x \in 0..T : x \in D \/ x \in (l + 1)..T
  BY <1>2
<1>16. p \in [0..T -> Spots]
  BY DEF PathOf
<1>17. q \in [0..T -> Spots]
  <2>1. \A x \in 0..T : q[x] \in Spots
    BY <1>6, <1>12, <1>13, <1>14, <1>15, <1>16
  <2>2. q = [x \in 0..T |-> q[x]]
    BY <1>1, <1>3
  <2>3. QED
    BY <2>1, <2>2
<1>18. q[T].n = 1
  <2>1. CASE l = T
    BY <1>2, <1>11, <1>14, <2>1 DEF a, PathOf
  <2>2. CASE l # T
    <3>1. T \in (l + 1)..T
      BY <1>2, <2>2
    <3>2. QED
      BY <1>13, <3>1 DEF PathOf
  <2>3. QED
    BY <2>1, <2>2
<1>19. \A x \in 0..T : /\ q[x].n \in InUse(t) /\ LevelOf(t, q[x].n) = x
                       /\ q[x].i \in 1..(Len(Keys(t, q[x].n)) + 1)
  <2>1. ASSUME NEW x \in D
        PROVE /\ q[x].n \in InUse(t) /\ LevelOf(t, q[x].n) = x
              /\ q[x].i \in 1..(Len(Keys(t, q[x].n)) + 1)
    <3>1. /\ q[x].n \in InUse(t) /\ LevelOf(t, q[x].n) = x
          /\ q[x].i \in 1..Len(Keys(t, q[x].n))
      BY <1>12, <1>14 DEF Fit
    <3>2. Len(Keys(t, q[x].n)) \in Nat
      BY <3>1, UsedFacts
    <3>3. QED
      BY <3>1, <3>2
  <2>2. QED
    BY <1>13, <1>15, <2>1 DEF PathOf
<1>20. ASSUME NEW x \in 1..T
       PROVE  /\ q[x].i <= Len(Keys(t, q[x].n))
              /\ Keys(t, q[x].n)[q[x].i].to = q[x - 1].n
  <2>1. CASE x \in 1..l
    <3>1. x \in D /\ x - 1 \in D /\ x - 1 \in 0..(l - 1) /\ (x - 1) + 1 = x
      BY <1>2, <2>1
    <3>2. Fit(x, at[x]) /\ at[x - 1] = next(at[x])
      BY <1>11, <1>12, <3>1
    <3>3. Len(Keys(t, q[x].n)) \in Nat
      BY <1>14, <1>19, <3>1, UsedFacts
    <3>4. QED
      BY <1>14, <3>1, <3>2, <3>3, SMTT(30) DEF Fit, next
  <2>2. CASE x = l + 1
    <3>1. q[x] = p[x] /\ q[x - 1].n = p[x - 1].n
      BY <1>2, <1>11, <1>13, <1>14, <2>2 DEF a
    <3>2. QED
      BY <3>1 DEF PathOf
  <2>3. CASE x \in (l + 2)..T
    <3>1. q[x] = p[x] /\ q[x - 1] = p[x - 1]
      BY <1>2, <1>13, <2>3
    <3>2. QED
      BY <3>1 DEF PathOf
  <2>4. QED
    BY <1>2, <2>1, <2>2, <2>3
<1>21. PathOf(t, q)
  BY <1>17, <1>18, <1>19, <1>20 DEF PathOf
<1>22. q[l] = [n |-> p[l].n, i |-> i]
  BY <1>2, <1>11, <1>14 DEF a
<1>23. \A x \in 0..(l - 1) : q[x].i = IF last THEN Len(Keys(t, q[x].n)) ELSE 1
  <2>1. ASSUME NEW x \in 0..(l - 1)
        PROVE  q[x].i = IF last THEN Len(Keys(t, q[x].n)) ELSE 1
    <3>1. x \in D
      BY <1>2
    <3>2. q[x] = next(at[x + 1])
      BY <1>11, <1>14, <3>1
    <3>3. QED
      BY <3>2 DEF next
  <2>2. QED
    BY <2>1
<1>24. QED
  BY <1>13, <1>21, <1>22, <1>23 DEF q

(* How a search or a step ends.                                            *)
States == {"ok", "end", "none", "null"}

(* What a search or a step may give.                                       *)
Outs(t) ==
  {w \in [st : States, mem : Memories(t), path : [0..Top(t) -> Spots]] :
     /\ PathOf(t, w.path)
     /\ \A l \in 0..Top(t) : w.path[l].n \in DOMAIN w.mem}

(* A step to a path loads its nodes.                                       *)
LEMMA StepToFacts ==
  ASSUME NEW t, Sound(t), NEW p, PathOf(t, p), NEW m \in Memories(t)
  PROVE  /\ StepTo(t, m, p) \in Outs(t)
         /\ StepTo(t, m, p).st = "ok" /\ StepTo(t, m, p).path = p
         /\ StepTo(t, m, p).mem = Loaded(t, m, p)
<1>1. /\ Loaded(t, m, p) \in Memories(t)
      /\ \A l \in 0..Top(t) : p[l].n \in DOMAIN Loaded(t, m, p)
  <2>1. /\ Loaded(t, m, p) \in Memories(t)
        /\ DOMAIN Loaded(t, m, p)
             = DOMAIN m \union {p[l].n : l \in 0..Top(t)}
    BY LoadedFacts DEF Holding
  <2>2. QED
    BY <2>1
<1>2. p \in [0..Top(t) -> Spots] /\ "ok" \in States
  BY DEF PathOf, States
<1>3. StepTo(t, m, p) = [st |-> "ok", mem |-> Loaded(t, m, p), path |-> p]
  BY DEF StepTo, Step
<1> DEFINE w == [st |-> "ok", mem |-> Loaded(t, m, p), path |-> p]
<1>4. w.st = "ok" /\ w.mem = Loaded(t, m, p) /\ w.path = p
  OBVIOUS
<1>5. w \in [st : States, mem : Memories(t), path : [0..Top(t) -> Spots]]
  BY <1>1, <1>2
<1>6. w \in Outs(t)
  <2> HIDE DEF w
  <2>1. QED
    BY <1>1, <1>4, <1>5 DEF Outs
<1>7. QED
  BY <1>3, <1>4, <1>6

(* The parts of an outcome.                                                *)
LEMMA OutsFacts ==
  ASSUME NEW t, NEW w \in Outs(t)
  PROVE  /\ w = [st |-> w.st, mem |-> w.mem, path |-> w.path]
         /\ w.st \in States /\ w.mem \in Memories(t) /\ PathOf(t, w.path)
         /\ \A l \in 0..Top(t) : w.path[l].n \in DOMAIN w.mem
BY DEF Outs

(* An outcome with another state.                                          *)
LEMMA EndFacts ==
  ASSUME NEW t, NEW w \in Outs(t), NEW st \in States
  PROVE  /\ [w EXCEPT !.st = st] \in Outs(t)
         /\ [w EXCEPT !.st = st].st = st
         /\ [w EXCEPT !.st = st].path = w.path
         /\ [w EXCEPT !.st = st].mem = w.mem
<1>1. w \in [st : States, mem : Memories(t), path : [0..Top(t) -> Spots]]
  BY DEF Outs
<1>2. [w EXCEPT !.st = st] = [st |-> st, mem |-> w.mem, path |-> w.path]
  BY <1>1
<1>3. QED
  BY <1>1, <1>2 DEF Outs

(* What a climb gives.                                                     *)
ClimbsTo(t, w, last) ==
  LET open == Open(t, w.path, last)
      l == Min(open)
      i == IF last THEN w.path[l].i - 1 ELSE w.path[l].i + 1
      q == Down(t, w.path, l, i, last) IN
  /\ open = {} => Climb(t, w, last) = [w EXCEPT !.st = "null"]
  /\ open # {} => /\ l \in 1..Top(t)
                  /\ i \in 1..Len(Keys(t, w.path[l].n))
                  /\ \A x \in 1..(l - 1) : Edge(t, w.path, x, ~last)
                  /\ Climb(t, w, last) = StepTo(t, w.mem, q)
                  /\ PathOf(t, q)
                  /\ \A x \in (l + 1)..Top(t) : q[x] = w.path[x]
                  /\ q[l] = [n |-> w.path[l].n, i |-> i]
                  /\ \A x \in 0..(l - 1) :
                       q[x].i = IF last THEN Len(Keys(t, q[x].n)) ELSE 1
  /\ Climb(t, w, last) \in Outs(t)

(* Up to the first level with another entry on that side, and down.        *)
LEMMA ClimbFacts ==
  ASSUME NEW t, Sound(t), NEW w \in Outs(t), NEW last \in BOOLEAN
  PROVE  ClimbsTo(t, w, last)
<1> DEFINE p == w.path
           open == Open(t, p, last)
           l == Min(open)
           i == IF last THEN p[l].i - 1 ELSE p[l].i + 1
           q == Down(t, p, l, i, last)
<1>1. PathOf(t, p) /\ w.mem \in Memories(t) /\ Top(t) \in Nat
  BY OutsFacts, TopFacts
<1>2. CASE open = {}
  <2>1. Climb(t, w, last) = [w EXCEPT !.st = "null"]
    BY <1>2 DEF Climb
  <2>2. "null" \in States
    BY DEF States
  <2>3. QED
    BY <1>2, <2>1, <2>2, EndFacts DEF ClimbsTo
<1>3. CASE open # {}
  <2>1. open \in SUBSET Nat /\ open \subseteq 1..Top(t)
    BY <1>1 DEF Open
  <2>2. l \in open /\ \A y \in open : l <= y
    <3> HIDE DEF open
    <3>1. QED
      BY <1>3, <2>1, MinNumber
  <2>3. l \in 1..Top(t) /\ ~Edge(t, p, l, ~last)
    BY <2>2 DEF Open
  <2>4. \A x \in 1..(l - 1) : Edge(t, p, x, ~last)
    <3>1. \A x \in 1..(l - 1) : x \in 1..Top(t) /\ ~(l <= x)
      BY <1>1, <2>3
    <3>2. QED
      BY <2>2, <3>1 DEF Open
  <2>5. l \in 0..Top(t)
    BY <2>3
  <2>6. /\ p[l].i \in Nat /\ p[l].i >= 1 /\ p[l].i <= Len(Keys(t, p[l].n))
        /\ Len(Keys(t, p[l].n)) \in Nat
    <3>1. p[l].n \in InUse(t)
      BY <1>1, <2>5 DEF PathOf
    <3>2. Len(Keys(t, p[l].n)) \in Nat
      BY <3>1, UsedFacts
    <3>3. QED
      BY <1>1, <2>3, <2>5, <3>2 DEF PathOf
  <2>7. i \in 1..Len(Keys(t, p[l].n))
    BY <2>3, <2>6 DEF Edge
  <2>8. Climb(t, w, last) = StepTo(t, w.mem, q)
    BY <1>3 DEF Climb, Beside
  <2>9. /\ PathOf(t, q)
        /\ \A x \in (l + 1)..Top(t) : q[x] = p[x]
        /\ q[l] = [n |-> p[l].n, i |-> i]
        /\ \A x \in 0..(l - 1) :
             q[x].i = IF last THEN Len(Keys(t, q[x].n)) ELSE 1
    <3> HIDE DEF i, l, open
    <3>1. QED
      BY <1>1, <2>3, <2>7, DownFacts
  <2>10. StepTo(t, w.mem, q) \in Outs(t)
    BY <1>1, <2>9, StepToFacts
  <2>11. QED
    BY <1>3, <2>3, <2>4, <2>7, <2>8, <2>9, <2>10 DEF ClimbsTo
<1>4. QED
  BY <1>2, <1>3

(* A step within the leaf.                                                 *)
LEMMA ShiftFacts ==
  ASSUME NEW t, Sound(t), NEW w \in Outs(t), NEW by \in Int,
         w.path[0].i + by \in 1..(Len(Keys(t, w.path[0].n)) + 1)
  PROVE  /\ Shift(w, by) \in Outs(t)
         /\ Shift(w, by).st = w.st /\ Shift(w, by).mem = w.mem
         /\ \A l \in 0..Top(t) : Shift(w, by).path[l].n = w.path[l].n
         /\ \A l \in 1..Top(t) : Shift(w, by).path[l] = w.path[l]
         /\ Shift(w, by).path[0].i = w.path[0].i + by
<1> DEFINE p == w.path
           q == [p EXCEPT ![0] = [n |-> p[0].n, i |-> p[0].i + by]]
           r == [st |-> w.st, mem |-> w.mem, path |-> q]
<1>1. /\ w \in [st : States, mem : Memories(t), path : [0..Top(t) -> Spots]]
      /\ PathOf(t, p) /\ \A l \in 0..Top(t) : p[l].n \in DOMAIN w.mem
  BY DEF Outs
<1>2. p \in [0..Top(t) -> Spots] /\ Top(t) \in Nat /\ 0 \in 0..Top(t)
  BY <1>1, TopFacts
<1>3. p[0] \in Spots /\ p[0].n \in Node /\ p[0].i \in Nat
  BY <1>2 DEF Spots
<1>4. Shift(w, by) = r
  <2>1. [p[0] EXCEPT !.i = p[0].i + by] = [n |-> p[0].n, i |-> p[0].i + by]
    BY <1>3 DEF Spots
  <2>2. Shift(w, by) = [w EXCEPT !.path =
          [p EXCEPT ![0] = [p[0] EXCEPT !.i = p[0].i + by]]]
    BY DEF Shift
  <2>3. [w EXCEPT !.path = q] = r
    BY <1>1
  <2>4. QED
    BY <2>1, <2>2, <2>3
<1>5. q[0] = [n |-> p[0].n, i |-> p[0].i + by]
      /\ \A l \in 1..Top(t) : l \in 0..Top(t) /\ q[l] = p[l]
  BY <1>2
<1>6. q \in [0..Top(t) -> Spots]
  <2>1. p[0].i + by \in Nat
    BY <1>2, <1>3
  <2>2. [n |-> p[0].n, i |-> p[0].i + by] \in Spots
    BY <1>3, <2>1 DEF Spots
  <2>3. QED
    BY <1>2, <2>2
<1>7. \A l \in 0..Top(t) : q[l].n = p[l].n /\ (l = 0 \/ q[l] = p[l])
  <2>1. \A l \in 0..Top(t) : l = 0 \/ l \in 1..Top(t)
    BY <1>2
  <2>2. QED
    BY <1>5, <2>1
<1> HIDE DEF q
<1>8. PathOf(t, q)
  <2>1. q[Top(t)].n = 1
    BY <1>1, <1>2, <1>7 DEF PathOf
  <2>2. \A l \in 0..Top(t) : /\ q[l].n \in InUse(t) /\ LevelOf(t, q[l].n) = l
                             /\ q[l].i \in 1..(Len(Keys(t, q[l].n)) + 1)
    <3>1. ASSUME NEW l \in 0..Top(t)
          PROVE  /\ q[l].n \in InUse(t) /\ LevelOf(t, q[l].n) = l
                 /\ q[l].i \in 1..(Len(Keys(t, q[l].n)) + 1)
      <4>1. CASE l = 0
        BY <1>1, <1>5, <1>7, <4>1 DEF PathOf
      <4>2. CASE l # 0
        BY <1>1, <1>7, <4>2 DEF PathOf
      <4>3. QED
        BY <4>1, <4>2
    <3>2. QED
      BY <3>1
  <2>3. ASSUME NEW l \in 1..Top(t)
        PROVE  /\ q[l].i <= Len(Keys(t, q[l].n))
               /\ Keys(t, q[l].n)[q[l].i].to = q[l - 1].n
    <3>1. q[l] = p[l] /\ l - 1 \in 0..Top(t) /\ q[l - 1].n = p[l - 1].n
      BY <1>2, <1>5, <1>7
    <3>2. QED
      BY <1>1, <3>1 DEF PathOf
  <2>4. QED
    BY <1>6, <2>1, <2>2, <2>3 DEF PathOf
<1>9. r \in Outs(t)
  BY <1>1, <1>6, <1>7, <1>8 DEF Outs
<1>10. QED
  BY <1>4, <1>5, <1>7, <1>9

(* The leaf of a path.                                                     *)
LEMMA LeafFacts ==
  ASSUME NEW t, Sound(t), NEW p, PathOf(t, p)
  PROVE  /\ Leaf(p) = p[0] /\ 0 \in 0..Top(t)
         /\ p[0].n \in InUse(t) /\ LevelOf(t, p[0].n) = 0
         /\ Len(Keys(t, p[0].n)) \in Nat /\ p[0].i \in Nat
         /\ p[0].i \in 1..(Len(Keys(t, p[0].n)) + 1)
         /\ Keys(t, p[0].n) \in Seq(Entries)
<1>1. 0 \in 0..Top(t)
  BY TopFacts
<1>2. /\ p[0].n \in InUse(t) /\ LevelOf(t, p[0].n) = 0
      /\ p[0].i \in 1..(Len(Keys(t, p[0].n)) + 1) /\ p[0].i \in Nat
  BY <1>1 DEF PathOf, Spots
<1>3. QED
  BY <1>1, <1>2, UsedFacts DEF Leaf

(* A step on: in the leaf, or no further at the end, or over a node above. *)
LEMMA NextFacts ==
  ASSUME NEW t, Sound(t), NEW w \in Outs(t)
  PROVE  LET n == w.path[0].n
             s == Keys(t, n) IN
         /\ ivbkeyloadNext(t, w) \in Outs(t)
         /\ w.path[0].i < Len(s) => ivbkeyloadNext(t, w) = Shift(w, 1)
         /\ ~(w.path[0].i < Len(s)) =>
              ivbkeyloadNext(t, w) = IF w.mem[n].eof
                                     THEN [w EXCEPT !.st = "end"]
                                     ELSE Climb(t, w, FALSE)
<1> DEFINE n == w.path[0].n
           s == Keys(t, n)
<1>1. PathOf(t, w.path)
  BY OutsFacts
<1>2. /\ Leaf(w.path) = w.path[0] /\ Len(s) \in Nat /\ w.path[0].i \in Nat
      /\ w.path[0].i \in 1..(Len(s) + 1)
  BY <1>1, LeafFacts
<1>3. CASE w.path[0].i < Len(s)
  <2>1. ivbkeyloadNext(t, w) = Shift(w, 1)
    <3>1. /\ Leaf(w.path).i < Len(Keys(t, Leaf(w.path).n))
          /\ ~AtLast(t, w.path)
      BY <1>2, <1>3 DEF AtLast
    <3>2. QED
      BY <3>1, Zenon DEF ivbkeyloadNext
  <2>2. w.path[0].i + 1 \in 1..(Len(s) + 1) /\ 1 \in Int
    BY <1>2, <1>3
  <2>3. Shift(w, 1) \in Outs(t)
    BY <2>2, ShiftFacts
  <2>4. QED
    BY <1>3, <2>1, <2>3
<1>4. CASE ~(w.path[0].i < Len(s))
  <2>1. AtLast(t, w.path)
    BY <1>2, <1>4 DEF AtLast
  <2>2. ivbkeyloadNext(t, w) = IF w.mem[n].eof
                               THEN [w EXCEPT !.st = "end"]
                               ELSE Climb(t, w, FALSE)
    BY <1>2, <1>4, <2>1 DEF ivbkeyloadNext
  <2>3. "end" \in States
    BY DEF States
  <2>4. [w EXCEPT !.st = "end"] \in Outs(t)
    BY <2>3, EndFacts
  <2>5. Climb(t, w, FALSE) \in Outs(t)
    BY ClimbFacts DEF ClimbsTo
  <2>6. QED
    BY <1>4, <2>2, <2>4, <2>5
<1>5. QED
  BY <1>3, <1>4

(* A step back, likewise.                                                  *)
LEMMA PrevFacts ==
  ASSUME NEW t, Sound(t), NEW w \in Outs(t)
  PROVE  LET n == w.path[0].n
             s == Keys(t, n)
             v == ivbkeyloadPrev(t, w) IN
         /\ v \in Outs(t)
         /\ w.path[0].i > 1 => v = Shift(w, -1)
         /\ w.path[0].i = 1 =>
              v = IF w.mem[n].tof THEN [w EXCEPT !.st = "end"]
                  ELSE Climb(t, w, TRUE)
         /\ w.path[0].i = 1 \/ w.path[0].i > 1
         /\ w.st = "ok" /\ v.st = "ok" =>
              v.path[0].i \in 1..Len(Keys(t, v.path[0].n))
<1> DEFINE n == w.path[0].n
           s == Keys(t, n)
           v == ivbkeyloadPrev(t, w)
<1>1. PathOf(t, w.path) /\ w.mem \in Memories(t)
  BY OutsFacts
<1>2. /\ Leaf(w.path) = w.path[0] /\ Len(s) \in Nat /\ w.path[0].i \in Nat
      /\ w.path[0].i \in 1..(Len(s) + 1) /\ 0 \in 0..Top(t)
  BY <1>1, LeafFacts
<1>3. CASE w.path[0].i > 1
  <2>1. v = Shift(w, -1)
    <3>1. Leaf(w.path).i > 1 /\ ~(Leaf(w.path).i = 1)
      BY <1>2, <1>3
    <3>2. QED
      BY <3>1, Zenon DEF ivbkeyloadPrev
  <2>2. w.path[0].i + (-1) \in 1..(Len(s) + 1) /\ -1 \in Int
        /\ w.path[0].i + (-1) \in 1..Len(s)
    BY <1>2, <1>3
  <2>3. /\ Shift(w, -1) \in Outs(t)
        /\ \A l \in 0..Top(t) : Shift(w, -1).path[l].n = w.path[l].n
        /\ Shift(w, -1).path[0].i = w.path[0].i + (-1)
    BY <2>2, ShiftFacts
  <2>4. /\ v \in Outs(t) /\ v.path[0].n = n
        /\ v.path[0].i = w.path[0].i + (-1)
    BY <1>2, <2>1, <2>3
  <2>5. v.path[0].i \in 1..Len(Keys(t, v.path[0].n))
    BY <2>2, <2>4
  <2>6. ~(w.path[0].i = 1)
    BY <1>2, <1>3
  <2>7. QED
    BY <1>3, <2>1, <2>4, <2>5, <2>6
<1>4. CASE ~(w.path[0].i > 1)
  <2>1. w.path[0].i = 1
    BY <1>2, <1>4
  <2>2. v = IF w.mem[n].tof THEN [w EXCEPT !.st = "end"] ELSE Climb(t, w, TRUE)
    BY <1>2, <1>4, <2>1 DEF ivbkeyloadPrev
  <2>3. ASSUME w.mem[n].tof
        PROVE  v \in Outs(t) /\ v.st # "ok"
    <3>1. v = [w EXCEPT !.st = "end"] /\ "end" \in States
      BY <2>2, <2>3 DEF States
    <3>2. v \in Outs(t) /\ v.st = "end"
      BY <3>1, EndFacts
    <3>3. QED
      BY <3>2
  <2>4. ASSUME ~w.mem[n].tof
        PROVE  /\ v \in Outs(t)
               /\ v.st = "ok" => v.path[0].i \in 1..Len(Keys(t, v.path[0].n))
    <3> DEFINE open == Open(t, w.path, TRUE)
               l == Min(open)
               q == Down(t, w.path, l, w.path[l].i - 1, TRUE)
    <3>1. v = Climb(t, w, TRUE)
      BY <2>2, <2>4
    <3>2. /\ v \in Outs(t)
          /\ open = {} => v = [w EXCEPT !.st = "null"]
          /\ open # {} => /\ l \in 1..Top(t)
                          /\ w.path[l].i - 1 \in 1..Len(Keys(t, w.path[l].n))
                          /\ v = StepTo(t, w.mem, q)
                          /\ PathOf(t, q)
                          /\ \A x \in 0..(l - 1) :
                               q[x].i = Len(Keys(t, q[x].n))
      <4>1. PICK last \in BOOLEAN : last = TRUE
        OBVIOUS
      <4>2. ClimbsTo(t, w, last)
        BY ClimbFacts
      <4>3. QED
        BY <3>1, <4>1, <4>2 DEF ClimbsTo
    <3>3. CASE open = {}
      <4>0. "null" \in States /\ "null" # "ok"
        BY DEF States
      <4> HIDE DEF v, open
      <4>1. v.st = "null"
        <5>1. v = [w EXCEPT !.st = "null"]
          BY <3>2, <3>3
        <5>2. QED
          BY <4>0, <5>1, EndFacts
      <4>2. QED
        BY <3>2, <4>0, <4>1
    <3>4. CASE open # {}
      <4>0. /\ l \in 1..Top(t) /\ v = StepTo(t, w.mem, q)
            /\ w.path[l].i - 1 \in 1..Len(Keys(t, w.path[l].n))
        BY <3>2, <3>4
      <4>9. PathOf(t, q) /\ \A x \in 0..(l - 1) : q[x].i = Len(Keys(t, q[x].n))
        BY <3>2, <3>4
      <4> HIDE DEF v, open, l, q
      <4>1. 0 \in 0..(l - 1)
        BY <4>0
      <4>2. PathOf(t, q) /\ q[0].i = Len(Keys(t, q[0].n))
        BY <4>1, <4>9
      <4>3. v.path = q
        BY <1>1, <4>0, <4>2, StepToFacts
      <4>4. q[0].n \in InUse(t) /\ q[0].i \in 1..(Len(Keys(t, q[0].n)) + 1)
            /\ Len(Keys(t, q[0].n)) \in Nat
        BY <4>2, LeafFacts
      <4>5. q[0].i \in 1..Len(Keys(t, q[0].n))
        BY <4>2, <4>4
      <4>6. QED
        BY <3>2, <4>3, <4>5
    <3>5. QED
      BY <3>3, <3>4
  <2>5. /\ v \in Outs(t)
        /\ v.st = "ok" => v.path[0].i \in 1..Len(Keys(t, v.path[0].n))
    BY <2>3, <2>4
  <2>6. QED
    BY <1>4, <2>1, <2>2, <2>5
<1>5. QED
  BY <1>3, <1>4

(* The last test of ivbkeylocaterow: the entry is the row's, or there is   *)
(* none.                                                                   *)
LEMMA OnRowFacts ==
  ASSUME NEW t, Sound(t), NEW w \in Outs(t), NEW k, NEW d
  PROVE  /\ OnRow(t, w, k, d) \in Outs(t)
         /\ OnRow(t, w, k, d).path = w.path
         /\ OnRow(t, w, k, d).mem = w.mem
         /\ OnRow(t, w, k, d).st = "ok" =>
              /\ OnRow(t, w, k, d) = w
              /\ w.path[0].i \in 1..Len(Keys(t, w.path[0].n))
              /\ Same(At(t, w.path), k, d)
<1>1. "none" \in States /\ "none" # "ok"
  BY DEF States
<1>2. PathOf(t, w.path)
  BY OutsFacts
<1>3. /\ Leaf(w.path) = w.path[0] /\ Len(Keys(t, w.path[0].n)) \in Nat
      /\ w.path[0].i \in 1..(Len(Keys(t, w.path[0].n)) + 1)
  BY <1>2, LeafFacts
<1>4. CASE w.st = "ok" /\ (OnDummy(t, w.path) \/ ~Same(At(t, w.path), k, d))
  <2>1. OnRow(t, w, k, d) = [w EXCEPT !.st = "none"]
    BY <1>4 DEF OnRow
  <2>2. QED
    BY <1>1, <2>1, EndFacts
<1>5. CASE ~(w.st = "ok" /\ (OnDummy(t, w.path) \/ ~Same(At(t, w.path), k, d)))
  <2>1. OnRow(t, w, k, d) = w
    BY <1>5 DEF OnRow
  <2>2. QED
    BY <1>3, <1>5, <2>1 DEF OnDummy
<1>6. QED
  BY <1>4, <1>5

(* The row is looked for from the first place of its key on.               *)
Walk(t, m, k, d, walk) ==
  /\ walk[0] = StepTo(t, m, itreeload(t, k, 0))
  /\ \A x \in 1..(MaxDup + 1) : walk[x] = Onward(t, walk[x - 1], k, d)
  /\ \A x \in 0..(MaxDup + 1) : walk[x] \in Outs(t)

(* ivbkeylocaterow ends on the row's entry or with no success, after as many*)
(* steps as the bound on duplicate numbers allows.                         *)
LEMMA LocateFacts ==
  ASSUME NEW t, Sound(t), NEW m \in Memories(t), NEW k, NEW d
  PROVE  /\ ivbkeylocaterow(t, m, k, d) \in Outs(t)
         /\ \E walk : /\ Walk(t, m, k, d, walk)
                      /\ ivbkeylocaterow(t, m, k, d)
                           = OnRow(t, walk[MaxDup + 1], k, d)
<1> DEFINE N == MaxDup + 1
           a == StepTo(t, m, itreeload(t, k, 0))
           Body(g) == [x \in 0..N |-> IF x = 0 THEN a
                                      ELSE Onward(t, g[x - 1], k, d)]
           walk == CHOOSE g : g = Body(g)
<1>1. ivbkeylocaterow(t, m, k, d) = OnRow(t, walk[N], k, d)
  BY DEF ivbkeylocaterow
<1>2. N \in Nat
  BY TreeAssumption
<1>3. a \in Outs(t)
  BY LoadExists, StepToFacts
<1>4. ASSUME NEW w \in Outs(t) PROVE Onward(t, w, k, d) \in Outs(t)
  BY NextFacts DEF Onward
<1> HIDE DEF a
<1> DEFINE G == [x \in 0..N |-> Outs(t)]
           F == [x \in 1..N |-> [w \in Outs(t) |-> Onward(t, w, k, d)]]
<1>5. PICK g : Staged(g, N, G, a, F)
  <2>1. a \in G[0]
    BY <1>2, <1>3
  <2>2. \A x \in 1..N : \A v \in G[x - 1] : F[x][v] \in G[x]
    BY <1>2, <1>4
  <2> HIDE DEF F, G, N
  <2>3. QED
    BY <1>2, <2>1, <2>2, StagesExist
<1>6. /\ g = [x \in 0..N |-> g[x]] /\ g[0] = a
      /\ \A x \in 1..N : g[x] = F[x][g[x - 1]]
      /\ \A x \in 0..N : g[x] \in Outs(t)
  BY <1>5 DEF Staged
<1>7. g = Body(g)
  <2>1. ASSUME NEW x \in 0..N PROVE g[x] = Body(g)[x]
    <3>1. CASE x = 0
      BY <1>6, <3>1
    <3>2. CASE x # 0
      <4>1. x \in 1..N /\ x - 1 \in 0..N
        BY <1>2, <3>2
      <4>2. g[x] = F[x][g[x - 1]] /\ g[x - 1] \in Outs(t)
        BY <1>6, <4>1
      <4>3. QED
        BY <3>2, <4>1, <4>2
    <3>3. QED
      BY <3>1, <3>2
  <2>2. QED
    BY <1>6, <2>1
<1>8. walk = Body(walk)
  BY <1>7
<1> HIDE DEF walk
<1>9. walk[0] = a /\ \A x \in 1..N : walk[x] = Onward(t, walk[x - 1], k, d)
  BY <1>2, <1>8
<1>10. \A x \in 0..N : walk[x] \in Outs(t)
  <2> DEFINE S == {x \in 0..N : walk[x] \notin Outs(t)}
  <2>1. S = {}
    <3> SUFFICES ASSUME S # {} PROVE FALSE
      OBVIOUS
    <3>1. S \in SUBSET Nat
      BY <1>2
    <3>2. PICK x \in S : \A y \in S : x <= y
      <4> HIDE DEF S
      <4>1. QED
        BY <3>1, LeastNumber
    <3>3. x # 0
      BY <1>3, <1>9, <3>2
    <3>4. x - 1 \in 0..N /\ ~(x <= x - 1) /\ x \in 1..N
      BY <1>2, <3>2, <3>3
    <3>5. walk[x - 1] \in Outs(t)
      BY <3>2, <3>4
    <3>6. QED
      BY <1>4, <1>9, <3>2, <3>4, <3>5
  <2>2. QED
    BY <2>1
<1>11. Walk(t, m, k, d, walk)
  BY <1>9, <1>10 DEF Walk, a
<1>12. walk[N] \in Outs(t)
  BY <1>2, <1>10
<1>13. QED
  BY <1>1, <1>11, <1>12, OnRowFacts

(* isread in each mode gives an outcome: a path of the tree and the nodes  *)
(* that were loaded.                                                       *)
LEMMA ReadFacts ==
  ASSUME NEW t, Sound(t), NEW m \in Memories(t), NEW mode \in Modes, NEW k
  PROVE  isread(t, m, mode, k) \in Outs(t)
<1> DEFINE search(x, d) == StepTo(t, m, itreeload(t, x, d))
<1>1. ASSUME NEW x, NEW d PROVE search(x, d) \in Outs(t)
  BY LoadExists, StepToFacts
<1> HIDE DEF search
<1>2. "none" \in States /\ "end" \in States
  BY DEF States
<1>3. ASSUME NEW w \in Outs(t)
      PROVE  /\ EndOnDummy(t, w) \in Outs(t) /\ PastDummy(t, w) \in Outs(t)
             /\ OnKey(t, w, k) \in Outs(t) /\ ivbkeyloadPrev(t, w) \in Outs(t)
  <2>1. EndOnDummy(t, w) \in Outs(t)
    BY <1>2, EndFacts DEF EndOnDummy
  <2>2. PastDummy(t, w) \in Outs(t)
    BY NextFacts DEF PastDummy
  <2>3. OnKey(t, w, k) \in Outs(t)
    BY <1>2, EndFacts DEF OnKey
  <2>4. ivbkeyloadPrev(t, w) \in Outs(t)
    BY PrevFacts
  <2>5. QED
    BY <2>1, <2>2, <2>3, <2>4
<1>4. mode = "first" => isread(t, m, mode, k)
        = EndOnDummy(t, search(Lowest, NoDup))
  BY DEF isread, search
<1>5. mode = "last" => isread(t, m, mode, k)
        = ivbkeyloadPrev(t, search(Highest, AnyDup))
  BY DEF isread, search
<1>6. mode = "equal" => isread(t, m, mode, k)
        = OnKey(t, PastDummy(t, search(k, 0)), k)
  BY DEF isread, search
<1>7. mode = "gteq" => isread(t, m, mode, k) = EndOnDummy(t, search(k, 0))
  BY DEF isread, search
<1>8. mode = "great" => isread(t, m, mode, k)
        = EndOnDummy(t, search(k, AnyDup))
  BY DEF isread, search
<1>9. mode \in {"first", "last", "equal", "gteq", "great"}
  BY DEF Modes
<1>10. QED
  BY <1>1, <1>3, <1>4, <1>5, <1>6, <1>7, <1>8, <1>9

(* isread from where the handle stands, likewise.                          *)
LEMMA MoveFacts ==
  ASSUME NEW t, Sound(t), NEW w \in Outs(t), NEW move \in Moves
  PROVE  isreadfrom(t, w, move) \in Outs(t)
<1>1. ivbkeyloadNext(t, w) \in Outs(t) /\ ivbkeyloadPrev(t, w) \in Outs(t)
  BY NextFacts, PrevFacts
<1>2. QED
  BY <1>1 DEF isreadfrom, Moves

-----------------------------------------------------------------------------
(* A tree of which two fields are written.                                 *)
LEMMA TwoFields ==
  ASSUME NEW r \in Tree, NEW F, NEW N
  PROVE  [r EXCEPT !.free = F, !.node = N]
           = [node |-> N, free |-> F, isdups |-> r.isdups]
<1>1. [r EXCEPT !.free = F, !.node = N] = [[r EXCEPT !.free = F] EXCEPT !.node = N]
  OBVIOUS
<1>2. [r EXCEPT !.free = F] = [node |-> r.node, free |-> F, isdups |-> r.isdups]
  BY DEF Tree
<1> DEFINE q == [node |-> r.node, free |-> F, isdups |-> r.isdups]
<1>3. [q EXCEPT !.node = N] = [node |-> N, free |-> F, isdups |-> r.isdups]
  OBVIOUS
<1>4. [r EXCEPT !.free = F] = q
  BY <1>2
<1> HIDE DEF q
<1>5. [[r EXCEPT !.free = F] EXCEPT !.node = N] = [q EXCEPT !.node = N]
  BY <1>4, Zenon
<1>6. QED
  BY <1>1, <1>3, <1>5, Zenon

(* What the tree is once n is written with the entries e, or freed.        *)
Written(t, n, l, e, u) ==
  /\ u \in Tree /\ u.free = t.free \ {n} /\ u.isdups = t.isdups
  /\ InUse(u) = InUse(t) \union {n}
  /\ u.node[n] = [level |-> l, keys |-> e]
  /\ LevelOf(u, n) = l /\ Keys(u, n) = e
  /\ \A x \in Node \ {n} : /\ u.node[x] = t.node[x]
                           /\ LevelOf(u, x) = LevelOf(t, x)
                           /\ Keys(u, x) = Keys(t, x)

(* u is t with node n freed.                                               *)
Freed(t, n, u) ==
  /\ u \in Tree /\ u.free = t.free \union {n} /\ u.isdups = t.isdups
  /\ InUse(u) = InUse(t) \ {n}
  /\ u.node[n] = Blank
  /\ \A x \in Node \ {n} : /\ u.node[x] = t.node[x]
                           /\ LevelOf(u, x) = LevelOf(t, x)
                           /\ Keys(u, x) = Keys(t, x)

(* A node is written: the rest of the tree is as it was.                   *)
LEMMA StoreFacts ==
  ASSUME NEW t \in Tree, NEW n \in Node, NEW l \in Level, NEW s \in Seq(Entries)
  PROVE  Written(t, n, l, s, Store(t, n, l, s))
<1> DEFINE v == [level |-> l, keys |-> s]
           N == [t.node EXCEPT ![n] = v]
           u == [node |-> N, free |-> t.free \ {n}, isdups |-> t.isdups]
<1>1. /\ t.node \in [Node -> [level : Level, keys : Seq(Entries)]]
      /\ t.free \in SUBSET Node /\ t.isdups \in BOOLEAN
      /\ t = [node |-> t.node, free |-> t.free, isdups |-> t.isdups]
  BY DEF Tree
<1>2. Store(t, n, l, s) = u
  <2>1. Store(t, n, l, s) = [t EXCEPT !.free = t.free \ {n}, !.node = N]
    BY DEF Store
  <2> HIDE DEF N
  <2>2. [t EXCEPT !.free = t.free \ {n}, !.node = N]
          = [node |-> N, free |-> t.free \ {n}, isdups |-> t.isdups]
    BY TwoFields
  <2>3. QED
    BY <2>1, <2>2
<1>3. N \in [Node -> [level : Level, keys : Seq(Entries)]]
  BY <1>1
<1>4. N[n] = v /\ \A x \in Node \ {n} : N[x] = t.node[x]
  BY <1>1
<1>5. u.node = N /\ u.free = t.free \ {n} /\ u.isdups = t.isdups
  OBVIOUS
<1>6. u \in Tree
  BY <1>1, <1>3 DEF Tree
<1> HIDE DEF u, N
<1>7. InUse(u) = InUse(t) \union {n}
  BY <1>5 DEF InUse
<1>8. LevelOf(u, n) = l /\ Keys(u, n) = s
  BY <1>4, <1>5 DEF LevelOf, Keys
<1>9. \A x \in Node \ {n} : /\ u.node[x] = t.node[x]
                            /\ LevelOf(u, x) = LevelOf(t, x)
                            /\ Keys(u, x) = Keys(t, x)
  BY <1>4, <1>5 DEF LevelOf, Keys
<1>10. QED
  BY <1>2, <1>4, <1>5, <1>6, <1>7, <1>8, <1>9 DEF Written

(* A node is freed: the rest of the tree is as it was.                     *)
LEMMA FreeFacts ==
  ASSUME NEW t \in Tree, NEW n \in Node
  PROVE  Freed(t, n, ivbnodefree(t, n))
<1> DEFINE N == [t.node EXCEPT ![n] = Blank]
           u == [node |-> N, free |-> t.free \union {n}, isdups |-> t.isdups]
<1>1. /\ t.node \in [Node -> [level : Level, keys : Seq(Entries)]]
      /\ t.free \in SUBSET Node /\ t.isdups \in BOOLEAN
      /\ t = [node |-> t.node, free |-> t.free, isdups |-> t.isdups]
  BY DEF Tree
<1>2. ivbnodefree(t, n) = u
  <2>1. ivbnodefree(t, n) = [t EXCEPT !.free = t.free \union {n}, !.node = N]
    BY DEF ivbnodefree
  <2> HIDE DEF N
  <2>2. [t EXCEPT !.free = t.free \union {n}, !.node = N]
          = [node |-> N, free |-> t.free \union {n}, isdups |-> t.isdups]
    BY TwoFields
  <2>3. QED
    BY <2>1, <2>2
<1>3. Blank \in [level : Level, keys : Seq(Entries)]
  BY TreeAssumption DEF Blank, Level
<1>4. N \in [Node -> [level : Level, keys : Seq(Entries)]]
  BY <1>1, <1>3
<1>5. N[n] = Blank /\ \A x \in Node \ {n} : N[x] = t.node[x]
  BY <1>1
<1>6. u.node = N /\ u.free = t.free \union {n} /\ u.isdups = t.isdups
  OBVIOUS
<1>7. u \in Tree
  BY <1>1, <1>4 DEF Tree
<1> HIDE DEF u, N
<1>8. InUse(u) = InUse(t) \ {n}
  BY <1>6 DEF InUse
<1>9. \A x \in Node \ {n} : /\ u.node[x] = t.node[x]
                            /\ LevelOf(u, x) = LevelOf(t, x)
                            /\ Keys(u, x) = Keys(t, x)
  BY <1>5, <1>6 DEF LevelOf, Keys
<1>10. QED
  BY <1>2, <1>5, <1>6, <1>7, <1>8, <1>9 DEF Freed

(* A node is taken from the free ones.                                     *)
LEMMA AllocateFacts ==
  ASSUME NEW t \in Tree, t.free # {}
  PROVE  Allocate(t) \in t.free /\ Allocate(t) \in Node
<1>1. t.free \in SUBSET Node
  BY DEF Tree
<1>2. t.free \in SUBSET Nat
  BY <1>1, TreeAssumption DEF Node
<1>3. PICK n \in t.free : \A x \in t.free : n <= x
  BY <1>2, LeastNumber
<1>4. Allocate(t) \in t.free
  BY <1>3 DEF Allocate
<1>5. QED
  BY <1>1, <1>4

(* Nodes taken from the free ones.                                         *)
LEMMA FreeCount ==
  ASSUME NEW t \in Tree
  PROVE  /\ IsFiniteSet(t.free) /\ Cardinality(t.free) \in Nat
         /\ Cardinality(t.free) <= MaxNode
         /\ Cardinality(t.free) > 0 => t.free # {}
         /\ \A n \in t.free :
              Cardinality(t.free \ {n}) = Cardinality(t.free) - 1
<1>1. t.free \in SUBSET Node /\ MaxNode \in Nat
  BY TreeAssumption DEF Tree
<1>2. IsFiniteSet(Node) /\ Cardinality(Node) = MaxNode
  <2>1. 1 \in Int /\ MaxNode \in Int
    BY <1>1
  <2>2. /\ IsFiniteSet(1..MaxNode)
        /\ Cardinality(1..MaxNode) = IF 1 > MaxNode THEN 0 ELSE MaxNode - 1 + 1
    BY <2>1, FS_Interval
  <2>3. QED
    BY <1>1, <2>2, TreeAssumption DEF Node
<1>3. IsFiniteSet(t.free) /\ Cardinality(t.free) <= Cardinality(Node)
  BY <1>1, <1>2, FS_Subset
<1>4. Cardinality(t.free) \in Nat
  BY <1>3, FS_CardinalityType
<1>5. Cardinality(t.free) > 0 => t.free # {}
  BY FS_EmptySet
<1>6. \A n \in t.free : Cardinality(t.free \ {n}) = Cardinality(t.free) - 1
  BY <1>3, FS_RemoveElement
<1>7. QED
  BY <1>2, <1>3, <1>4, <1>5, <1>6

-----------------------------------------------------------------------------
(* The nodes below, when a node is written.                                *)

(* A node is written with a new kid, that hung on nothing.                 *)
LEMMA HungMore ==
  ASSUME NEW t \in Tree, NEW up, NEW c \in Node, Hung(t, up, {c}, {}),
         NEW n \in InUse(t), NEW u \in Tree,
         InUse(u) = InUse(t), c \in InUse(t), c # 1,
         \A x \in Node \ {n} : u.node[x] = t.node[x],
         LevelOf(u, n) = LevelOf(t, n), LevelOf(t, c) + 1 = LevelOf(t, n),
         Distinct(LevelOf(u, n), Keys(u, n)),
         Kids(u, n) = Kids(t, n) \union {c}
  PROVE  Hung(u, [up EXCEPT ![c] = n], {}, {})
<1> DEFINE v == [up EXCEPT ![c] = n]
<1>1. \A x \in Node \ {n} : /\ LevelOf(u, x) = LevelOf(t, x)
                            /\ Keys(u, x) = Keys(t, x) /\ Kids(u, x) = Kids(t, x)
  BY DEF LevelOf, Keys, Kids
<1>2. InUse(t) \subseteq Node /\ n \in Node
  BY DEF InUse
<1>3. \A x \in Node : LevelOf(u, x) = LevelOf(t, x)
  BY <1>1
<1>4. up \in [Node -> Node]
  BY DEF Hung
<1>5. v \in [Node -> Node] /\ v[c] = n /\ \A x \in Node \ {c} : v[x] = up[x]
  BY <1>2, <1>4
<1>6. \A x \in InUse(u) : Distinct(LevelOf(u, x), Keys(u, x))
  BY <1>1, <1>2 DEF Hung
<1>7. ASSUME NEW x \in InUse(u), NEW y \in Kids(u, x)
      PROVE  /\ y \in Node /\ v[y] = x
             /\ y \in {} \/ /\ y \in InUse(u) \ {} /\ y # 1
                            /\ LevelOf(u, y) + 1 = LevelOf(u, x)
  <2>1. CASE y = c
    <3>1. x = n
      <4>1. CASE x # n
        <5>1. c \in Kids(t, x)
          BY <1>1, <1>2, <1>7, <2>1, <4>1
        <5>2. c \notin {c}
          BY <5>1 DEF Hung
        <5>3. QED
          BY <5>2
      <4>2. QED
        BY <4>1
    <3>2. QED
      BY <1>2, <1>3, <1>5, <2>1, <3>1
  <2>2. CASE y # c
    <3>1. y \in Kids(t, x)
      BY <1>1, <1>2, <2>2
    <3>2. y \in Node /\ up[y] = x /\ y \in InUse(t) /\ y # 1
          /\ LevelOf(t, y) + 1 = LevelOf(t, x)
      BY <3>1 DEF Hung
    <3>3. QED
      BY <1>2, <1>3, <1>5, <2>2, <3>2
  <2>3. QED
    BY <2>1, <2>2
<1>8. ASSUME NEW y \in InUse(u) \ {}
      PROVE  y = 1 \/ (v[y] \in InUse(u) /\ y \in Kids(u, v[y]))
  <2>1. CASE y = c
    BY <1>5, <2>1
  <2>2. CASE y # c
    <3>1. y = 1 \/ (up[y] \in InUse(t) /\ y \in Kids(t, up[y]))
      BY <2>2 DEF Hung
    <3>2. v[y] = up[y]
      BY <1>2, <1>5, <2>2
    <3>3. QED
      BY <1>1, <1>2, <3>1, <3>2
  <2>3. QED
    BY <2>1, <2>2
<1> HIDE DEF v
<1>9. Hung(u, v, {}, {})
  BY <1>5, <1>6, <1>7, <1>8 DEF Hung
<1>10. QED
  BY <1>9 DEF v

(* A node gives some of its kids to a new node, which hangs on nothing.    *)
LEMMA HungSplit ==
  ASSUME NEW t \in Tree, NEW up, Hung(t, up, {}, {}),
         NEW n \in InUse(t), NEW c \in Node, c \notin InUse(t), NEW u \in Tree,
         InUse(u) = InUse(t) \union {c}, c # 1,
         \A x \in Node \ {n, c} : u.node[x] = t.node[x],
         LevelOf(u, n) = LevelOf(t, n), LevelOf(u, c) = LevelOf(t, n),
         Distinct(LevelOf(u, n), Keys(u, n)),
         Distinct(LevelOf(u, c), Keys(u, c)),
         Kids(u, n) \union Kids(u, c) = Kids(t, n),
         Kids(u, n) \intersect Kids(u, c) = {}
  PROVE  Hung(u, [x \in Node |-> IF x \in Kids(u, c) THEN c ELSE up[x]], {c}, {})
<1> DEFINE v == [x \in Node |-> IF x \in Kids(u, c) THEN c ELSE up[x]]
<1>1. \A x \in Node \ {n, c} : /\ LevelOf(u, x) = LevelOf(t, x)
                               /\ Keys(u, x) = Keys(t, x)
                               /\ Kids(u, x) = Kids(t, x)
  BY DEF LevelOf, Keys, Kids
<1>2. InUse(t) \subseteq Node /\ n \in Node
  BY DEF InUse
<1>3. \A x \in Node \ {c} : LevelOf(u, x) = LevelOf(t, x)
  BY <1>1
<1>4. up \in [Node -> Node]
  BY DEF Hung
<1>5. v \in [Node -> Node]
  BY <1>4
<1>6. \A x \in InUse(u) : Distinct(LevelOf(u, x), Keys(u, x))
  BY <1>1, <1>2 DEF Hung
<1>7. \A y \in Kids(u, c) : v[y] = c \/ y \notin Node
  OBVIOUS
<1>8. \A y \in Node \ Kids(u, c) : v[y] = up[y]
  OBVIOUS
<1> HIDE DEF v
<1>9. ASSUME NEW x \in InUse(u), NEW y \in Kids(u, x)
      PROVE  /\ y \in Node /\ v[y] = x
             /\ y \in {} \/ /\ y \in InUse(u) \ {c} /\ y # 1
                            /\ LevelOf(u, y) + 1 = LevelOf(u, x)
  <2>1. CASE x = c \/ x = n
    <3>1. y \in Kids(t, n)
      BY <1>9, <2>1
    <3>2. y \in Node /\ up[y] = n /\ y \in InUse(t) /\ y # 1
          /\ LevelOf(t, y) + 1 = LevelOf(t, n)
      BY <3>1 DEF Hung
    <3>3. v[y] = x
      BY <1>7, <1>8, <1>9, <2>1, <3>2
    <3>4. LevelOf(u, y) = LevelOf(t, y) /\ y # c
      BY <1>3, <3>2
    <3>5. QED
      BY <2>1, <3>2, <3>3, <3>4
  <2>2. CASE x # c /\ x # n
    <3>1. x \in InUse(t) /\ y \in Kids(t, x)
      BY <1>1, <1>2, <1>9, <2>2
    <3>2. y \in Node /\ up[y] = x /\ y \in InUse(t) /\ y # 1
          /\ LevelOf(t, y) + 1 = LevelOf(t, x)
      BY <3>1 DEF Hung
    <3>3. y \notin Kids(t, n)
      BY <2>2, <3>2 DEF Hung
    <3>4. v[y] = x
      BY <1>8, <3>2, <3>3
    <3>5. LevelOf(u, y) = LevelOf(t, y) /\ y # c /\ LevelOf(u, x) = LevelOf(t, x)
      BY <1>2, <1>3, <2>2, <3>1, <3>2
    <3>6. QED
      BY <3>2, <3>4, <3>5
  <2>3. QED
    BY <2>1, <2>2
<1>10. ASSUME NEW y \in InUse(u) \ {c}
       PROVE  y = 1 \/ (v[y] \in InUse(u) /\ y \in Kids(u, v[y]))
  <2>1. y \in InUse(t) /\ y \in Node
    BY <1>2, <1>10
  <2>2. y = 1 \/ (up[y] \in InUse(t) /\ y \in Kids(t, up[y]))
    BY <2>1 DEF Hung
  <2>3. CASE y \in Kids(u, c)
    BY <1>7, <2>1, <2>3
  <2>4. CASE y \notin Kids(u, c) /\ y # 1
    <3>1. v[y] = up[y] /\ up[y] \in InUse(t) /\ y \in Kids(t, up[y])
      BY <1>8, <2>1, <2>2, <2>4
    <3>2. y \in Kids(u, up[y])
      <4>1. CASE up[y] = n
        BY <2>4, <3>1, <4>1
      <4>2. CASE up[y] # n
        BY <1>1, <1>2, <3>1, <4>2
      <4>3. QED
        BY <4>1, <4>2
    <3>3. QED
      BY <3>1, <3>2
  <2>5. QED
    BY <2>3, <2>4
<1>11. Hung(u, v, {c}, {})
  BY <1>5, <1>6, <1>9, <1>10 DEF Hung
<1>12. QED
  BY <1>11 DEF v

-----------------------------------------------------------------------------
(* The kids of a node after an entry was put in.                           *)
LEMMA InsertKids ==
  ASSUME NEW s \in Seq(Entries), NEW i \in 1..(Len(s) + 1), NEW e \in Entries,
         NEW l \in Nat, Distinct(l, s), e.to \notin KidsOf(l, s)
  PROVE  /\ Distinct(l, InsertAt(s, i, e))
         /\ l > 0 => KidsOf(l, InsertAt(s, i, e)) = KidsOf(l, s) \union {e.to}
<1> DEFINE r == InsertAt(s, i, e)
<1>1. /\ r \in Seq(Entries) /\ Len(r) = Len(s) + 1
      /\ \A k \in 1..(Len(s) + 1) :
           r[k] = IF k < i THEN s[k] ELSE IF k = i THEN e ELSE s[k - 1]
  BY InsertAtFacts
<1>2. Len(s) \in Nat /\ DOMAIN s = 1..Len(s) /\ DOMAIN r = 1..(Len(s) + 1)
      /\ i \in Nat
  BY <1>1
<1> HIDE DEF r
<1>3. ASSUME l > 0 PROVE Distinct(l, r) /\ KidsOf(l, r) = KidsOf(l, s) \union {e.to}
  <2>1. \A x, y \in 1..Len(s) : s[x].to = s[y].to => x = y
    BY <1>2, <1>3 DEF Distinct
  <2>2. \A x \in 1..Len(s) : s[x].to # e.to
    BY <1>2, <1>3 DEF KidsOf
  <2>3. ASSUME NEW x \in 1..(Len(s) + 1), NEW y \in 1..(Len(s) + 1),
               r[x].to = r[y].to
        PROVE  x = y
    <3>1. /\ x < i => x \in 1..Len(s)
          /\ y < i => y \in 1..Len(s)
          /\ x > i => x - 1 \in 1..Len(s)
          /\ y > i => y - 1 \in 1..Len(s)
      BY <1>2
    <3>2. /\ r[x] = IF x < i THEN s[x] ELSE IF x = i THEN e ELSE s[x - 1]
          /\ r[y] = IF y < i THEN s[y] ELSE IF y = i THEN e ELSE s[y - 1]
      BY <1>1
    <3>3. CASE x = i \/ y = i
      BY <1>2, <2>2, <2>3, <3>1, <3>2, <3>3
    <3>4. CASE x # i /\ y # i
      BY <1>2, <2>1, <2>3, <3>1, <3>2, <3>4
    <3>5. QED
      BY <3>3, <3>4
  <2>4. ASSUME NEW x \in 1..(Len(s) + 1)
        PROVE  r[x].to \in KidsOf(l, s) \union {e.to}
    <3>1. /\ x < i => x \in 1..Len(s)
          /\ x > i => x - 1 \in 1..Len(s)
          /\ x < i \/ x = i \/ x > i
      BY <1>2
    <3>2. r[x] = IF x < i THEN s[x] ELSE IF x = i THEN e ELSE s[x - 1]
      BY <1>1
    <3>3. QED
      BY <1>2, <1>3, <3>1, <3>2 DEF KidsOf
  <2>5. ASSUME NEW x \in 1..Len(s)
        PROVE  \E y \in 1..(Len(s) + 1) : r[y].to = s[x].to
    <3>1. CASE x < i
      BY <1>1, <1>2, <3>1
    <3>2. CASE ~(x < i)
      <4>1. x + 1 \in 1..(Len(s) + 1) /\ ~(x + 1 < i) /\ x + 1 # i
            /\ (x + 1) - 1 = x
        BY <1>2, <3>2
      <4>2. r[x + 1] = s[x]
        BY <1>1, <4>1
      <4>3. QED
        BY <4>1, <4>2
    <3>3. QED
      BY <3>1, <3>2
  <2>6. i \in 1..(Len(s) + 1) /\ r[i] = e
    BY <1>1, <1>2
  <2>7. KidsOf(l, r) = KidsOf(l, s) \union {e.to}
    BY <1>2, <1>3, <2>4, <2>5, <2>6 DEF KidsOf
  <2>8. QED
    BY <1>2, <2>3, <2>7 DEF Distinct
<1>4. ASSUME ~(l > 0) PROVE Distinct(l, r)
  BY <1>4 DEF Distinct
<1>5. QED
  BY <1>3, <1>4 DEF r

(* The entry that ends an interior node.                                   *)
LEMMA HighFacts ==
  ASSUME NEW n, n \in 0..MaxNode
  PROVE  /\ High(n) \in Entries /\ High(n).k = Highest /\ High(n).d = 0
         /\ High(n).to = n
BY TreeAssumption DEF High, Entry, Entries, Highest, Dup

(* The two halves of the entries of a node.                                *)
LEMMA SplitFacts ==
  ASSUME NEW s \in Seq(Entries), NEW h \in 1..(Len(s) - 1), NEW l \in Nat
  PROVE  LET a == Closed(Take(s, h), l)
             b == Drop(s, h) IN
         /\ a \in Seq(Entries) /\ Len(a) = h /\ DOMAIN a = 1..h
         /\ \A i \in 1..h : /\ a[i].to = s[i].to
                            /\ i < h \/ l = 0 => a[i] = s[i]
         /\ l > 0 => a[h] = High(s[h].to)
         /\ b \in Seq(Entries) /\ Len(b) = Len(s) - h
         /\ DOMAIN b = 1..(Len(s) - h)
         /\ \A i \in 1..(Len(s) - h) : b[i] = s[h + i]
<1> DEFINE c == Take(s, h)
           b == Drop(s, h)
           a == Closed(c, l)
<1>1. Len(s) \in Nat /\ h \in Nat /\ h >= 1 /\ h < Len(s)
      /\ \A i \in 1..Len(s) : s[i] \in Entries
  <2>1. \A i \in 1..Len(s) : s[i] \in Entries
    BY ElementOfSeq
  <2>2. QED
    BY <2>1
<1>2. /\ c \in Seq(Entries) /\ Len(c) = h /\ \A i \in 1..h : c[i] = s[i]
  <2>1. \A i \in 1..h : s[i] \in Entries
    BY <1>1
  <2>2. /\ SubSeq(s, 1, h) \in Seq(Entries)
        /\ Len(SubSeq(s, 1, h)) = IF 1 <= h THEN h - 1 + 1 ELSE 0
        /\ \A i \in 1..(h - 1 + 1) : SubSeq(s, 1, h)[i] = s[1 + i - 1]
    BY <1>1, <2>1, SubSeqProperties
  <2> DEFINE f == SubSeq(s, 1, h)
  <2> HIDE DEF f
  <2>3. /\ f \in Seq(Entries) /\ Len(f) = IF 1 <= h THEN h - 1 + 1 ELSE 0
        /\ \A i \in 1..(h - 1 + 1) : f[i] = s[1 + i - 1]
    BY <2>2 DEF f
  <2>4. Len(f) = h /\ \A i \in 1..h : f[i] = s[i]
    BY <1>1, <2>3
  <2>5. QED
    BY <2>3, <2>4 DEF f, Take
<1>3. /\ b \in Seq(Entries) /\ Len(b) = Len(s) - h
      /\ \A i \in 1..(Len(s) - h) : b[i] = s[h + i]
  <2>1. \A i \in (h + 1)..Len(s) : s[i] \in Entries
    BY <1>1
  <2> DEFINE f == SubSeq(s, h + 1, Len(s))
             n == Len(s)
  <2>2. /\ f \in Seq(Entries)
        /\ Len(f) = IF h + 1 <= n THEN n - (h + 1) + 1 ELSE 0
        /\ \A i \in 1..(n - (h + 1) + 1) : f[i] = s[(h + 1) + i - 1]
    BY <1>1, <2>1, SubSeqProperties
  <2>3. n \in Nat /\ h < n
    BY <1>1
  <2> HIDE DEF f, n
  <2>4. Len(f) = n - h /\ \A i \in 1..(n - h) : f[i] = s[h + i]
    BY <1>1, <2>2, <2>3
  <2>5. QED
    BY <2>2, <2>4 DEF f, n, Drop
<1> HIDE DEF b, c
<1>4. s[h] \in Entries /\ s[h].to \in 0..MaxNode
  BY <1>1 DEF Entries
<1>5. /\ a \in Seq(Entries) /\ Len(a) = h
      /\ \A i \in 1..h : /\ a[i].to = s[i].to
                         /\ i < h \/ l = 0 => a[i] = s[i]
      /\ l > 0 => a[h] = High(s[h].to)
  <2>1. CASE l = 0
    <3>1. a = c
      BY <2>1 DEF Closed
    <3>2. QED
      BY <1>1, <1>2, <2>1, <3>1
  <2>2. CASE l # 0
    <3>1. a = [c EXCEPT ![h] = High(c[h].to)]
      BY <1>2, <2>2 DEF Closed
    <3>2. c[h] = s[h] /\ h \in 1..h
      BY <1>1, <1>2
    <3>3. a = [c EXCEPT ![h] = High(s[h].to)]
      BY <3>1, <3>2
    <3>4. High(s[h].to) \in Entries /\ High(s[h].to).to = s[h].to
      BY <1>4, HighFacts
    <3> HIDE DEF a
    <3>5. /\ a \in Seq(Entries) /\ Len(a) = Len(c)
          /\ \A i \in 1..Len(c) :
               a[i] = IF i = h THEN High(s[h].to) ELSE c[i]
      <4>1. h \in 1..Len(c)
        BY <1>1, <1>2
      <4>2. QED
        BY <1>2, <3>3, <3>4, <4>1, ExceptSeq
    <3>6. QED
      BY <1>1, <1>2, <2>2, <3>2, <3>4, <3>5
  <2>3. QED
    BY <2>1, <2>2
<1> HIDE DEF a
<1>6. DOMAIN a = 1..h /\ DOMAIN b = 1..(Len(s) - h)
  BY <1>1, <1>3, <1>5
<1>7. QED
  BY <1>3, <1>5, <1>6 DEF a, b, c

(* The kids of the two halves: each kid goes to one of them.               *)
LEMMA SplitKids ==
  ASSUME NEW s \in Seq(Entries), NEW h \in 1..(Len(s) - 1), NEW l \in Nat,
         Distinct(l, s)
  PROVE  LET a == Closed(Take(s, h), l)
             b == Drop(s, h) IN
         /\ Distinct(l, a) /\ Distinct(l, b)
         /\ KidsOf(l, a) \union KidsOf(l, b) = KidsOf(l, s)
         /\ KidsOf(l, a) \intersect KidsOf(l, b) = {}
<1> DEFINE a == Closed(Take(s, h), l)
           b == Drop(s, h)
<1>0. /\ a \in Seq(Entries) /\ Len(a) = h /\ DOMAIN a = 1..h
      /\ \A i \in 1..h : /\ a[i].to = s[i].to
                         /\ i < h \/ l = 0 => a[i] = s[i]
      /\ l > 0 => a[h] = High(s[h].to)
      /\ b \in Seq(Entries) /\ Len(b) = Len(s) - h
      /\ DOMAIN b = 1..(Len(s) - h)
      /\ \A i \in 1..(Len(s) - h) : b[i] = s[h + i]
  BY SplitFacts
<1>1. /\ DOMAIN a = 1..h /\ \A i \in 1..h : a[i].to = s[i].to
      /\ DOMAIN b = 1..(Len(s) - h)
      /\ \A i \in 1..(Len(s) - h) : b[i] = s[h + i]
  <2> HIDE DEF a, b
  <2>1. QED
    BY <1>0
<1>2. Len(s) \in Nat /\ h \in Nat /\ h >= 1 /\ h < Len(s)
      /\ DOMAIN s = 1..Len(s)
  OBVIOUS
<1> HIDE DEF a, b
<1>3. CASE l > 0
  <2>1. \A i, j \in 1..Len(s) : s[i].to = s[j].to => i = j
    BY <1>2, <1>3 DEF Distinct
  <2>2. \A i \in 1..h : i \in 1..Len(s)
    BY <1>2
  <2>3. \A i \in 1..(Len(s) - h) : h + i \in 1..Len(s) /\ h + i > h
    BY <1>2
  <2>4. Distinct(l, a)
    BY <1>1, <2>1, <2>2 DEF Distinct
  <2>5. Distinct(l, b)
    <3>1. \A i, j \in 1..(Len(s) - h) : h + i = h + j => i = j
      BY <1>2
    <3>2. QED
      BY <1>1, <2>1, <2>3, <3>1 DEF Distinct
  <2>6. KidsOf(l, a) \union KidsOf(l, b) = KidsOf(l, s)
    <3>1. ASSUME NEW i \in 1..Len(s)
          PROVE  s[i].to \in KidsOf(l, a) \union KidsOf(l, b)
      <4>1. CASE i <= h
        <5>1. i \in 1..h
          BY <4>1
        <5>2. QED
          BY <1>1, <1>3, <5>1 DEF KidsOf
      <4>2. CASE ~(i <= h)
        <5>1. i - h \in 1..(Len(s) - h) /\ h + (i - h) = i
          BY <1>2, <4>2
        <5>2. b[i - h] = s[i]
          BY <1>1, <5>1
        <5>3. QED
          BY <1>1, <1>3, <5>1, <5>2 DEF KidsOf
      <4>3. QED
        BY <4>1, <4>2
    <3>2. KidsOf(l, a) \subseteq KidsOf(l, s)
      BY <1>1, <1>2, <1>3, <2>2 DEF KidsOf
    <3>3. KidsOf(l, b) \subseteq KidsOf(l, s)
      BY <1>1, <1>2, <1>3, <2>3 DEF KidsOf
    <3>4. KidsOf(l, s) \subseteq KidsOf(l, a) \union KidsOf(l, b)
      BY <1>2, <1>3, <3>1 DEF KidsOf
    <3>5. QED
      BY <3>2, <3>3, <3>4
  <2>7. KidsOf(l, a) \intersect KidsOf(l, b) = {}
    <3>1. ASSUME NEW i \in 1..h, NEW j \in 1..(Len(s) - h)
          PROVE  a[i].to # b[j].to
      <4>1. i \in 1..Len(s) /\ h + j \in 1..Len(s) /\ i # h + j
        BY <1>2
      <4>2. QED
        BY <1>1, <2>1, <4>1
    <3>2. QED
      BY <1>1, <1>3, <3>1 DEF KidsOf
  <2>8. QED
    BY <2>4, <2>5, <2>6, <2>7 DEF a, b
<1>4. CASE ~(l > 0)
  BY <1>4 DEF Distinct, KidsOf
<1>5. QED
  BY <1>3, <1>4

(* The entries of an interior node when one goes (WithoutChild): the entry *)
(* before takes its key.                                                   *)
LEMMA WithoutFacts ==
  ASSUME NEW s \in Seq(Entries), Len(s) >= 2, NEW i \in 1..Len(s)
  PROVE  LET r == WithoutChild(s, i) IN
         /\ r \in Seq(Entries) /\ Len(r) = Len(s) - 1
         /\ \A k \in 1..(Len(s) - 1) :
              /\ r[k].to = IF k < i THEN s[k].to ELSE s[k + 1].to
              /\ i < Len(s) => r[k] = IF k < i THEN s[k] ELSE s[k + 1]
              /\ i = Len(s) /\ k < Len(s) - 1 => r[k] = s[k]
         /\ i = Len(s) => r[Len(s) - 1] = High(s[Len(s) - 1].to)
<1> DEFINE n == Len(s)
           r == WithoutChild(s, i)
<1>1. n \in Nat /\ n >= 2 /\ i \in Nat /\ i >= 1 /\ i <= n
  OBVIOUS
<1>2. CASE i < n
  <2>1. r = RemoveAt(s, i)
    BY <1>2 DEF WithoutChild
  <2>2. /\ r \in Seq(Entries) /\ Len(r) = n - 1
        /\ \A k \in 1..(n - 1) : r[k] = IF k < i THEN s[k] ELSE s[k + 1]
    BY <2>1, RemoveAtFacts
  <2> HIDE DEF r
  <2>3. i # n
    BY <1>1, <1>2
  <2>4. QED
    BY <1>2, <2>2, <2>3 DEF r
<1>3. CASE i = n
  <2> DEFINE c == RemoveAt(s, n - 1)
             e == High(s[n - 1].to)
  <2>1. n - 1 \in 1..n /\ n - 1 \in 1..(n - 1)
    BY <1>1
  <2>2. r = [c EXCEPT ![n - 1] = e]
    <3>1. ~(i < n)
      BY <1>1, <1>3
    <3>2. QED
      BY <1>3, <3>1 DEF WithoutChild
  <2>3. /\ c \in Seq(Entries) /\ Len(c) = n - 1
        /\ \A k \in 1..(n - 1) : c[k] = IF k < n - 1 THEN s[k] ELSE s[k + 1]
    BY <2>1, RemoveAtFacts
  <2>4. s[n - 1] \in Entries
    BY <2>1, ElementOfSeq
  <2>5. e \in Entries /\ e.to = s[n - 1].to
    BY <2>4, HighFacts DEF Entries
  <2> HIDE DEF c, e, r
  <2>6. n - 1 \in 1..Len(c)
    BY <2>1, <2>3
  <2>7. /\ r \in Seq(Entries) /\ Len(r) = Len(c)
        /\ \A k \in 1..Len(c) : r[k] = IF k = n - 1 THEN e ELSE c[k]
    BY <2>2, <2>3, <2>5, <2>6, ExceptSeq
  <2>8. r \in Seq(Entries) /\ Len(r) = n - 1
    BY <2>3, <2>7
  <2>9. r[n - 1] = e /\ \A k \in 1..(n - 1) : k # n - 1 => r[k] = c[k]
    BY <2>1, <2>3, <2>7
  <2>10. \A k \in 1..(n - 1) : k < n - 1 => r[k] = s[k]
    BY <1>1, <2>3, <2>9
  <2>11. \A k \in 1..(n - 1) : k < i /\ (k < n - 1 \/ k = n - 1)
    BY <1>1, <1>3
  <2>12. \A k \in 1..(n - 1) : r[k].to = s[k].to
    BY <2>5, <2>9, <2>10, <2>11
  <2>13. ~(i < n)
    BY <1>1, <1>3
  <2>14. QED
    BY <1>3, <2>8, <2>9, <2>10, <2>11, <2>12, <2>13 DEF r, e
<1>4. QED
  BY <1>1, <1>2, <1>3

(* Its kids: only that one is gone.                                        *)
LEMMA WithoutKids ==
  ASSUME NEW s \in Seq(Entries), Len(s) >= 2, NEW i \in 1..Len(s),
         NEW l \in Nat, l > 0, Distinct(l, s)
  PROVE  /\ Distinct(l, WithoutChild(s, i))
         /\ KidsOf(l, WithoutChild(s, i)) = KidsOf(l, s) \ {s[i].to}
<1> DEFINE n == Len(s)
           r == WithoutChild(s, i)
           at(k) == IF k < i THEN k ELSE k + 1
<1>1. n \in Nat /\ n >= 2 /\ i \in Nat /\ i >= 1 /\ i <= n /\ DOMAIN s = 1..n
  OBVIOUS
<1>2. /\ r \in Seq(Entries) /\ Len(r) = n - 1
      /\ \A k \in 1..(n - 1) : r[k].to = IF k < i THEN s[k].to ELSE s[k + 1].to
  BY WithoutFacts
<1> HIDE DEF r, n
<1>3. DOMAIN r = 1..(n - 1)
  BY <1>1, <1>2
<1>4. \A k \in 1..(n - 1) : r[k].to = s[at(k)].to
  BY <1>2
<1>5. \A k \in 1..(n - 1) : at(k) \in 1..n /\ at(k) # i
  BY <1>1
<1>6. \A k, m \in 1..(n - 1) : at(k) = at(m) => k = m
  BY <1>1
<1>7. \A x \in 1..n : x # i => \E k \in 1..(n - 1) : at(k) = x
  <2>1. ASSUME NEW x \in 1..n, x < i PROVE x \in 1..(n - 1) /\ at(x) = x
    BY <1>1, <2>1
  <2>2. ASSUME NEW x \in 1..n, x > i PROVE x - 1 \in 1..(n - 1) /\ at(x - 1) = x
    BY <1>1, <2>2
  <2>3. ASSUME NEW x \in 1..n, x # i PROVE \E k \in 1..(n - 1) : at(k) = x
    <3>1. x < i \/ x > i
      BY <1>1, <2>3
    <3> HIDE DEF at
    <3>2. QED
      BY <2>1, <2>2, <3>1
  <2>4. QED
    BY <2>3
<1>8. \A x, y \in 1..n : s[x].to = s[y].to => x = y
  BY <1>1 DEF Distinct
<1> HIDE DEF at
<1>9. Distinct(l, r)
  BY <1>3, <1>4, <1>5, <1>6, <1>8 DEF Distinct
<1>10. KidsOf(l, r) = KidsOf(l, s) \ {s[i].to}
  <2>1. ASSUME NEW k \in 1..(n - 1)
        PROVE  r[k].to \in KidsOf(l, s) /\ r[k].to # s[i].to
    BY <1>1, <1>4, <1>5, <1>8 DEF KidsOf, n
  <2>2. ASSUME NEW x \in 1..n, s[x].to # s[i].to PROVE s[x].to \in KidsOf(l, r)
    <3>1. PICK k \in 1..(n - 1) : at(k) = x
      BY <1>7, <2>2
    <3>2. QED
      BY <1>3, <1>4, <3>1 DEF KidsOf
  <2>3. QED
    BY <1>1, <1>3, <2>1, <2>2 DEF KidsOf
<1>11. QED
  BY <1>9, <1>10 DEF r

-----------------------------------------------------------------------------
(* A node is written and keeps its kids.                                   *)
LEMMA HungSame ==
  ASSUME NEW t \in Tree, NEW up, NEW L, NEW G, Hung(t, up, L, G),
         NEW n \in InUse(t), NEW u \in Tree, InUse(u) = InUse(t),
         \A x \in Node \ {n} : u.node[x] = t.node[x],
         LevelOf(u, n) = LevelOf(t, n),
         Distinct(LevelOf(u, n), Keys(u, n)),
         Kids(u, n) = Kids(t, n)
  PROVE  Hung(u, up, L, G)
<1>1. InUse(t) \subseteq Node /\ n \in Node
  BY DEF InUse
<1>2. \A x \in Node \ {n} : /\ LevelOf(u, x) = LevelOf(t, x)
                            /\ Keys(u, x) = Keys(t, x) /\ Kids(u, x) = Kids(t, x)
  BY DEF LevelOf, Keys, Kids
<1>3. \A x \in Node : LevelOf(u, x) = LevelOf(t, x) /\ Kids(u, x) = Kids(t, x)
  BY <1>2
<1>4. \A x \in InUse(u) : Distinct(LevelOf(u, x), Keys(u, x))
  BY <1>1, <1>2 DEF Hung
<1>5. QED
  BY <1>1, <1>3, <1>4 DEF Hung

(* The ghost among the kids of a node goes from its entries.               *)
LEMMA HungLess ==
  ASSUME NEW t \in Tree, NEW up, NEW c, Hung(t, up, {}, {c}),
         c \notin InUse(t),
         NEW n \in InUse(t), NEW u \in Tree, InUse(u) = InUse(t),
         \A x \in Node \ {n} : u.node[x] = t.node[x],
         LevelOf(u, n) = LevelOf(t, n),
         Distinct(LevelOf(u, n), Keys(u, n)),
         c \in Kids(t, n), Kids(u, n) = Kids(t, n) \ {c}
  PROVE  Hung(u, up, {}, {})
<1>1. InUse(t) \subseteq Node /\ n \in Node
  BY DEF InUse
<1>2. \A x \in Node \ {n} : /\ LevelOf(u, x) = LevelOf(t, x)
                            /\ Keys(u, x) = Keys(t, x) /\ Kids(u, x) = Kids(t, x)
  BY DEF LevelOf, Keys, Kids
<1>3. \A x \in Node : LevelOf(u, x) = LevelOf(t, x)
  BY <1>2
<1>4. \A x \in InUse(u) : Distinct(LevelOf(u, x), Keys(u, x))
  BY <1>1, <1>2 DEF Hung
<1>5. up[c] = n
  BY DEF Hung
<1>6. ASSUME NEW x \in InUse(u), NEW y \in Kids(u, x)
      PROVE  /\ y \in Node /\ up[y] = x
             /\ y \in InUse(u) \ {} /\ y # 1
             /\ LevelOf(u, y) + 1 = LevelOf(u, x)
  <2>1. y \in Kids(t, x)
    BY <1>1, <1>2
  <2>2. /\ y \in Node /\ up[y] = x
        /\ y \in {c} \/ /\ y \in InUse(t) /\ y # 1
                        /\ LevelOf(t, y) + 1 = LevelOf(t, x)
    BY <2>1 DEF Hung
  <2>3. y # c
    BY <1>5, <2>2
  <2>4. QED
    BY <1>1, <1>3, <2>2, <2>3
<1>7. ASSUME NEW y \in InUse(u) \ {}
      PROVE  y = 1 \/ (up[y] \in InUse(u) /\ y \in Kids(u, up[y]))
  <2>1. y = 1 \/ (up[y] \in InUse(t) /\ y \in Kids(t, up[y]))
    BY DEF Hung
  <2>2. y # c
    OBVIOUS
  <2>3. QED
    BY <1>1, <1>2, <2>1, <2>2
<1>8. up \in [Node -> Node]
  BY DEF Hung
<1>9. QED
  BY <1>4, <1>6, <1>7, <1>8 DEF Hung

(* A node is freed, the kids it had being freed before it.                 *)
LEMMA HungGone ==
  ASSUME NEW t \in Tree, NEW up, NEW G, Hung(t, up, {}, G),
         NEW n \in InUse(t), NEW u \in Tree, InUse(u) = InUse(t) \ {n},
         \A x \in Node \ {n} : u.node[x] = t.node[x],
         G = Kids(t, n), G \intersect InUse(t) = {}
  PROVE  Hung(u, up, {}, {n})
<1>1. InUse(t) \subseteq Node /\ n \in Node
  BY DEF InUse
<1>2. \A x \in Node \ {n} : /\ LevelOf(u, x) = LevelOf(t, x)
                            /\ Keys(u, x) = Keys(t, x) /\ Kids(u, x) = Kids(t, x)
  BY DEF LevelOf, Keys, Kids
<1>3. \A x \in InUse(u) : Distinct(LevelOf(u, x), Keys(u, x))
  BY <1>1, <1>2 DEF Hung
<1>4. ASSUME NEW x \in InUse(u), NEW y \in Kids(u, x)
      PROVE  /\ y \in Node /\ up[y] = x
             /\ y \in {n} \/ /\ y \in InUse(u) \ {} /\ y # 1
                             /\ LevelOf(u, y) + 1 = LevelOf(u, x)
  <2>1. y \in Kids(t, x) /\ x \in InUse(t) /\ x # n /\ x \in Node
    BY <1>1, <1>2
  <2>2. /\ y \in Node /\ up[y] = x
        /\ y \in G \/ /\ y \in InUse(t) /\ y # 1
                      /\ LevelOf(t, y) + 1 = LevelOf(t, x)
    BY <2>1 DEF Hung
  <2>3. y \notin G
    <3>1. \A z \in Kids(t, n) : up[z] = n
      BY DEF Hung
    <3>2. QED
      BY <2>1, <2>2, <3>1
  <2>4. CASE y # n
    BY <1>1, <1>2, <2>1, <2>2, <2>3, <2>4
  <2>5. CASE y = n
    BY <2>2, <2>5
  <2>6. QED
    BY <2>4, <2>5
<1>5. ASSUME NEW y \in InUse(u) \ {}
      PROVE  y = 1 \/ (up[y] \in InUse(u) /\ y \in Kids(u, up[y]))
  <2>1. y \in InUse(t)
    OBVIOUS
  <2>2. y = 1 \/ (up[y] \in InUse(t) /\ y \in Kids(t, up[y]))
    BY <2>1 DEF Hung
  <2>3. y \notin Kids(t, n)
    BY <2>1
  <2>4. QED
    BY <1>1, <1>2, <2>2, <2>3
<1>6. up \in [Node -> Node]
  BY DEF Hung
<1>7. QED
  BY <1>3, <1>4, <1>5, <1>6 DEF Hung

(* The root is split in two new nodes below it.                            *)
LEMMA HungRoot ==
  ASSUME NEW t \in Tree, NEW up, Hung(t, up, {}, {}), 1 \in InUse(t),
         NEW a \in Node, NEW b \in Node, a # b, a \notin InUse(t),
         b \notin InUse(t), NEW u \in Tree,
         InUse(u) = InUse(t) \union {a, b},
         \A x \in Node \ {1, a, b} : u.node[x] = t.node[x],
         LevelOf(u, 1) = LevelOf(t, 1) + 1,
         LevelOf(u, a) = LevelOf(t, 1), LevelOf(u, b) = LevelOf(t, 1),
         Distinct(LevelOf(u, 1), Keys(u, 1)),
         Distinct(LevelOf(u, a), Keys(u, a)),
         Distinct(LevelOf(u, b), Keys(u, b)),
         Kids(u, 1) = {a, b},
         Kids(u, a) \union Kids(u, b) = Kids(t, 1),
         Kids(u, a) \intersect Kids(u, b) = {}
  PROVE  Hangs(u, {}, {})
<1> DEFINE v == [x \in Node |-> CASE x \in Kids(u, a)   -> a
                                  [] x \in Kids(u, b)   -> b
                                  [] x \in {a, b}       -> 1
                                  [] OTHER              -> up[x]]
<1>1. InUse(t) \subseteq Node /\ 1 \in Node /\ up \in [Node -> Node]
  BY DEF InUse, Hung
<1>2. \A x \in Node \ {1, a, b} : /\ LevelOf(u, x) = LevelOf(t, x)
                                  /\ Keys(u, x) = Keys(t, x)
                                  /\ Kids(u, x) = Kids(t, x)
  BY DEF LevelOf, Keys, Kids
<1>3. \A x \in Kids(t, 1) : /\ x \in Node /\ x \in InUse(t) /\ x # 1
                            /\ up[x] = 1 /\ x # a /\ x # b
                            /\ LevelOf(t, x) + 1 = LevelOf(t, 1)
  BY DEF Hung
<1>4. /\ \A x \in Kids(u, a) : v[x] = a
      /\ \A x \in Kids(u, b) : v[x] = b
      /\ v[a] = 1 /\ v[b] = 1
      /\ \A x \in Node : x \notin Kids(t, 1) \union {a, b} => v[x] = up[x]
  BY <1>3
<1>5. v \in [Node -> Node]
  BY <1>1
<1> HIDE DEF v
<1>6. \A x \in InUse(u) : Distinct(LevelOf(u, x), Keys(u, x))
  <2>1. \A x \in InUse(t) : Distinct(LevelOf(t, x), Keys(t, x))
    BY DEF Hung
  <2>2. QED
    BY <1>1, <1>2, <2>1
<1>7. ASSUME NEW x \in InUse(u), NEW y \in Kids(u, x)
      PROVE  /\ y \in Node /\ v[y] = x
             /\ y \in {} \/ /\ y \in InUse(u) \ {} /\ y # 1
                            /\ LevelOf(u, y) + 1 = LevelOf(u, x)
  <2>1. CASE x = 1
    BY <1>1, <1>4, <1>7, <2>1
  <2>2. CASE x \in {a, b}
    <3>1. y \in Kids(t, 1)
      BY <1>7, <2>2
    <3>2. LevelOf(u, y) = LevelOf(t, y)
      BY <1>2, <1>3, <3>1
    <3>3. v[y] = x
      BY <1>4, <1>7, <2>2
    <3>4. LevelOf(u, x) = LevelOf(t, 1)
      BY <2>2
    <3>5. QED
      BY <1>3, <3>1, <3>2, <3>3, <3>4
  <2>3. CASE x \notin {1, a, b}
    <3>1. x \in InUse(t) /\ x \in Node /\ y \in Kids(t, x)
      BY <1>1, <1>2, <1>7, <2>3
    <3>2. /\ y \in Node /\ up[y] = x /\ y \in InUse(t) /\ y # 1
          /\ LevelOf(t, y) + 1 = LevelOf(t, x)
      BY <3>1 DEF Hung
    <3>3. y \notin Kids(t, 1) /\ y \notin {a, b}
      BY <1>3, <2>3, <3>2
    <3>4. v[y] = x
      BY <1>4, <3>2, <3>3
    <3>5. LevelOf(u, y) = LevelOf(t, y) /\ LevelOf(u, x) = LevelOf(t, x)
      BY <1>2, <2>3, <3>1, <3>2, <3>3
    <3>6. QED
      BY <3>2, <3>4, <3>5
  <2>4. QED
    BY <2>1, <2>2, <2>3
<1>8. ASSUME NEW y \in InUse(u) \ {}
      PROVE  y = 1 \/ (v[y] \in InUse(u) /\ y \in Kids(u, v[y]))
  <2>1. CASE y \in {a, b}
    BY <1>4, <2>1
  <2>2. CASE y \in Kids(t, 1)
    BY <1>4, <2>2
  <2>3. CASE y \notin Kids(t, 1) \union {1, a, b}
    <3>1. y \in InUse(t) /\ y \in Node
      BY <1>1, <2>3
    <3>2. up[y] \in InUse(t) /\ y \in Kids(t, up[y])
      BY <2>3, <3>1 DEF Hung
    <3>3. v[y] = up[y] /\ up[y] \notin {1, a, b}
      BY <1>4, <2>3, <3>1, <3>2
    <3>4. QED
      BY <1>1, <1>2, <3>2, <3>3
  <2>4. QED
    BY <2>1, <2>2, <2>3
<1>9. Hung(u, v, {}, {})
  BY <1>5, <1>6, <1>7, <1>8 DEF Hung
<1>10. QED
  BY <1>9 DEF Hangs

(* The root takes over what is in its one kid, which is freed.             *)
LEMMA HungFold ==
  ASSUME NEW t \in Tree, NEW up, NEW G, Hung(t, up, {}, G),
         G \intersect InUse(t) = {}, 1 \in InUse(t),
         NEW c \in InUse(t), c # 1, c \in Kids(t, 1),
         Kids(t, 1) \subseteq G \union {c},
         G \subseteq Kids(t, 1),
         NEW u \in Tree, InUse(u) = InUse(t) \ {c},
         \A x \in Node \ {1, c} : u.node[x] = t.node[x],
         u.node[1] = t.node[c]
  PROVE  Hangs(u, {}, {})
<1> DEFINE v == [x \in Node |-> IF x \in Kids(t, c) THEN 1 ELSE up[x]]
<1>1. InUse(t) \subseteq Node /\ 1 \in Node /\ up \in [Node -> Node]
  BY DEF InUse, Hung
<1>2. /\ \A x \in Node \ {1, c} : /\ LevelOf(u, x) = LevelOf(t, x)
                                  /\ Keys(u, x) = Keys(t, x)
                                  /\ Kids(u, x) = Kids(t, x)
      /\ LevelOf(u, 1) = LevelOf(t, c) /\ Keys(u, 1) = Keys(t, c)
      /\ Kids(u, 1) = Kids(t, c)
  BY DEF LevelOf, Keys, Kids
<1>3. \A x \in Kids(t, 1) : up[x] = 1
  BY DEF Hung
<1>4. ASSUME NEW x \in InUse(t) \ {1}, NEW y \in Kids(t, x)
      PROVE  /\ y \in Node /\ up[y] = x /\ y \in InUse(t) /\ y # 1
             /\ y \notin Kids(t, 1)
             /\ LevelOf(t, y) + 1 = LevelOf(t, x)
  <2>1. /\ y \in Node /\ up[y] = x
        /\ y \in G \/ /\ y \in InUse(t) /\ y # 1
                      /\ LevelOf(t, y) + 1 = LevelOf(t, x)
    BY <1>4 DEF Hung
  <2>2. y \notin Kids(t, 1)
    BY <1>3, <2>1
  <2>3. QED
    BY <2>1, <2>2
<1>5. /\ v \in [Node -> Node]
      /\ \A x \in Kids(t, c) : v[x] = 1
      /\ \A x \in Node \ Kids(t, c) : v[x] = up[x]
  BY <1>1, <1>4
<1> HIDE DEF v
<1>6. \A x \in InUse(u) : Distinct(LevelOf(u, x), Keys(u, x))
  <2>1. \A x \in InUse(t) : Distinct(LevelOf(t, x), Keys(t, x))
    BY DEF Hung
  <2>2. QED
    BY <1>1, <1>2, <2>1
<1>7. ASSUME NEW x \in InUse(u), NEW y \in Kids(u, x)
      PROVE  /\ y \in Node /\ v[y] = x
             /\ y \in {} \/ /\ y \in InUse(u) \ {} /\ y # 1
                            /\ LevelOf(u, y) + 1 = LevelOf(u, x)
  <2>1. PICK z \in InUse(t) \ {1} : /\ y \in Kids(t, z)
                                    /\ LevelOf(u, x) = LevelOf(t, z)
                                    /\ z = IF x = 1 THEN c ELSE x
    BY <1>1, <1>2, <1>7
  <2>2. /\ y \in Node /\ up[y] = z /\ y \in InUse(t) /\ y # 1
        /\ y \notin Kids(t, 1) /\ LevelOf(t, y) + 1 = LevelOf(t, z)
    BY <1>4, <2>1
  <2>3. y # c
    BY <2>2
  <2>4. v[y] = x
    <3>1. CASE x = 1
      BY <1>5, <2>1, <3>1
    <3>2. CASE x # 1
      <4>1. z = x /\ z # c
        BY <1>7, <2>1, <3>2
      <4>2. y \notin Kids(t, c)
        BY <1>4, <2>2, <4>1
      <4>3. QED
        BY <1>5, <2>2, <4>1, <4>2
    <3>3. QED
      BY <3>1, <3>2
  <2>5. QED
    BY <1>2, <2>1, <2>2, <2>3, <2>4
<1>8. ASSUME NEW y \in InUse(u) \ {}
      PROVE  y = 1 \/ (v[y] \in InUse(u) /\ y \in Kids(u, v[y]))
  <2>1. CASE y # 1
    <3>1. y \in InUse(t) /\ y \in Node /\ y # c
      BY <1>1
    <3>2. up[y] \in InUse(t) /\ y \in Kids(t, up[y])
      BY <2>1, <3>1 DEF Hung
    <3>3. y \notin Kids(t, 1)
      BY <3>1
    <3>4. CASE up[y] = c
      BY <1>2, <1>5, <3>2, <3>4
    <3>5. CASE up[y] # c
      <4>1. y \notin Kids(t, c)
        BY <1>4, <3>5
      <4>2. v[y] = up[y] /\ up[y] # 1
        BY <1>5, <3>1, <3>2, <3>3, <4>1
      <4>3. QED
        BY <1>1, <1>2, <3>2, <3>5, <4>2
    <3>6. QED
      BY <3>4, <3>5
  <2>2. QED
    BY <2>1
<1>9. Hung(u, v, {}, {})
  BY <1>5, <1>6, <1>7, <1>8 DEF Hung
<1>10. QED
  BY <1>9 DEF Hangs

-----------------------------------------------------------------------------
(* An insertion, level by level.                                           *)

(* The nodes of S are written, the others are left.                        *)
LEMMA ShapelyMore ==
  ASSUME NEW t, Shapely(t), NEW u \in Tree, NEW S \in SUBSET Node,
         InUse(u) = InUse(t) \union S,
         \A x \in Node \ S : u.node[x] = t.node[x],
         \A x \in S : NodeShape(u, x),
         Top(t) <= Top(u)
  PROVE  Shapely(u)
<1>1. /\ t \in Tree /\ 1 \in InUse(t) /\ \A n \in t.free : t.node[n] = Blank
      /\ \A n \in InUse(t) : NodeShape(t, n)
  BY DEF Shapely
<1>2. t.free \in SUBSET Node /\ u.free \in SUBSET Node /\ InUse(t) \subseteq Node
  BY <1>1 DEF Tree, InUse
<1>3. \A n \in u.free : n \in t.free /\ n \in Node \ S
  BY <1>2 DEF InUse
<1>4. ASSUME NEW x \in InUse(u) PROVE NodeShape(u, x)
  <2>1. CASE x \in S
    BY <2>1
  <2>2. CASE x \notin S
    <3>1. x \in InUse(t) /\ u.node[x] = t.node[x]
      BY <1>2, <2>2
    <3>2. LevelOf(u, x) = LevelOf(t, x) /\ Keys(u, x) = Keys(t, x)
      BY <3>1 DEF LevelOf, Keys
    <3>3. LevelOf(t, x) \in Nat /\ Top(t) \in Nat /\ Top(u) \in Nat
      BY <1>1, <1>2, <3>1, NodeFacts DEF Top, InUse, LevelOf
    <3>4. LevelOf(t, x) <= Top(u) /\ (x # 1 => LevelOf(t, x) < Top(u))
      BY <1>1, <3>1, <3>3 DEF NodeShape
    <3>5. QED
      BY <1>1, <3>1, <3>2, <3>4 DEF NodeShape
  <2>3. QED
    BY <2>1, <2>2
<1>5. QED
  BY <1>1, <1>3, <1>4 DEF Shapely

(* A node is written with the new entry; it may be overfull.               *)
LEMMA InsertFacts ==
  ASSUME NEW t \in Tree, NEW n \in InUse(t), NEW e \in Entries,
         NEW i \in 1..(Len(Keys(t, n)) + 1),
         Hangs(t, IF LevelOf(t, n) = 0 THEN {} ELSE {e.to}, {}),
         LevelOf(t, n) > 0 =>
           e.to \in InUse(t) /\ e.to # 1 /\ LevelOf(t, e.to) + 1 = LevelOf(t, n)
  PROVE  LET l == LevelOf(t, n)
             s == InsertAt(Keys(t, n), i, e) IN
         /\ s \in Seq(Entries) /\ Len(s) = Len(Keys(t, n)) + 1
         /\ i \in 1..Len(s) /\ Distinct(l, s)
         /\ Hangs(Store(t, n, l, s), {}, {})
<1> DEFINE l == LevelOf(t, n)
           o == Keys(t, n)
           s == InsertAt(o, i, e)
           u == Store(t, n, l, s)
<1>1. n \in Node /\ l \in Level /\ l \in Nat /\ o \in Seq(Entries) /\ Len(o) \in Nat
  BY NodeFacts DEF InUse
<1>2. s \in Seq(Entries) /\ Len(s) = Len(o) + 1
  BY <1>1, InsertAtFacts
<1>3. /\ u \in Tree /\ InUse(u) = InUse(t) \union {n}
      /\ LevelOf(u, n) = l /\ Keys(u, n) = s
      /\ \A x \in Node \ {n} : u.node[x] = t.node[x]
  <2>1. l \in Level /\ s \in Seq(Entries) /\ n \in Node
    BY <1>1, <1>2
  <2> HIDE DEF l, o, s
  <2>2. Written(t, n, l, s, u)
    BY <2>1, StoreFacts
  <2> HIDE DEF u
  <2>3. QED
    BY <2>2 DEF Written
<1>4. InUse(u) = InUse(t) /\ LevelOf(u, n) = LevelOf(t, n)
  BY <1>3
<1>5. PICK up : Hung(t, up, IF l = 0 THEN {} ELSE {e.to}, {})
  BY DEF Hangs
<1>6. Distinct(l, o)
  BY <1>5 DEF Hung
<1>7. e.to \notin KidsOf(l, o)
  <2>1. CASE l = 0
    BY <1>1, <2>1 DEF KidsOf
  <2>2. CASE l # 0
    <3>1. Hung(t, up, {e.to}, {})
      BY <1>5, <2>2
    <3>2. \A c \in Kids(t, n) : c \notin {e.to}
      BY <3>1 DEF Hung
    <3>3. QED
      BY <3>2 DEF Kids
  <2>3. QED
    BY <2>1, <2>2
<1> HIDE DEF u
<1>8. /\ Distinct(l, s)
      /\ l > 0 => KidsOf(l, s) = KidsOf(l, o) \union {e.to}
  BY <1>1, <1>6, <1>7, InsertKids
<1>9. Kids(u, n) = KidsOf(l, s) /\ Kids(t, n) = KidsOf(l, o)
  BY <1>3 DEF Kids
<1>10. Hangs(u, {}, {})
  <2>1. CASE l = 0
    <3>1. Hung(t, up, {}, {})
      BY <1>5, <2>1
    <3>2. Kids(u, n) = Kids(t, n)
      BY <1>9, <2>1 DEF KidsOf
    <3>3. Distinct(LevelOf(u, n), Keys(u, n))
      BY <1>3, <1>8
    <3> HIDE DEF l, o, s
    <3>4. Hung(u, up, {}, {})
      BY <1>3, <1>4, <3>1, <3>2, <3>3, HungSame
    <3>5. QED
      BY <3>4 DEF Hangs
  <2>2. CASE l # 0
    <3>1. Hung(t, up, {e.to}, {}) /\ l > 0
      BY <1>1, <1>5, <2>2
    <3>2. Kids(u, n) = Kids(t, n) \union {e.to}
      BY <1>8, <1>9, <3>1
    <3>3. Distinct(LevelOf(u, n), Keys(u, n))
      BY <1>3, <1>8
    <3>4. /\ e.to \in InUse(t) /\ e.to \in Node /\ e.to # 1
          /\ LevelOf(t, e.to) + 1 = LevelOf(t, n)
      BY <3>1 DEF InUse
    <3> HIDE DEF l, o, s
    <3>5. Hung(u, [up EXCEPT ![e.to] = n], {}, {})
      BY <1>3, <1>4, <3>1, <3>2, <3>3, <3>4, HungMore
    <3>6. QED
      BY <3>5 DEF Hangs
  <2>3. QED
    BY <2>1, <2>2
<1>11. i \in 1..Len(s)
  BY <1>2
<1>12. QED
  BY <1>2, <1>8, <1>10, <1>11 DEF u

(* A split leaves an entry in each half.                                   *)
LEMMA HalfwayFacts ==
  ASSUME NEW s \in Seq(Entries), Len(s) = Cap + 1, NEW l \in Nat,
         NEW j \in 1..Len(s)
  PROVE  halfway(s, l, j) \in 1..(Len(s) - 1)
<1>1. Cap \in Nat /\ Cap >= 2
  BY TreeAssumption
<1> DEFINE n == Len(s)
<1>2. n = Cap + 1
  OBVIOUS
<1>3. halfway(s, l, j) = CASE j = n                -> n - 1
                           [] l > 0 /\ j = n - 1   -> n - 2
                           [] OTHER                -> 2
  BY DEF halfway
<1> HIDE DEF n
<1>4. CASE j = n
  <2>1. halfway(s, l, j) = n - 1 \/ halfway(s, l, j) = n - 2
    BY <1>1, <1>2, <1>3, <1>4
  <2>2. QED
    BY <1>1, <1>2, <2>1 DEF n
<1>5. CASE j # n
  <2>1. halfway(s, l, j) = 2 \/ halfway(s, l, j) = n - 2
    <3>1. CASE l > 0 /\ j = n - 1
      BY <1>3, <1>5, <3>1
    <3>2. CASE ~(l > 0 /\ j = n - 1)
      BY <1>3, <1>5, <3>2
    <3>3. QED
      BY <3>1, <3>2
  <2>2. QED
    BY <1>1, <1>2, <2>1 DEF n
<1>6. QED
  BY <1>4, <1>5

(* The node has room for the entry.                                        *)
LEMMA SaveFits ==
  ASSUME NEW t, Shapely(t), NEW n \in InUse(t), NEW s \in Seq(Entries),
         Len(s) \in 0..Cap, n # 1 \/ LevelOf(t, n) > 0 => Len(s) >= 1,
         NEW u, u = Store(t, n, LevelOf(t, n), s),
         Hangs(u, {}, {})
  PROVE  Sound(u) /\ Written(t, n, LevelOf(t, n), s, u) /\ Top(u) = Top(t)
<1>1. /\ t \in Tree /\ 1 \in InUse(t) /\ n \in Node /\ NodeShape(t, n)
      /\ LevelOf(t, n) \in Level /\ LevelOf(t, n) \in Nat
  BY NodeFacts DEF Shapely, InUse
<1>2. Written(t, n, LevelOf(t, n), s, u)
  BY <1>1, StoreFacts
<1>3. /\ u \in Tree /\ InUse(u) = InUse(t) \union {n}
      /\ LevelOf(u, n) = LevelOf(t, n) /\ Keys(u, n) = s
      /\ \A x \in Node \ {n} : u.node[x] = t.node[x]
  BY <1>2 DEF Written
<1>4. 1 \in Node /\ Top(t) = LevelOf(t, 1) /\ Top(u) = LevelOf(u, 1)
  BY <1>1 DEF InUse, Top, LevelOf
<1>5. Top(u) = Top(t) /\ Top(t) \in Nat
  <2>1. n # 1 => u.node[1] = t.node[1]
    BY <1>3, <1>4
  <2>2. Top(t) \in Nat
    BY <1>1, <1>4, NodeFacts
  <2>3. QED
    BY <1>3, <1>4, <2>1, <2>2 DEF LevelOf
<1>6. NodeShape(u, n)
  <2>1. Len(s) \in Nat /\ Len(s) <= Cap
    BY TreeAssumption
  <2>2. LevelOf(t, n) <= Top(t) /\ (n # 1 => LevelOf(t, n) < Top(t))
    BY <1>1 DEF NodeShape
  <2>3. QED
    BY <1>3, <1>5, <2>1, <2>2 DEF NodeShape
<1>7. {n} \in SUBSET Node /\ Top(t) <= Top(u)
  BY <1>1, <1>5
<1>8. Shapely(u)
  BY <1>3, <1>6, <1>7, ShapelyMore
<1>9. QED
  BY <1>2, <1>5, <1>8 DEF Sound

(* A node that is not the root was split: the low half in the new node     *)
(* hangs on nothing yet.                                                   *)
Parted(t, n, l, s, h, c) ==
  /\ Shapely(c.t) /\ Top(c.t) = Top(t) /\ Hangs(c.t, {c.low}, {})
  /\ c.low \in t.free /\ c.low \in Node /\ c.low # 1
  /\ c.t.free = t.free \ {c.low} /\ c.t.isdups = t.isdups
  /\ InUse(c.t) = InUse(t) \union {c.low}
  /\ LevelOf(c.t, c.low) = l /\ Keys(c.t, c.low) = Closed(Take(s, h), l)
  /\ LevelOf(c.t, n) = l /\ Keys(c.t, n) = Drop(s, h)
  /\ \A x \in Node \ {n, c.low} : c.t.node[x] = t.node[x]
  /\ c.e = Entry(s[h].k, s[h].d, c.low) /\ c.e \in Entries /\ c.e.to = c.low

(* After a split of a node that is not the root all hangs together but for *)
(* the new half.                                                           *)
LEMMA SplitHangs ==
  ASSUME NEW t \in Tree, NEW n \in InUse(t), n # 1, NEW s \in Seq(Entries),
         NEW h \in 1..(Len(s) - 1), NEW l, l = LevelOf(t, n), Distinct(l, s),
         NEW v \in Tree, Written(t, n, l, s, v), Hangs(v, {}, {}),
         NEW low \in Node, low \notin InUse(t), low # 1, NEW u \in Tree,
         InUse(u) = InUse(t) \union {low},
         LevelOf(u, n) = l, Keys(u, n) = Drop(s, h),
         LevelOf(u, low) = l, Keys(u, low) = Closed(Take(s, h), l),
         \A x \in Node \ {n, low} : u.node[x] = t.node[x]
  PROVE  Hangs(u, {low}, {})
<1>1. n \in Node /\ l \in Nat
  BY NodeFacts DEF InUse
<1> DEFINE a == Closed(Take(s, h), l)
           b == Drop(s, h)
<1>2. /\ Distinct(l, a) /\ Distinct(l, b)
      /\ KidsOf(l, a) \union KidsOf(l, b) = KidsOf(l, s)
      /\ KidsOf(l, a) \intersect KidsOf(l, b) = {}
  BY <1>1, SplitKids
<1>3. LevelOf(u, n) = l /\ Keys(u, n) = b /\ LevelOf(u, low) = l /\ Keys(u, low) = a
  OBVIOUS
<1> HIDE DEF a, b
<1>4. /\ InUse(v) = InUse(t) /\ LevelOf(v, n) = l /\ Keys(v, n) = s
      /\ \A x \in Node \ {n} : v.node[x] = t.node[x]
  BY DEF Written
<1>5. /\ Kids(u, n) = KidsOf(l, b) /\ Kids(u, low) = KidsOf(l, a)
      /\ Kids(v, n) = KidsOf(l, s)
  BY <1>3, <1>4 DEF Kids
<1>6. PICK up : Hung(v, up, {}, {})
  BY DEF Hangs
<1>7. /\ n \in InUse(v) /\ low \notin InUse(v)
      /\ InUse(u) = InUse(v) \union {low}
      /\ \A x \in Node \ {n, low} : u.node[x] = v.node[x]
      /\ LevelOf(u, n) = LevelOf(v, n) /\ LevelOf(u, low) = LevelOf(v, n)
      /\ Distinct(LevelOf(u, n), Keys(u, n))
      /\ Distinct(LevelOf(u, low), Keys(u, low))
      /\ Kids(u, n) \union Kids(u, low) = Kids(v, n)
      /\ Kids(u, n) \intersect Kids(u, low) = {}
  BY <1>1, <1>2, <1>3, <1>4, <1>5
<1>8. Hung(u, [x \in Node |-> IF x \in Kids(u, low) THEN low ELSE up[x]],
           {low}, {})
  BY <1>6, <1>7, HungSplit
<1>9. QED
  BY <1>8 DEF Hangs

(* inodesplit.                                                             *)
LEMMA SaveSplit ==
  ASSUME NEW t, Shapely(t), NEW n \in InUse(t), n # 1, NEW s \in Seq(Entries),
         Len(s) = Cap + 1, NEW h \in 1..(Len(s) - 1),
         NEW l, l = LevelOf(t, n), Distinct(l, s),
         Hangs(Store(t, n, l, s), {}, {}), t.free # {}
  PROVE  Parted(t, n, l, s, h, inodesplit(t, n, l, s, h))
<1>1. /\ t \in Tree /\ 1 \in InUse(t) /\ n \in Node /\ NodeShape(t, n)
      /\ l \in Level /\ l \in Nat /\ Cap \in Nat /\ Cap >= 2
  BY NodeFacts, TreeAssumption DEF Shapely, InUse
<1> DEFINE low == Allocate(t)
           a == Closed(Take(s, h), l)
           b == Drop(s, h)
           t1 == Store(t, low, l, a)
           u == Store(t1, n, l, b)
           e == Entry(s[h].k, s[h].d, low)
           c == inodesplit(t, n, l, s, h)
<1>2. c = [t |-> u, low |-> low, e |-> e]
  BY DEF inodesplit
<1>3. low \in t.free /\ low \in Node
  BY <1>1, AllocateFacts
<1>4. /\ a \in Seq(Entries) /\ Len(a) = h
      /\ b \in Seq(Entries) /\ Len(b) = Len(s) - h
  BY <1>1, SplitFacts
<1>5. low # 1 /\ low # n /\ low \notin InUse(t)
  BY <1>1, <1>3 DEF InUse
<1>6. Written(t, low, l, a, t1) /\ Written(t1, n, l, b, u)
  <2> HIDE DEF low, a, b
  <2>1. Written(t, low, l, a, t1)
    BY <1>1, <1>3, <1>4, StoreFacts
  <2>2. t1 \in Tree
    BY <2>1 DEF Written
  <2> HIDE DEF t1
  <2>3. Written(t1, n, l, b, u)
    BY <1>1, <1>4, <2>2, StoreFacts
  <2>4. QED
    BY <2>1, <2>3
<1>7. e \in Entries /\ e.to = low
  <2>1. h \in 1..Len(s)
    OBVIOUS
  <2>2. s[h] \in Entries
    BY <2>1, ElementOfSeq
  <2> HIDE DEF low
  <2>3. low \in 0..MaxNode
    BY <1>3, TreeAssumption DEF Node
  <2>4. QED
    BY <2>2, <2>3 DEF Entries, Entry
<1> HIDE DEF low, a, b, t1, u, e
<1>8. /\ t1 \in Tree /\ u \in Tree /\ u.isdups = t.isdups
      /\ u.free = t.free \ {low}
      /\ InUse(u) = InUse(t) \union {low}
      /\ LevelOf(u, n) = l /\ Keys(u, n) = b
      /\ \A x \in Node \ {n, low} : u.node[x] = t.node[x]
  <2>1. /\ t1 \in Tree /\ t1.free = t.free \ {low} /\ t1.isdups = t.isdups
        /\ InUse(t1) = InUse(t) \union {low}
        /\ \A x \in Node \ {low} : t1.node[x] = t.node[x]
    BY <1>6 DEF Written
  <2>2. /\ u \in Tree /\ u.free = t1.free \ {n} /\ u.isdups = t1.isdups
        /\ InUse(u) = InUse(t1) \union {n}
        /\ LevelOf(u, n) = l /\ Keys(u, n) = b
        /\ \A x \in Node \ {n} : u.node[x] = t1.node[x]
    BY <1>6 DEF Written
  <2>3. n \notin t.free
    BY DEF InUse
  <2>4. QED
    BY <2>1, <2>2, <2>3
<1>9. LevelOf(u, low) = l /\ Keys(u, low) = a
  <2>1. LevelOf(t1, low) = l /\ Keys(t1, low) = a
    BY <1>6 DEF Written
  <2>2. LevelOf(u, low) = LevelOf(t1, low) /\ Keys(u, low) = Keys(t1, low)
    BY <1>3, <1>5, <1>6 DEF Written
  <2>3. QED
    BY <2>1, <2>2
<1>10. Hangs(u, {low}, {})
  <2>1. Written(t, n, l, s, Store(t, n, l, s))
    BY <1>1, StoreFacts
  <2>2. Store(t, n, l, s) \in Tree
    BY <2>1 DEF Written
  <2>3. Keys(u, n) = Drop(s, h) /\ Keys(u, low) = Closed(Take(s, h), l)
    BY <1>8, <1>9 DEF a, b
  <2>4. QED
    BY <1>1, <1>3, <1>5, <1>8, <1>9, <2>1, <2>2, <2>3, SplitHangs
<1>11. Top(u) = Top(t) /\ Top(t) \in Nat
  <2>1. 1 \in Node \ {n, low}
    BY <1>1, <1>5 DEF InUse
  <2>2. u.node[1] = t.node[1] /\ 1 \in Node
    BY <1>8, <2>1
  <2>3. QED
    BY <1>1, <2>2, NodeFacts DEF Top, LevelOf
<1>12. NodeShape(u, n) /\ NodeShape(u, low)
  <2>1. l <= Top(t) /\ l < Top(t)
    BY <1>1 DEF NodeShape
  <2>2. Len(a) >= 1 /\ Len(a) <= Cap /\ Len(b) >= 1 /\ Len(b) <= Cap
    BY <1>1, <1>4
  <2>3. QED
    BY <1>8, <1>9, <1>11, <2>1, <2>2 DEF NodeShape
<1>13. Shapely(u)
  <2>1. /\ {n, low} \in SUBSET Node /\ Top(t) <= Top(u)
        /\ InUse(u) = InUse(t) \union {n, low}
        /\ \A x \in {n, low} : NodeShape(u, x)
    BY <1>1, <1>3, <1>8, <1>11, <1>12
  <2>2. QED
    BY <1>8, <2>1, ShapelyMore
<1>14. c.t = u /\ c.low = low /\ c.e = e
  BY <1>2
<1> HIDE DEF c
<1>15. Parted(t, n, l, s, h, c)
  <2>1. /\ LevelOf(u, n) = l /\ Keys(u, n) = Drop(s, h)
        /\ LevelOf(u, low) = l /\ Keys(u, low) = Closed(Take(s, h), l)
        /\ e = Entry(s[h].k, s[h].d, low)
    BY <1>8, <1>9 DEF a, b, e
  <2>2. QED
    BY <1>3, <1>5, <1>7, <1>8, <1>10, <1>11, <1>13, <1>14, <2>1 DEF Parted
<1>16. QED
  BY <1>15 DEF c

(* The root was split: both halves are in new nodes below it.              *)
Rooted(t, l, s, h, r) ==
  /\ Sound(r.t) /\ Top(r.t) = l + 1
  /\ r.low \in t.free /\ r.high \in t.free /\ r.low # r.high
  /\ r.low \in Node /\ r.high \in Node
  /\ r.t.free = t.free \ {r.low, r.high} /\ r.t.isdups = t.isdups
  /\ InUse(r.t) = InUse(t) \union {r.low, r.high}
  /\ LevelOf(r.t, r.low) = l /\ Keys(r.t, r.low) = Closed(Take(s, h), l)
  /\ LevelOf(r.t, r.high) = l /\ Keys(r.t, r.high) = Drop(s, h)
  /\ LevelOf(r.t, 1) = l + 1
  /\ Keys(r.t, 1) = <<Entry(s[h].k, s[h].d, r.low), High(r.high)>>
  /\ \A x \in Node \ {1, r.low, r.high} : r.t.node[x] = t.node[x]

(* After a split of the root all hangs together.                           *)
LEMMA RootHangs ==
  ASSUME NEW t \in Tree, 1 \in InUse(t), NEW s \in Seq(Entries),
         NEW h \in 1..(Len(s) - 1), NEW l, l = LevelOf(t, 1), Distinct(l, s),
         NEW v \in Tree, Written(t, 1, l, s, v), Hangs(v, {}, {}),
         NEW low \in Node, low \notin InUse(t),
         NEW high \in Node, high \notin InUse(t), low # high, NEW u \in Tree,
         InUse(u) = InUse(t) \union {low, high},
         LevelOf(u, 1) = l + 1, Distinct(l + 1, Keys(u, 1)),
         Kids(u, 1) = {low, high},
         LevelOf(u, low) = l, Keys(u, low) = Closed(Take(s, h), l),
         LevelOf(u, high) = l, Keys(u, high) = Drop(s, h),
         \A x \in Node \ {1, low, high} : u.node[x] = t.node[x]
  PROVE  Hangs(u, {}, {})
<1>1. 1 \in Node /\ l \in Nat
  BY NodeFacts DEF InUse
<1> DEFINE a == Closed(Take(s, h), l)
           b == Drop(s, h)
<1>2. /\ Distinct(l, a) /\ Distinct(l, b)
      /\ KidsOf(l, a) \union KidsOf(l, b) = KidsOf(l, s)
      /\ KidsOf(l, a) \intersect KidsOf(l, b) = {}
  BY <1>1, SplitKids
<1>3. Keys(u, low) = a /\ Keys(u, high) = b
  OBVIOUS
<1> HIDE DEF a, b
<1>4. /\ InUse(v) = InUse(t) /\ LevelOf(v, 1) = l /\ Keys(v, 1) = s
      /\ \A x \in Node \ {1} : v.node[x] = t.node[x]
  BY DEF Written
<1>5. /\ Kids(u, high) = KidsOf(l, b) /\ Kids(u, low) = KidsOf(l, a)
      /\ Kids(v, 1) = KidsOf(l, s)
  BY <1>3, <1>4 DEF Kids
<1>6. PICK up : Hung(v, up, {}, {})
  BY DEF Hangs
<1>7. /\ 1 \in InUse(v) /\ low \notin InUse(v) /\ high \notin InUse(v)
      /\ InUse(u) = InUse(v) \union {low, high}
      /\ \A x \in Node \ {1, low, high} : u.node[x] = v.node[x]
      /\ LevelOf(u, 1) = LevelOf(v, 1) + 1
      /\ LevelOf(u, low) = LevelOf(v, 1) /\ LevelOf(u, high) = LevelOf(v, 1)
      /\ Distinct(LevelOf(u, 1), Keys(u, 1))
      /\ Distinct(LevelOf(u, low), Keys(u, low))
      /\ Distinct(LevelOf(u, high), Keys(u, high))
      /\ Kids(u, low) \union Kids(u, high) = Kids(v, 1)
      /\ Kids(u, low) \intersect Kids(u, high) = {}
  BY <1>1, <1>2, <1>3, <1>4, <1>5
<1>8. QED
  BY <1>6, <1>7, HungRoot

(* The two entries of a new root.                                          *)
LEMMA RootKids ==
  ASSUME NEW x \in Entries, NEW y \in Entries, x.to # y.to, NEW l \in Nat
  PROVE  /\ <<x, y>> \in Seq(Entries) /\ Len(<<x, y>>) = 2
         /\ Distinct(l + 1, <<x, y>>)
         /\ KidsOf(l + 1, <<x, y>>) = {x.to, y.to}
<1> DEFINE s == <<x, y>>
<1>1. s \in Seq(Entries) /\ Len(s) = 2 /\ s[1] = x /\ s[2] = y
  OBVIOUS
<1> HIDE DEF s
<1>2. DOMAIN s = {1, 2} /\ l + 1 > 0
  <2>1. DOMAIN s = 1..2
    BY <1>1
  <2>2. QED
    BY <2>1
<1>3. Distinct(l + 1, s)
  BY <1>1, <1>2 DEF Distinct
<1>4. KidsOf(l + 1, s) = {x.to, y.to}
  <2>1. KidsOf(l + 1, s) = {s[i].to : i \in {1, 2}}
    BY <1>2 DEF KidsOf
  <2>2. QED
    BY <1>1, <2>1
<1>5. QED
  BY <1>1, <1>3, <1>4 DEF s

(* inewroot: the root stays node 1, its entries move to two new nodes.     *)
LEMMA SaveRoot ==
  ASSUME NEW t, Shapely(t), NEW s \in Seq(Entries), Len(s) = Cap + 1,
         NEW h \in 1..(Len(s) - 1), NEW l, l = LevelOf(t, 1), Distinct(l, s),
         Hangs(Store(t, 1, l, s), {}, {}), l + 1 <= MaxNode,
         Cardinality(t.free) >= 2
  PROVE  Rooted(t, l, s, h, inewroot(t, l, s, h))
<1>1. /\ t \in Tree /\ 1 \in InUse(t) /\ 1 \in Node /\ l \in Level /\ l \in Nat
      /\ Cap \in Nat /\ Cap >= 2 /\ Top(t) = l
  BY NodeFacts, TreeAssumption DEF Shapely, InUse, Top, LevelOf
<1>2. l + 1 \in Level
  BY <1>1, TreeAssumption DEF Level
<1> DEFINE low  == Allocate(t)
           a    == Closed(Take(s, h), l)
           b    == Drop(s, h)
           t1   == Store(t, low, l, a)
           high == Allocate(t1)
           t2   == Store(t1, high, l, b)
           x    == Entry(s[h].k, s[h].d, low)
           root == <<x, High(high)>>
           u    == Store(t2, 1, l + 1, root)
           r    == inewroot(t, l, s, h)
<1>3. r = [t |-> u, low |-> low, high |-> high]
  BY DEF inewroot
<1>4. /\ Cardinality(t.free) \in Nat /\ t.free # {}
      /\ \A n \in t.free : Cardinality(t.free \ {n}) = Cardinality(t.free) - 1
  BY <1>1, FreeCount
<1>5. low \in t.free /\ low \in Node
  BY <1>1, <1>4, AllocateFacts
<1>6. /\ a \in Seq(Entries) /\ Len(a) = h
      /\ b \in Seq(Entries) /\ Len(b) = Len(s) - h
  BY <1>1, SplitFacts
<1>7. s[h] \in Entries
  <2>1. h \in 1..Len(s)
    OBVIOUS
  <2>2. QED
    BY <2>1, ElementOfSeq
<1>8. x \in Entries /\ x.to = low
  <2> HIDE DEF low
  <2>1. low \in 0..MaxNode
    BY <1>5, TreeAssumption DEF Node
  <2>2. QED
    BY <1>7, <2>1 DEF Entries, Entry
<1>9. r.t = u /\ r.low = low /\ r.high = high
  BY <1>3
<1>10. Keys(u, 1) = root => Keys(u, 1) = <<Entry(s[h].k, s[h].d, low), High(high)>>
  OBVIOUS
<1> HIDE DEF low, a, b, x, r
<1>11. Written(t, low, l, a, t1)
  BY <1>1, <1>5, <1>6, StoreFacts
<1>12. /\ t1 \in Tree /\ t1.free = t.free \ {low} /\ t1.isdups = t.isdups
       /\ InUse(t1) = InUse(t) \union {low}
       /\ LevelOf(t1, low) = l /\ Keys(t1, low) = a
       /\ \A y \in Node \ {low} : t1.node[y] = t.node[y]
  <2> HIDE DEF t1
  <2>1. QED
    BY <1>11 DEF Written
<1>13. high \in t1.free /\ high \in Node
  <2> HIDE DEF t1
  <2>1. Cardinality(t1.free) = Cardinality(t.free) - 1
    BY <1>4, <1>5, <1>12
  <2>2. Cardinality(t1.free) > 0
    BY <1>4, <2>1
  <2>3. t1.free # {}
    BY <1>12, <2>2, FreeCount
  <2>4. QED
    BY <1>12, <2>3, AllocateFacts
<1> HIDE DEF t1, high
<1>14. Written(t1, high, l, b, t2)
  BY <1>1, <1>6, <1>12, <1>13, StoreFacts
<1> HIDE DEF t2
<1>15. /\ t2 \in Tree /\ t2.free = t1.free \ {high} /\ t2.isdups = t1.isdups
       /\ InUse(t2) = InUse(t1) \union {high}
       /\ LevelOf(t2, high) = l /\ Keys(t2, high) = b
       /\ \A y \in Node \ {high} : /\ t2.node[y] = t1.node[y]
                                   /\ LevelOf(t2, y) = LevelOf(t1, y)
                                   /\ Keys(t2, y) = Keys(t1, y)
  BY <1>14 DEF Written
<1>16. High(high) \in Entries /\ High(high).to = high
  <2>1. high \in 0..MaxNode
    BY <1>13, TreeAssumption DEF Node
  <2>2. QED
    BY <2>1, HighFacts
<1>17. low # high /\ high \in t.free /\ low # 1 /\ high # 1
       /\ low \notin InUse(t) /\ high \notin InUse(t)
  BY <1>1, <1>5, <1>12, <1>13 DEF InUse
<1>18. /\ root \in Seq(Entries) /\ Len(root) = 2 /\ Distinct(l + 1, root)
       /\ KidsOf(l + 1, root) = {low, high}
  <2> HIDE DEF root
  <2>1. x.to # High(high).to
    BY <1>8, <1>16, <1>17
  <2>2. root = <<x, High(high)>>
    BY DEF root
  <2> DEFINE y == High(high)
  <2>3. y \in Entries /\ y.to = high /\ x.to # y.to /\ root = <<x, y>>
    BY <1>16, <2>1, <2>2
  <2> HIDE DEF y
  <2>4. QED
    BY <1>1, <1>8, <2>3, RootKids
<1>19. Written(t2, 1, l + 1, root, u)
  <2> HIDE DEF root
  <2>1. QED
    BY <1>1, <1>2, <1>15, <1>18, StoreFacts
<1> HIDE DEF u
<1>20. /\ u \in Tree /\ u.free = t2.free \ {1} /\ u.isdups = t2.isdups
       /\ InUse(u) = InUse(t2) \union {1}
       /\ LevelOf(u, 1) = l + 1 /\ Keys(u, 1) = root
       /\ \A y \in Node \ {1} : /\ u.node[y] = t2.node[y]
                                /\ LevelOf(u, y) = LevelOf(t2, y)
                                /\ Keys(u, y) = Keys(t2, y)
  <2> HIDE DEF root
  <2>1. QED
    BY <1>19 DEF Written
<1> HIDE DEF root
<1>21. /\ u.free = t.free \ {low, high} /\ u.isdups = t.isdups
       /\ InUse(u) = InUse(t) \union {low, high}
       /\ \A y \in Node \ {1, low, high} : u.node[y] = t.node[y]
  <2>1. 1 \notin t.free
    BY <1>1 DEF InUse
  <2>2. u.free = t.free \ {low, high} /\ u.isdups = t.isdups
    BY <1>12, <1>15, <1>20, <2>1
  <2>3. InUse(u) = InUse(t) \union {low, high}
    BY <1>1, <1>12, <1>15, <1>20
  <2>4. ASSUME NEW y \in Node \ {1, low, high} PROVE u.node[y] = t.node[y]
    BY <1>12, <1>15, <1>20
  <2>5. QED
    BY <2>2, <2>3, <2>4
<1>22. /\ LevelOf(u, low) = l /\ Keys(u, low) = a
       /\ LevelOf(u, high) = l /\ Keys(u, high) = b
  BY <1>5, <1>12, <1>13, <1>15, <1>17, <1>20
<1>23. Hangs(u, {}, {})
  <2>1. Written(t, 1, l, s, Store(t, 1, l, s))
    BY <1>1, StoreFacts
  <2>2. Store(t, 1, l, s) \in Tree
    BY <2>1 DEF Written
  <2>3. Keys(u, high) = Drop(s, h) /\ Keys(u, low) = Closed(Take(s, h), l)
    BY <1>22 DEF a, b
  <2>4. Distinct(l + 1, Keys(u, 1)) /\ Kids(u, 1) = {low, high}
    BY <1>18, <1>20 DEF Kids
  <2>5. QED
    BY <1>1, <1>5, <1>13, <1>17, <1>20, <1>21, <1>22, <2>1, <2>2, <2>3, <2>4,
       RootHangs
<1>24. Top(u) = l + 1
  BY <1>20 DEF Top, LevelOf
<1>25. NodeShape(u, 1) /\ NodeShape(u, low) /\ NodeShape(u, high)
  <2>1. Len(a) >= 1 /\ Len(a) <= Cap /\ Len(b) >= 1 /\ Len(b) <= Cap
    BY <1>1, <1>6
  <2>2. l <= l + 1 /\ l < l + 1 /\ l + 1 <= l + 1 /\ 2 >= 1 /\ 2 <= Cap
    BY <1>1
  <2>3. NodeShape(u, 1)
    BY <1>18, <1>20, <1>24, <2>2 DEF NodeShape
  <2>4. NodeShape(u, low)
    BY <1>22, <1>24, <2>1, <2>2 DEF NodeShape
  <2>5. NodeShape(u, high)
    BY <1>22, <1>24, <2>1, <2>2 DEF NodeShape
  <2>6. QED
    BY <2>3, <2>4, <2>5
<1>26. Shapely(u)
  <2>1. /\ {1, low, high} \in SUBSET Node /\ Top(t) <= Top(u)
        /\ InUse(u) = InUse(t) \union {1, low, high}
        /\ \A y \in {1, low, high} : NodeShape(u, y)
    BY <1>1, <1>5, <1>13, <1>21, <1>24, <1>25
  <2>2. QED
    BY <1>20, <1>21, <2>1, ShapelyMore
<1>27. Keys(u, 1) = <<Entry(s[h].k, s[h].d, low), High(high)>>
  BY <1>20 DEF root, x
<1>28. Keys(u, low) = Closed(Take(s, h), l) /\ Keys(u, high) = Drop(s, h)
  BY <1>22 DEF a, b
<1>29. Rooted(t, l, s, h, r)
  BY <1>5, <1>9, <1>13, <1>17, <1>20, <1>21, <1>22, <1>23, <1>24, <1>26, <1>27,
     <1>28 DEF Rooted, Sound
<1>30. QED
  BY <1>29 DEF r

(* Where an insertion has come to: before level l of the path, with an     *)
(* entry for the node there; above level 0 that is the entry for the new   *)
(* node of the level below.  The nodes of the path still to come are as    *)
(* they were.                                                              *)
Anywhere == UNION {[S -> Marks] : S \in SUBSET Node}
Stages   == [t : Tree, m : Anywhere, more : BOOLEAN, e : Entries]

(* What such a stage is like on the way up.                                *)
Rising(t, p, l, g) ==
  /\ l \in 0..Top(t)
  /\ Shapely(g.t) /\ Top(g.t) = Top(t)
  /\ Hangs(g.t, IF l = 0 THEN {} ELSE {g.e.to}, {})
  /\ l > 0 => /\ g.e.to \in InUse(g.t) /\ g.e.to # 1
              /\ LevelOf(g.t, g.e.to) + 1 = l
  /\ \A j \in l..Top(t) : /\ p[j].n \in InUse(g.t) /\ p[j].n \in DOMAIN g.m
                          /\ g.t.node[p[j].n] = t.node[p[j].n]
  /\ g.m \in Memories(g.t)
  /\ Cardinality(g.t.free) >= Top(t) + 2 - l

(* What it is like when nothing is left to put in.                         *)
Grown(g) == Sound(g.t) /\ g.m \in Memories(g.t)

(* The stages an insertion may have come to before level l.                *)
Upto(t, p, l) == {g \in Stages : IF g.more THEN Rising(t, p, l, g) ELSE Grown(g)}

(* Every memory is one of those.                                           *)
LEMMA AnywhereFacts ==
  ASSUME NEW t \in Tree, NEW m \in Memories(t)
  PROVE  m \in Anywhere
<1>1. PICK S \in SUBSET InUse(t) : m \in [S -> Marks]
  BY DEF Memories
<1>2. S \in SUBSET Node
  BY DEF InUse
<1>3. QED
  BY <1>1, <1>2 DEF Anywhere

(* The memory after a split has the two halves with their marks.           *)
LEMMA HalvesFacts ==
  ASSUME NEW t, NEW m \in Memories(t), NEW of \in Marks, NEW u,
         NEW low, NEW high, InUse(u) = InUse(t) \union {low, high}
  PROVE  /\ Halves(m, low, high, of) \in Memories(u)
         /\ DOMAIN Halves(m, low, high, of) = DOMAIN m \union {low, high}
<1> DEFINE r == Halves(m, low, high, of)
<1>1. DOMAIN m \subseteq InUse(t) /\ \A n \in DOMAIN m : m[n] \in Marks
  BY MemoryFacts
<1>2. of.tof \in BOOLEAN /\ of.eof \in BOOLEAN
  BY DEF Marks
<1> DEFINE a == [tof |-> of.tof, eof |-> FALSE]
           b == [tof |-> FALSE, eof |-> of.eof]
<1>3. a \in Marks /\ b \in Marks
  BY <1>2 DEF Marks
<1>4. r = [x \in DOMAIN m \union {low, high} |->
             CASE x = low -> a [] x = high -> b [] OTHER -> m[x]]
  BY DEF Halves
<1> HIDE DEF r, a, b
<1>5. DOMAIN r = DOMAIN m \union {low, high}
  BY <1>4
<1>6. \A x \in DOMAIN r : r[x] \in Marks
  BY <1>1, <1>3, <1>4
<1>7. r = [x \in DOMAIN r |-> r[x]]
  BY <1>4
<1>8. DOMAIN r \subseteq InUse(u)
  BY <1>1, <1>5
<1>9. r \in Memories(u)
  BY <1>6, <1>7, <1>8, MemoryFacts
<1>10. QED
  BY <1>5, <1>9 DEF r

(* What a save of the entries s in node n comes to: they fit, or the root  *)
(* is split, or another node is and the entry for its low half is left to  *)
(* the level above.                                                        *)
SavesWhole(g, n, l, s, r) ==
  /\ Len(s) <= Cap /\ Sound(r.t) /\ Written(g.t, n, l, s, r.t)
  /\ r.m = g.m /\ r.more = FALSE

(* ... the root was split at h ...                                         *)
SavesRoot(g, l, s, h, q, r) ==
  /\ h \in 1..(Len(s) - 1) /\ Rooted(g.t, l, s, h, q)
  /\ r.t = q.t /\ r.m = Halves(g.m, q.low, q.high, RootMarks)
  /\ r.more = FALSE

(* ... another node was ...                                                *)
SavesParts(g, n, l, s, h, c, r) ==
  /\ h \in 1..(Len(s) - 1) /\ Parted(g.t, n, l, s, h, c)
  /\ r.t = c.t /\ r.m = Halves(g.m, c.low, n, g.m[n])
  /\ r.more = TRUE /\ r.e = c.e

(* ... and r is one of these.                                              *)
Saves(g, n, l, s, r) ==
  /\ s \in Seq(Entries) /\ r.e \in Entries
  /\ r = [t |-> r.t, m |-> r.m, more |-> r.more, e |-> r.e]
  /\ \/ SavesWhole(g, n, l, s, r)
     \/ n = 1 /\ \E h, q : SavesRoot(g, l, s, h, q, r)
     \/ n # 1 /\ l < Top(g.t) /\ \E h, c : SavesParts(g, n, l, s, h, c, r)

(* What ivbnodesave does at one level of an insertion is one of the three: *)
(* the entries are those of the node, which nothing has touched, with the  *)
(* new one put in at the place of the path.                                *)
LEMMA SaveCases ==
  ASSUME NEW t, Sound(t), NEW p, PathOf(t, p),
         Cardinality(t.free) >= Top(t) + 2,
         NEW l \in 0..Top(t), NEW g \in Upto(t, p, l), g.more
  PROVE  /\ Saves(g, p[l].n, l, InsertAt(Keys(g.t, p[l].n), p[l].i, g.e),
                ivbnodesave(g, p, l))
         /\ Keys(g.t, p[l].n) = Keys(t, p[l].n)
<1> DEFINE n == p[l].n
           o == Keys(g.t, n)
           i == p[l].i
           s == InsertAt(o, i, g.e)
           h == halfway(s, l, i)
           r == ivbnodesave(g, p, l)
<1>1. /\ Rising(t, p, l, g) /\ g.t \in Tree /\ g.e \in Entries /\ g.m \in Anywhere
  BY DEF Upto, Stages
<1>2. /\ Shapely(g.t) /\ Top(g.t) = Top(t)
      /\ Hangs(g.t, IF l = 0 THEN {} ELSE {g.e.to}, {})
      /\ l > 0 => /\ g.e.to \in InUse(g.t) /\ g.e.to # 1
                  /\ LevelOf(g.t, g.e.to) + 1 = l
      /\ \A j \in l..Top(t) : /\ p[j].n \in InUse(g.t) /\ p[j].n \in DOMAIN g.m
                              /\ g.t.node[p[j].n] = t.node[p[j].n]
      /\ g.m \in Memories(g.t)
      /\ Cardinality(g.t.free) >= Top(t) + 2 - l
  BY <1>1 DEF Rising
<1>3. /\ t \in Tree /\ Top(t) \in Nat /\ Top(t) \in Level /\ l \in Nat
      /\ l <= Top(t) /\ l \in l..Top(t) /\ l \in Level
  <2>1. t \in Tree /\ Top(t) \in Nat /\ Top(t) \in Level
    BY TopFacts
  <2>2. QED
    BY <2>1, TreeAssumption DEF Level
<1>4. /\ n \in InUse(t) /\ LevelOf(t, n) = l
      /\ i \in 1..(Len(Keys(t, n)) + 1)
  BY DEF PathOf
<1>5. /\ n \in InUse(g.t) /\ n \in DOMAIN g.m /\ n \in Node
      /\ LevelOf(g.t, n) = l /\ o = Keys(t, n) /\ Len(o) \in 0..Cap
  <2>1. n \in InUse(g.t) /\ n \in DOMAIN g.m /\ g.t.node[n] = t.node[n]
    BY <1>2, <1>3
  <2>2. n \in Node /\ Len(Keys(t, n)) \in 0..Cap
    BY <1>4, UsedFacts
  <2>3. QED
    BY <1>4, <2>1, <2>2 DEF LevelOf, Keys
<1> HIDE DEF n, i
<1>6. i \in 1..(Len(Keys(g.t, n)) + 1)
  BY <1>4, <1>5
<1>7. /\ s \in Seq(Entries) /\ Len(s) = Len(o) + 1
      /\ i \in 1..Len(s) /\ Distinct(l, s)
      /\ Hangs(Store(g.t, n, l, s), {}, {})
  <2>1. Hangs(g.t, IF LevelOf(g.t, n) = 0 THEN {} ELSE {g.e.to}, {})
    BY <1>2, <1>5
  <2>2. LevelOf(g.t, n) > 0 => /\ g.e.to \in InUse(g.t) /\ g.e.to # 1
                               /\ LevelOf(g.t, g.e.to) + 1 = LevelOf(g.t, n)
    BY <1>2, <1>5
  <2>3. LET ll == LevelOf(g.t, n)
            ss == InsertAt(Keys(g.t, n), i, g.e) IN
         /\ ss \in Seq(Entries) /\ Len(ss) = Len(Keys(g.t, n)) + 1
         /\ i \in 1..Len(ss) /\ Distinct(ll, ss)
         /\ Hangs(Store(g.t, n, ll, ss), {}, {})
    BY <1>1, <1>5, <1>6, <2>1, <2>2, InsertFacts
  <2>4. QED
    BY <1>5, <2>3
<1>8. r = Saved(g, n, l, s, i)
  BY DEF ivbnodesave, n, i
<1>9. Cap \in Nat /\ Cap >= 2 /\ Len(s) \in 1..(Cap + 1)
  BY <1>5, <1>7, TreeAssumption
<1> HIDE DEF o, s
<1>10. CASE Len(s) <= Cap
  <2> DEFINE u == Store(g.t, n, l, s)
  <2>1. r = Moved(u, g.m, FALSE, g.e)
    <3>1. Len(s) <= Cap /\ ~(Len(s) > Cap /\ n = 1)
      BY <1>9, <1>10
    <3>2. QED
      BY <1>8, <3>1, Zenon DEF Saved
  <2>2. u = Store(g.t, n, LevelOf(g.t, n), s) /\ Len(s) \in 0..Cap
        /\ Len(s) >= 1
    BY <1>5, <1>9, <1>10
  <2>3. Hangs(u, {}, {})
    BY <1>7
  <2> HIDE DEF u
  <2>4. Sound(u) /\ Written(g.t, n, l, s, u)
    BY <1>2, <1>5, <1>7, <2>2, <2>3, SaveFits
  <2>5. r = [t |-> u, m |-> g.m, more |-> FALSE, e |-> g.e]
    BY <2>1 DEF Moved
  <2> HIDE DEF r
  <2>6. r.t = u /\ r.m = g.m /\ r.more = FALSE /\ r.e = g.e
    BY <2>5
  <2>7. SavesWhole(g, n, l, s, r)
    BY <1>10, <2>4, <2>6 DEF SavesWhole
  <2>8. QED
    BY <1>1, <1>5, <1>7, <2>5, <2>6, <2>7 DEF Saves, r, o, s, n, i
<1>11. CASE Len(s) > Cap /\ n = 1
  <2> DEFINE q == inewroot(g.t, l, s, h)
             m == Halves(g.m, q.low, q.high, RootMarks)
  <2>1. r = RootSplit(g, q)
    BY <1>8, <1>9, <1>11 DEF Saved
  <2>2. r = [t |-> q.t, m |-> m, more |-> FALSE, e |-> g.e]
    BY <2>1 DEF RootSplit, Moved
  <2>3. Len(s) = Cap + 1
    BY <1>9, <1>11
  <2>4. h \in 1..(Len(s) - 1)
    BY <1>3, <1>7, <2>3, HalfwayFacts
  <2>5. l = Top(t) /\ l = LevelOf(g.t, 1)
    BY <1>2, <1>5, <1>11 DEF Top, LevelOf
  <2>6. l + 1 <= MaxNode
    <3>1. Cardinality(t.free) \in Nat /\ Cardinality(t.free) <= MaxNode
      BY <1>3, FreeCount
    <3>2. QED
      BY <1>3, <2>5, <3>1, TreeAssumption
  <2>7. Cardinality(g.t.free) >= 2
    BY <1>2, <1>3, <2>5
  <2>8. Hangs(Store(g.t, 1, l, s), {}, {})
    BY <1>7, <1>11
  <2> HIDE DEF h
  <2>9. Rooted(g.t, l, s, h, q)
    BY <1>2, <1>7, <2>3, <2>4, <2>5, <2>6, <2>7, <2>8, SaveRoot
  <2> HIDE DEF q, m, r
  <2>10. r.t = q.t /\ r.m = m /\ r.more = FALSE /\ r.e = g.e
    BY <2>2
  <2>11. SavesRoot(g, l, s, h, q, r)
    BY <2>4, <2>9, <2>10 DEF SavesRoot, m
  <2>12. QED
    BY <1>1, <1>5, <1>7, <1>11, <2>2, <2>10, <2>11 DEF Saves, r, o, s, n, i
<1>12. CASE Len(s) > Cap /\ n # 1
  <2> DEFINE c == inodesplit(g.t, n, l, s, h)
             m == Halves(g.m, c.low, n, g.m[n])
  <2>1. r = NodeSplit(g, n, c)
    <3>1. /\ ~(Len(s) <= Cap) /\ ~(Len(s) > Cap /\ n = 1)
      BY <1>9, <1>12
    <3>2. QED
      BY <1>8, <3>1, Zenon DEF Saved
  <2>2. r = [t |-> c.t, m |-> m, more |-> TRUE, e |-> c.e]
    BY <2>1 DEF NodeSplit, Moved
  <2>3. Len(s) = Cap + 1
    BY <1>9, <1>12
  <2>4. h \in 1..(Len(s) - 1)
    BY <1>3, <1>7, <2>3, HalfwayFacts
  <2>5. l < Top(g.t)
    BY <1>2, <1>4, <1>12, UsedFacts
  <2>6. Cardinality(g.t.free) \in Nat /\ g.t.free # {}
    <3>1. /\ Cardinality(g.t.free) \in Nat
          /\ Cardinality(g.t.free) > 0 => g.t.free # {}
      BY <1>1, FreeCount
    <3>2. QED
      BY <1>2, <1>3, <2>5, <3>1
  <2> HIDE DEF h
  <2>7. Parted(g.t, n, l, s, h, c)
    BY <1>2, <1>5, <1>7, <1>12, <2>3, <2>4, <2>6, SaveSplit
  <2> HIDE DEF c, m, r
  <2>8. r.t = c.t /\ r.m = m /\ r.more = TRUE /\ r.e = c.e
    BY <2>2
  <2>9. SavesParts(g, n, l, s, h, c, r)
    BY <2>4, <2>7, <2>8 DEF SavesParts, m
  <2>10. c.e \in Entries
    BY <2>7 DEF Parted
  <2>11. QED
    BY <1>5, <1>7, <1>12, <2>2, <2>5, <2>8, <2>9, <2>10
       DEF Saves, r, o, s, n, i
<1>13. QED
  <2>1. Len(s) <= Cap \/ Len(s) > Cap
    BY <1>9
  <2>2. QED
    BY <1>10, <1>11, <1>12, <2>1

(* ivbnodesave takes an insertion one level up: the node has room, or it is*)
(* split and the entry for the new half is on its way, or the root is split*)
(* and all is done.                                                        *)
LEMMA SaveStage ==
  ASSUME NEW t, Sound(t), NEW p, PathOf(t, p),
         Cardinality(t.free) >= Top(t) + 2,
         NEW l \in 0..Top(t), NEW g \in Upto(t, p, l), g.more
  PROVE  ivbnodesave(g, p, l) \in Upto(t, p, l + 1)
<1> DEFINE n == p[l].n
           s == InsertAt(Keys(g.t, n), p[l].i, g.e)
           r == ivbnodesave(g, p, l)
<1>1. /\ Rising(t, p, l, g) /\ g.t \in Tree /\ g.e \in Entries
      /\ g.m \in Anywhere
  BY DEF Upto, Stages
<1>2. /\ Shapely(g.t) /\ Top(g.t) = Top(t)
      /\ \A j \in l..Top(t) : /\ p[j].n \in InUse(g.t) /\ p[j].n \in DOMAIN g.m
                              /\ g.t.node[p[j].n] = t.node[p[j].n]
      /\ g.m \in Memories(g.t)
      /\ Cardinality(g.t.free) >= Top(t) + 2 - l
  BY <1>1 DEF Rising
<1>3. /\ t \in Tree /\ Top(t) \in Nat /\ l \in Nat
      /\ l <= Top(t) /\ l \in l..Top(t)
  BY TopFacts
<1>4. n \in InUse(t) /\ LevelOf(t, n) = l
  BY DEF PathOf
<1>5. n \in InUse(g.t) /\ n \in DOMAIN g.m
  BY <1>2, <1>3
<1>6. Saves(g, n, l, s, r)
  BY SaveCases
<1> HIDE DEF n, s, r
<1>7. /\ r.e \in Entries
      /\ r = [t |-> r.t, m |-> r.m, more |-> r.more, e |-> r.e]
  BY <1>6 DEF Saves
<1>8. CASE SavesWhole(g, n, l, s, r)
  <2>1. /\ Sound(r.t) /\ Written(g.t, n, l, s, r.t)
        /\ r.m = g.m /\ r.more = FALSE
    BY <1>8 DEF SavesWhole
  <2>2. r.t \in Tree /\ InUse(r.t) = InUse(g.t)
    BY <1>5, <2>1 DEF Written
  <2>3. r.m \in Memories(r.t)
    BY <1>2, <2>1, <2>2 DEF Memories
  <2>4. r \in Stages
    BY <1>1, <1>7, <2>1, <2>2 DEF Stages
  <2>5. QED
    BY <2>1, <2>3, <2>4 DEF Upto, Grown, r
<1>9. ASSUME NEW h, NEW q, SavesRoot(g, l, s, h, q, r)
      PROVE  r \in Upto(t, p, l + 1)
  <2>1. /\ Rooted(g.t, l, s, h, q) /\ r.t = q.t /\ r.more = FALSE
        /\ r.m = Halves(g.m, q.low, q.high, RootMarks)
    BY <1>9 DEF SavesRoot
  <2>2. Sound(q.t) /\ InUse(q.t) = InUse(g.t) \union {q.low, q.high}
    BY <2>1 DEF Rooted
  <2>3. RootMarks \in Marks
    BY DEF RootMarks, Marks
  <2>4. r.m \in Memories(r.t)
    <3>1. PICK before, after, low, high, mm, of :
            /\ before = g.t /\ after = q.t /\ low = q.low /\ high = q.high
            /\ mm = g.m /\ of = RootMarks
      OBVIOUS
    <3>2. /\ mm \in Memories(before) /\ of \in Marks
          /\ InUse(after) = InUse(before) \union {low, high}
      BY <1>2, <2>2, <2>3, <3>1
    <3>3. Halves(mm, low, high, of) \in Memories(after)
      BY <3>2, HalvesFacts
    <3>4. QED
      BY <2>1, <3>1, <3>3
  <2>5. r.t \in Tree
    BY <2>1, <2>2 DEF Sound, Shapely
  <2>6. r.m \in Anywhere
    BY <2>4, <2>5, AnywhereFacts
  <2>7. r \in Stages
    BY <1>7, <2>1, <2>5, <2>6 DEF Stages
  <2>8. QED
    BY <2>1, <2>2, <2>4, <2>7 DEF Upto, Grown
<1>10. ASSUME n # 1, l < Top(g.t), NEW h, NEW c,
              SavesParts(g, n, l, s, h, c, r)
       PROVE  r \in Upto(t, p, l + 1)
  <2>1. /\ Parted(g.t, n, l, s, h, c) /\ r.t = c.t /\ r.more = TRUE
        /\ r.m = Halves(g.m, c.low, n, g.m[n]) /\ r.e = c.e
    BY <1>10 DEF SavesParts
  <2>5. l < Top(t) /\ l + 1 \in 0..Top(t) /\ l + 1 > 0
    BY <1>2, <1>3, <1>10
  <2>8. /\ Shapely(c.t) /\ Top(c.t) = Top(g.t) /\ Hangs(c.t, {c.low}, {})
        /\ c.low \in g.t.free /\ c.low \in Node /\ c.low # 1
        /\ c.t.free = g.t.free \ {c.low}
        /\ InUse(c.t) = InUse(g.t) \union {c.low}
        /\ LevelOf(c.t, c.low) = l
        /\ \A x \in Node \ {n, c.low} : c.t.node[x] = g.t.node[x]
        /\ c.e \in Entries /\ c.e.to = c.low
    BY <2>1 DEF Parted
  <2>9. /\ r.m \in Memories(c.t) /\ DOMAIN r.m = DOMAIN g.m \union {c.low, n}
    <3>1. g.m[n] \in Marks
      BY <1>2, <1>5, MemoryFacts
    <3>2. InUse(c.t) = InUse(g.t) \union {c.low, n}
      BY <1>5, <2>8
    <3>3. g.m \in Memories(g.t)
      BY <1>2
    <3>4. PICK of \in Marks : of = g.m[n]
      BY <3>1
    <3>5. PICK before, after, low : /\ before = g.t /\ after = c.t
                                    /\ low = c.low
      OBVIOUS
    <3>6. PICK mm : mm = g.m
      OBVIOUS
    <3>7. mm \in Memories(before) /\ InUse(after) = InUse(before) \union {low, n}
      BY <3>2, <3>3, <3>5, <3>6
    <3>8. /\ Halves(mm, low, n, of) \in Memories(after)
          /\ DOMAIN Halves(mm, low, n, of) = DOMAIN mm \union {low, n}
      BY <3>7, HalvesFacts
    <3>9. QED
      BY <2>1, <3>4, <3>5, <3>6, <3>8
  <2>10. c.t \in Tree
    BY <2>8 DEF Shapely
  <2>11. r.m \in Anywhere
    BY <2>9, <2>10, AnywhereFacts
  <2>12. r \in Stages
    BY <1>7, <2>1, <2>10, <2>11 DEF Stages
  <2>13. Cardinality(c.t.free) >= Top(t) + 2 - (l + 1)
    <3>1. Cardinality(c.t.free) = Cardinality(g.t.free) - 1
      BY <1>1, <2>8, FreeCount
    <3>2. QED
      <4>1. Cardinality(g.t.free) \in Nat
        BY <1>1, FreeCount
      <4>2. QED
        BY <1>2, <1>3, <2>5, <3>1, <4>1
  <2>14. ASSUME NEW j \in (l + 1)..Top(t)
         PROVE  /\ p[j].n \in InUse(c.t) /\ p[j].n \in DOMAIN r.m
                /\ c.t.node[p[j].n] = t.node[p[j].n]
    <3>1. j \in l..Top(t) /\ j \in 0..Top(t) /\ j # l
      BY <1>3
    <3>2. /\ p[j].n \in InUse(g.t) /\ p[j].n \in DOMAIN g.m
          /\ g.t.node[p[j].n] = t.node[p[j].n]
      BY <1>2, <3>1
    <3>3. LevelOf(t, p[j].n) = j
      BY <3>1 DEF PathOf
    <3>4. p[j].n # n
      BY <1>4, <3>1, <3>3
    <3>5. p[j].n # c.low /\ p[j].n \in Node
      BY <2>8, <3>2 DEF InUse
    <3>6. QED
      BY <2>8, <2>9, <3>2, <3>4, <3>5
  <2>15. c.e.to \in InUse(c.t) /\ c.e.to # 1 /\ LevelOf(c.t, c.e.to) + 1 = l + 1
    BY <2>8
  <2>16. Hangs(c.t, IF l + 1 = 0 THEN {} ELSE {c.e.to}, {})
    BY <1>3, <2>8
  <2>17. Top(c.t) = Top(t)
    BY <1>2, <2>8
  <2>18. Rising(t, p, l + 1, r)
    BY <2>1, <2>5, <2>8, <2>9, <2>13, <2>14, <2>15, <2>16, <2>17 DEF Rising
  <2>19. QED
    BY <2>1, <2>12, <2>18 DEF Upto
<1>11. r \in Upto(t, p, l + 1)
  BY <1>6, <1>8, <1>9, <1>10 DEF Saves, r
<1>12. QED
  BY <1>11 DEF r

(* The levels of an insertion one by one.                                  *)
Rises(t, m, p, e, u) ==
  /\ u[-1] = Moved(t, m, TRUE, e)
  /\ \A l \in 0..Top(t) : u[l] = IF u[l - 1].more
                                 THEN ivbnodesave(u[l - 1], p, l) ELSE u[l - 1]
  /\ \A l \in 0..(Top(t) + 1) : u[l - 1] \in Upto(t, p, l)

(* ivbkeyinsert has values, and they are those of its levels: it is the last*)
(* of the stages.                                                          *)
LEMMA InsertStages ==
  ASSUME NEW t, Sound(t), NEW p, PathOf(t, p), NEW m \in Memories(t),
         \A l \in 0..Top(t) : p[l].n \in DOMAIN m,
         NEW e \in Entries, Cardinality(t.free) >= Top(t) + 2
  PROVE  \E u : Rises(t, m, p, e, u) /\ ivbkeyinsert(t, m, p, e) = u[Top(t)]
<1> DEFINE T == Top(t)
           N == T + 1
           D == -1..T
           a == Moved(t, m, TRUE, e)
           next(v, l) == IF v.more THEN ivbnodesave(v, p, l) ELSE v
           Body(g) == [l \in D |-> IF l = -1 THEN a ELSE next(g[l - 1], l)]
           upto == CHOOSE g : g = Body(g)
           G == [k \in 0..N |-> Upto(t, p, k)]
           F == [k \in 1..N |-> [v \in Upto(t, p, k - 1) |-> next(v, k - 1)]]
<1>1. ivbkeyinsert(t, m, p, e) = upto[T]
  BY DEF ivbkeyinsert
<1>2. T \in Nat /\ N \in Nat /\ t \in Tree
  BY TopFacts
<1>3. a \in Upto(t, p, 0)
  <2>1. a = [t |-> t, m |-> m, more |-> TRUE, e |-> e]
    BY DEF Moved
  <2>2. m \in Anywhere
    BY <1>2, AnywhereFacts
  <2> HIDE DEF a
  <2>3. a \in Stages /\ a.more = TRUE /\ a.t = t /\ a.m = m /\ a.e = e
    <3>1. TRUE \in BOOLEAN
      OBVIOUS
    <3>2. a.more = TRUE /\ a.t = t /\ a.m = m /\ a.e = e
      BY <2>1
    <3>3. a \in Stages
      BY <1>2, <2>1, <2>2, <3>1 DEF Stages
    <3>4. QED
      BY <3>2, <3>3
  <2>4. \A j \in 0..Top(t) : p[j].n \in InUse(t)
    BY DEF PathOf
  <2>5. Shapely(t) /\ Hangs(t, {}, {})
    BY DEF Sound
  <2>6. 0 \in 0..Top(t) /\ Cardinality(t.free) >= Top(t) + 2 - 0
    BY <1>2
  <2>7. Rising(t, p, 0, a)
    BY <2>3, <2>4, <2>5, <2>6 DEF Rising
  <2>8. QED
    BY <2>3, <2>7 DEF Upto
<1>4. ASSUME NEW l \in 0..T, NEW v \in Upto(t, p, l)
      PROVE  next(v, l) \in Upto(t, p, l + 1)
  <2>1. CASE v.more
    BY <2>1, SaveStage
  <2>2. CASE ~v.more
    BY <2>2 DEF Upto
  <2>3. QED
    BY <2>1, <2>2
<1>5. ASSUME NEW k \in 1..N
      PROVE  /\ k - 1 \in 0..T /\ k - 1 \in 0..N /\ (k - 1) + 1 = k
             /\ k \in 0..N
  BY <1>2
<1> HIDE DEF a, next
<1>6. PICK g : Staged(g, N, G, a, F)
  <2>1. a \in G[0]
    BY <1>2, <1>3
  <2>2. \A k \in 1..N : \A v \in G[k - 1] : F[k][v] \in G[k]
    <3>1. ASSUME NEW k \in 1..N, NEW v \in G[k - 1] PROVE F[k][v] \in G[k]
      <4>1. v \in Upto(t, p, k - 1)
        BY <1>5
      <4>2. F[k][v] = next(v, k - 1)
        BY <4>1
      <4>3. next(v, k - 1) \in Upto(t, p, k)
        BY <1>4, <1>5, <4>1
      <4>4. QED
        BY <1>5, <4>2, <4>3
    <3> HIDE DEF F, G
    <3>2. QED
      BY <3>1
  <2> HIDE DEF F, G, N
  <2>3. QED
    BY <1>2, <2>1, <2>2, StagesExist
<1>7. /\ g[0] = a
      /\ \A k \in 1..N : g[k] = F[k][g[k - 1]]
      /\ \A k \in 0..N : g[k] \in Upto(t, p, k)
  BY <1>6 DEF Staged
<1> DEFINE w == [l \in D |-> g[l + 1]]
<1>8. w = Body(w)
  <2>1. ASSUME NEW l \in D PROVE w[l] = Body(w)[l]
    <3>1. CASE l = -1
      BY <1>7, <3>1
    <3>2. CASE l # -1
      <4>1. l + 1 \in 1..N /\ l - 1 \in D /\ (l + 1) - 1 = l /\ (l - 1) + 1 = l
            /\ l \in 0..N
        BY <1>2, <3>2
      <4>2. g[l + 1] = F[l + 1][g[l]] /\ g[l] \in Upto(t, p, l)
        BY <1>7, <4>1
      <4>3. g[l + 1] = next(g[l], l)
        BY <4>1, <4>2
      <4>4. w[l - 1] = g[l]
        BY <4>1
      <4>5. QED
        BY <3>2, <4>3, <4>4
    <3>3. QED
      BY <3>1, <3>2
  <2>2. QED
    BY <2>1
<1>9. upto = Body(upto)
  BY <1>8
<1> HIDE DEF upto
<1>10. upto[-1] = a /\ \A l \in 0..T : upto[l] = next(upto[l - 1], l)
  <2>1. -1 \in D /\ \A l \in 0..T : l \in D /\ l # -1
    BY <1>2
  <2>2. QED
    BY <1>9, <2>1
<1>11. \A k \in 0..N : upto[k - 1] \in Upto(t, p, k)
  <2> DEFINE S == {k \in 0..N : upto[k - 1] \notin Upto(t, p, k)}
  <2>1. S = {}
    <3> SUFFICES ASSUME S # {} PROVE FALSE
      OBVIOUS
    <3>1. S \in SUBSET Nat
      BY <1>2
    <3>2. PICK k \in S : \A y \in S : k <= y
      <4> HIDE DEF S
      <4>1. QED
        BY <3>1, LeastNumber
    <3>3. k # 0
      BY <1>3, <1>10, <3>2
    <3>4. /\ k - 1 \in 0..N /\ ~(k <= k - 1) /\ k - 1 \in 0..T
          /\ (k - 1) + 1 = k
      BY <1>2, <3>2, <3>3
    <3>5. upto[(k - 1) - 1] \in Upto(t, p, k - 1)
      BY <3>2, <3>4
    <3>6. upto[k - 1] = next(upto[(k - 1) - 1], k - 1)
      BY <1>10, <3>4
    <3>7. upto[k - 1] \in Upto(t, p, k)
      BY <1>4, <3>4, <3>5, <3>6
    <3>8. QED
      BY <3>2, <3>7
  <2>2. QED
    BY <2>1
<1>12. Rises(t, m, p, e, upto)
  BY <1>10, <1>11 DEF Rises, a, next
<1>13. QED
  BY <1>1, <1>12

(* An insertion into a sound tree with a node to spare for each level leaves*)
(* a sound tree and a memory of its nodes.                                 *)
LEMMA InsertEnds ==
  ASSUME NEW t, Sound(t), NEW p, PathOf(t, p), NEW m \in Memories(t),
         \A l \in 0..Top(t) : p[l].n \in DOMAIN m,
         NEW e \in Entries, Cardinality(t.free) >= Top(t) + 2
  PROVE  Grown(ivbkeyinsert(t, m, p, e))
<1>1. PICK u : Rises(t, m, p, e, u) /\ ivbkeyinsert(t, m, p, e) = u[Top(t)]
  BY InsertStages
<1>2. Top(t) \in Nat
  BY TopFacts
<1>3. Top(t) + 1 \in 0..(Top(t) + 1) /\ (Top(t) + 1) - 1 = Top(t)
      /\ Top(t) + 1 \notin 0..Top(t)
  BY <1>2
<1>4. u[Top(t)] \in Upto(t, p, Top(t) + 1)
  BY <1>1, <1>3 DEF Rises
<1>5. QED
  BY <1>1, <1>3, <1>4 DEF Upto, Rising

-----------------------------------------------------------------------------
(* A deletion, level by level.                                             *)

(* Where a deletion has come to: the node of the level below is freed, and *)
(* the entry for it goes next.                                             *)
Falling(t, p, l, g) ==
  /\ Shapely(g.t) /\ Top(g.t) = Top(t)
  /\ Hangs(g.t, {}, IF l = 0 THEN {} ELSE {p[l - 1].n})
  /\ l > 0 => p[l - 1].n \notin InUse(g.t)
  /\ \A j \in l..Top(t) : /\ p[j].n \in InUse(g.t)
                          /\ g.t.node[p[j].n] = t.node[p[j].n]
  /\ g.m \in Memories(g.t)

(* The stages a deletion may have come to before level l.                  *)
Downto(t, p, l) ==
  {g \in Stages : IF g.more THEN l <= Top(t) => Falling(t, p, l, g) ELSE Grown(g)}

(* A node that is not the root is freed.                                   *)
LEMMA ShapelyLess ==
  ASSUME NEW t, Shapely(t), NEW n \in InUse(t), n # 1, NEW u, Freed(t, n, u)
  PROVE  Shapely(u) /\ Top(u) = Top(t)
<1>1. /\ t \in Tree /\ 1 \in InUse(t) /\ \A x \in t.free : t.node[x] = Blank
      /\ \A x \in InUse(t) : NodeShape(t, x)
  BY DEF Shapely
<1>2. /\ u \in Tree /\ u.free = t.free \union {n}
      /\ InUse(u) = InUse(t) \ {n} /\ u.node[n] = Blank
      /\ \A x \in Node \ {n} : /\ u.node[x] = t.node[x]
                               /\ LevelOf(u, x) = LevelOf(t, x)
                               /\ Keys(u, x) = Keys(t, x)
  BY DEF Freed
<1>3. t.free \in SUBSET Node /\ InUse(t) \subseteq Node
  BY <1>1 DEF Tree, InUse
<1>4. Top(u) = Top(t)
  <2>1. 1 \in Node \ {n}
    BY <1>1, <1>3
  <2>2. QED
    BY <1>2, <2>1 DEF Top
<1>5. \A x \in u.free : u.node[x] = Blank
  BY <1>1, <1>2, <1>3
<1>6. \A x \in InUse(u) : NodeShape(u, x)
  BY <1>1, <1>2, <1>3, <1>4 DEF NodeShape
<1>7. QED
  BY <1>1, <1>2, <1>4, <1>5, <1>6 DEF Shapely

(* The memory without the node that was freed.                             *)
LEMMA KeptFacts ==
  ASSUME NEW t, NEW m \in Memories(t), NEW u, NEW n, u.free = t.free \union {n}
  PROVE  Kept(u, m) \in Memories(u)
<1>1. DOMAIN m \subseteq InUse(t) /\ \A x \in DOMAIN m : m[x] \in Marks
  BY MemoryFacts
<1> DEFINE r == Kept(u, m)
<1>2. r = [x \in DOMAIN m \ u.free |-> m[x]]
  BY DEF Kept
<1> HIDE DEF r
<1>3. DOMAIN r = DOMAIN m \ u.free /\ r = [x \in DOMAIN r |-> r[x]]
  BY <1>2
<1>4. DOMAIN r \subseteq InUse(u)
  BY <1>1, <1>3 DEF InUse
<1>5. \A x \in DOMAIN r : r[x] \in Marks
  BY <1>1, <1>2, <1>3
<1>6. r \in Memories(u)
  BY <1>3, <1>4, <1>5, MemoryFacts
<1>7. QED
  BY <1>6 DEF r

(* The root takes over what is in its one child.                           *)
LEMMA FoldFacts ==
  ASSUME NEW t, Shapely(t), NEW G, Hangs(t, {}, G), G \intersect InUse(t) = {},
         G \subseteq Kids(t, 1),
         NEW s, NEW c, c = s[1].to, c \in InUse(t), c # 1, c \in Kids(t, 1),
         Kids(t, 1) \subseteq G \union {c}, LevelOf(t, c) + 1 = Top(t)
  PROVE  /\ Sound(Collapsed(t, s)) /\ Collapsed(t, s) \in Tree
         /\ Collapsed(t, s).isdups = t.isdups
         /\ InUse(Collapsed(t, s)) = InUse(t) \ {c}
         /\ Collapsed(t, s).node[1] = t.node[c]
         /\ \A x \in Node \ {1, c} : Collapsed(t, s).node[x] = t.node[x]
<1> DEFINE v == Store(t, 1, LevelOf(t, c), Keys(t, c))
           u == ivbnodefree(v, c)
<1>1. Collapsed(t, s) = u
  BY DEF Collapsed, LevelOf
<1>2. /\ t \in Tree /\ 1 \in InUse(t) /\ InUse(t) \subseteq Node /\ 1 \in Node
      /\ c \in Node /\ \A x \in t.free : t.node[x] = Blank
      /\ \A x \in InUse(t) : NodeShape(t, x)
  BY DEF Shapely, InUse
<1>3. /\ LevelOf(t, c) \in Level /\ Keys(t, c) \in Seq(Entries)
      /\ LevelOf(t, c) \in Nat /\ Len(Keys(t, c)) \in Nat
      /\ t.node[c] = [level |-> LevelOf(t, c), keys |-> Keys(t, c)]
  <2>1. t.node[c] \in [level : Level, keys : Seq(Entries)]
    BY <1>2 DEF Tree
  <2>2. QED
    BY <1>2, <2>1, NodeFacts DEF LevelOf, Keys
<1>4. Written(t, 1, LevelOf(t, c), Keys(t, c), v)
  BY <1>2, <1>3, StoreFacts
<1> HIDE DEF v
<1>5. v \in Tree
  BY <1>4 DEF Written
<1>6. Freed(v, c, u)
  BY <1>2, <1>5, FreeFacts
<1> HIDE DEF u
<1>7. /\ u \in Tree /\ u.isdups = t.isdups /\ u.free = t.free \union {c}
      /\ InUse(u) = InUse(t) \ {c} /\ u.node[1] = t.node[c] /\ u.node[c] = Blank
      /\ LevelOf(u, 1) = LevelOf(t, c) /\ Keys(u, 1) = Keys(t, c)
      /\ \A x \in Node \ {1, c} : u.node[x] = t.node[x]
  <2>1. /\ v.free = t.free \ {1} /\ v.isdups = t.isdups
        /\ InUse(v) = InUse(t) \union {1}
        /\ v.node[1] = t.node[c]
        /\ LevelOf(v, 1) = LevelOf(t, c) /\ Keys(v, 1) = Keys(t, c)
        /\ \A x \in Node \ {1} : v.node[x] = t.node[x]
    BY <1>3, <1>4 DEF Written
  <2>2. /\ u \in Tree /\ u.free = v.free \union {c} /\ u.isdups = v.isdups
        /\ InUse(u) = InUse(v) \ {c} /\ u.node[c] = Blank
        /\ \A x \in Node \ {c} : /\ u.node[x] = v.node[x]
                                 /\ LevelOf(u, x) = LevelOf(v, x)
                                 /\ Keys(u, x) = Keys(v, x)
    BY <1>6 DEF Freed
  <2>3. 1 \notin t.free /\ 1 \in Node \ {c}
    BY <1>2 DEF InUse
  <2>4. u.free = t.free \union {c} /\ InUse(u) = InUse(t) \ {c}
    BY <1>2, <2>1, <2>2, <2>3
  <2>5. QED
    BY <2>1, <2>2, <2>3, <2>4
<1>8. PICK up : Hung(t, up, {}, G)
  BY DEF Hangs
<1>9. Hangs(u, {}, {})
  BY <1>2, <1>7, <1>8, HungFold
<1>10. Top(u) = LevelOf(t, c) /\ Top(t) = LevelOf(t, 1) /\ Top(t) \in Nat
  <2>1. Top(t) = LevelOf(t, 1)
    BY DEF Top, LevelOf
  <2>2. QED
    BY <1>2, <1>7, <2>1, NodeFacts DEF Top, LevelOf
<1>11. ASSUME NEW x \in InUse(u) PROVE NodeShape(u, x)
  <2>1. CASE x = 1
    <3>1. Len(Keys(t, c)) >= 1 /\ Len(Keys(t, c)) <= Cap
      BY <1>2 DEF NodeShape
    <3>2. QED
      BY <1>3, <1>7, <1>10, <2>1, <3>1 DEF NodeShape
  <2>2. CASE x # 1
    <3>1. x \in InUse(t) /\ x # c /\ x \in Node /\ u.node[x] = t.node[x]
      BY <1>2, <1>7, <2>2
    <3>2. LevelOf(u, x) = LevelOf(t, x) /\ Keys(u, x) = Keys(t, x)
      BY <3>1 DEF LevelOf, Keys
    <3>3. NodeShape(t, x) /\ LevelOf(t, x) \in Nat
      BY <1>2, <3>1, NodeFacts
    <3>4. up[x] \in InUse(t) /\ x \in Kids(t, up[x])
      BY <1>8, <2>2, <3>1 DEF Hung
    <3>5. x \notin Kids(t, 1)
      BY <3>1
    <3>6. x \notin G
      BY <3>1
    <3>7. LevelOf(t, x) + 1 = LevelOf(t, up[x])
      BY <1>8, <3>4, <3>6 DEF Hung
    <3>8. up[x] # 1
      BY <3>4, <3>5
    <3>9. LevelOf(t, up[x]) < Top(t) /\ LevelOf(t, up[x]) \in Nat
      BY <1>2, <3>4, <3>8, NodeFacts DEF NodeShape
    <3>10. LevelOf(t, x) < LevelOf(t, c)
      BY <1>3, <1>10, <3>3, <3>7, <3>9
    <3>11. QED
      BY <1>3, <1>10, <2>2, <3>2, <3>3, <3>10 DEF NodeShape
  <2>3. QED
    BY <2>1, <2>2
<1>12. \A x \in u.free : u.node[x] = Blank
  <2>1. t.free \subseteq Node /\ 1 \notin t.free
    BY <1>2 DEF Tree, InUse
  <2>2. QED
    BY <1>2, <1>7, <2>1
<1>13. Shapely(u)
  BY <1>2, <1>7, <1>11, <1>12 DEF Shapely
<1>14. QED
  BY <1>1, <1>7, <1>9, <1>13 DEF Sound

(* The entries s of a node at level l without the entry i.                 *)
Shorter(l, s, i) == IF l = 0 THEN RemoveAt(s, i) ELSE WithoutChild(s, i)

(* What removed does with an entry of the node n: the node goes with its   *)
(* only entry, ...                                                         *)
Empties(g, n, l, s, r) ==
  /\ Len(s) = 1 /\ (n # 1 \/ l > 0)
  /\ Freed(g.t, n, r.t) /\ r.m = Kept(r.t, g.m) /\ r.more = TRUE

(* ... or the root takes over its one other child, ...                     *)
TakesOver(g, l, s, i, r) ==
  LET c == WithoutChild(s, i)[1].to IN
  /\ l > 0 /\ c \in InUse(g.t) /\ c # 1 /\ Sound(r.t)
  /\ InUse(r.t) = InUse(g.t) \ {c} /\ r.t.isdups = g.t.isdups
  /\ r.t.node[1] = g.t.node[c]
  /\ \A x \in Node \ {1, c} : r.t.node[x] = g.t.node[x]
  /\ r.m = [x \in {1} |-> RootMarks] /\ r.more = FALSE

(* ... or the others stay.                                                 *)
Shortens(g, n, l, s, i, r) ==
  /\ l > 0 => Len(s) >= 2
  /\ Written(g.t, n, l, Shorter(l, s, i), r.t) /\ r.m = g.m /\ r.more = FALSE

(* One of the three.                                                       *)
Removes(g, n, l, s, i, r) ==
  \/ Empties(g, n, l, s, r)
  \/ n = 1 /\ TakesOver(g, l, s, i, r)
  \/ Shortens(g, n, l, s, i, r)

(* A deletion is taken one level up: the node has entries left, or it is   *)
(* freed and the entry for it goes next, or the root is left with one child*)
(* and takes over what is in that.                                         *)
LEMMA RemoveStage ==
  ASSUME NEW t, Sound(t), NEW p, PathOf(t, p), p[0].i <= Len(Keys(t, p[0].n)),
         NEW l \in 0..Top(t), NEW g \in Downto(t, p, l), g.more
  PROVE  /\ removed(g, p, l) \in Downto(t, p, l + 1)
         /\ Removes(g, p[l].n, l, Keys(t, p[l].n), p[l].i, removed(g, p, l))
<1> DEFINE n == p[l].n
           i == p[l].i
           s == Keys(g.t, n)
           q == IF l = 0 THEN RemoveAt(s, i) ELSE WithoutChild(s, i)
           emptied == ivbnodefree(g.t, n)
           gone == IF l = 0 THEN {} ELSE {p[l - 1].n}
           r == removed(g, p, l)
<1>1. /\ t \in Tree /\ Top(t) \in Nat /\ l \in Nat /\ l <= Top(t) /\ l \in l..Top(t)
      /\ l + 1 > 0
  <2>1. t \in Tree /\ Top(t) \in Nat
    BY TopFacts
  <2>2. QED
    BY <2>1
<1>2. Falling(t, p, l, g) /\ g.t \in Tree /\ g.e \in Entries /\ g.m \in Anywhere
  BY <1>1 DEF Downto, Stages
<1>3. /\ Shapely(g.t) /\ Top(g.t) = Top(t)
      /\ Hangs(g.t, {}, gone) /\ (l > 0 => p[l - 1].n \notin InUse(g.t))
      /\ \A j \in l..Top(t) : /\ p[j].n \in InUse(g.t)
                              /\ g.t.node[p[j].n] = t.node[p[j].n]
      /\ g.m \in Memories(g.t)
  BY <1>2 DEF Falling
<1>4. /\ n \in InUse(t) /\ LevelOf(t, n) = l
      /\ i \in 1..(Len(Keys(t, n)) + 1) /\ i <= Len(Keys(t, n))
      /\ l > 0 => Keys(t, n)[i].to = p[l - 1].n
  <2>1. l > 0 => l \in 1..Top(t)
    BY <1>1
  <2>2. /\ n \in InUse(t) /\ LevelOf(t, n) = l
        /\ i \in 1..(Len(Keys(t, n)) + 1)
    BY DEF PathOf
  <2>3. l > 0 => i <= Len(Keys(t, n)) /\ Keys(t, n)[i].to = p[l - 1].n
    BY <2>1 DEF PathOf
  <2>4. l = 0 => i <= Len(Keys(t, n))
    OBVIOUS
  <2>5. QED
    BY <1>1, <2>2, <2>3, <2>4
<1>5. /\ n \in InUse(g.t) /\ n \in Node /\ LevelOf(g.t, n) = l
      /\ s = Keys(t, n) /\ Len(s) \in 0..Cap /\ s \in Seq(Entries)
      /\ Len(s) \in Nat /\ i \in 1..Len(s) /\ Len(s) >= 1
      /\ l > 0 => s[i].to = p[l - 1].n
  <2>1. n \in InUse(g.t) /\ g.t.node[n] = t.node[n]
    BY <1>1, <1>3
  <2>2. /\ n \in Node /\ Len(Keys(t, n)) \in 0..Cap
        /\ Keys(t, n) \in Seq(Entries)
    BY <1>4, UsedFacts
  <2>3. s = Keys(t, n) /\ LevelOf(g.t, n) = LevelOf(t, n)
    BY <2>1 DEF LevelOf, Keys
  <2>4. i \in 1..Len(s) /\ Len(s) >= 1 /\ Len(s) \in Nat
    BY <1>4, <2>2, <2>3, TreeAssumption
  <2>5. QED
    BY <1>4, <2>1, <2>2, <2>3, <2>4
<1>6. (n = 1 => l = Top(t)) /\ (n # 1 => l < Top(t))
  <2>1. n = 1 => LevelOf(t, n) = Top(t)
    BY DEF LevelOf, Top
  <2>2. n # 1 => LevelOf(t, n) < Top(t)
    BY <1>4, UsedFacts
  <2>3. QED
    BY <1>4, <2>1, <2>2
<1>7. PICK up : Hung(g.t, up, {}, gone)
  BY <1>3 DEF Hangs
<1>8. Distinct(l, s) /\ Kids(g.t, n) = KidsOf(l, s)
  BY <1>5, <1>7 DEF Hung, Kids
<1>9. /\ gone \subseteq Kids(g.t, n) /\ gone \intersect InUse(g.t) = {}
      /\ l > 0 => gone = {s[i].to} /\ p[l - 1].n = s[i].to
      /\ l = 0 => gone = {}
  <2>1. CASE l = 0
    BY <2>1
  <2>2. CASE l # 0
    <3>1. l > 0 /\ i \in DOMAIN s
      BY <1>1, <1>5, <2>2
    <3>2. gone = {s[i].to} /\ p[l - 1].n = s[i].to
      BY <1>5, <3>1, <2>2
    <3>3. s[i].to \in KidsOf(l, s)
      BY <3>1 DEF KidsOf
    <3> HIDE DEF gone, s
    <3>4. QED
      BY <1>3, <1>8, <2>2, <3>1, <3>2, <3>3
  <2>3. QED
    BY <2>1, <2>2
<1>10. r = CASE Len(s) = 1 /\ (n # 1 \/ l > 0) ->
                  Moved(emptied, Kept(emptied, g.m), TRUE, g.e)
             [] Len(s) = 2 /\ n = 1 /\ l > 0 ->
                  Moved(Collapsed(g.t, q), [x \in {1} |-> RootMarks], FALSE, g.e)
             [] OTHER -> Moved(Store(g.t, n, l, q), g.m, FALSE, g.e)
  BY DEF removed
<1> HIDE DEF n, i, s, q, emptied, gone, r
<1>11. CASE Len(s) = 1 /\ (n # 1 \/ l > 0)
  <2>1. r = Moved(emptied, Kept(emptied, g.m), TRUE, g.e)
    <3>1. ~(Len(s) = 2 /\ n = 1 /\ l > 0)
      BY <1>11
    <3>2. QED
      BY <1>10, <1>11, <3>1, Zenon
  <2>2. Freed(g.t, n, emptied)
    BY <1>2, <1>5, FreeFacts DEF emptied
  <2>3. /\ emptied \in Tree /\ emptied.free = g.t.free \union {n}
        /\ InUse(emptied) = InUse(g.t) \ {n}
        /\ \A x \in Node \ {n} : emptied.node[x] = g.t.node[x]
    BY <2>2 DEF Freed
  <2> DEFINE m == Kept(emptied, g.m)
  <2>4. m \in Memories(emptied)
    BY <1>3, <2>3, KeptFacts
  <2>5. m \in Anywhere
    BY <2>3, <2>4, AnywhereFacts
  <2>6. r = [t |-> emptied, m |-> m, more |-> TRUE, e |-> g.e]
    BY <2>1 DEF Moved
  <2> HIDE DEF m
  <2>7. r.more = TRUE /\ r.t = emptied /\ r.m = m
    BY <2>6
  <2>8. r \in Stages
    BY <1>2, <2>3, <2>5, <2>6 DEF Stages
  <2>9. ASSUME l + 1 <= Top(t) PROVE Falling(t, p, l + 1, r)
    <3>1. n # 1
      BY <1>1, <1>6, <2>9
    <3>2. Shapely(emptied) /\ Top(emptied) = Top(t)
      <4>1. Shapely(emptied) /\ Top(emptied) = Top(g.t)
        BY <1>3, <1>5, <2>2, <3>1, ShapelyLess
      <4>2. QED
        BY <1>3, <4>1
    <3>3. gone = Kids(g.t, n)
      <4>1. CASE l = 0
        BY <1>8, <1>9, <4>1 DEF KidsOf
      <4>2. CASE l # 0
        <5>1. l > 0 /\ DOMAIN s = {1} /\ i = 1
          <6>1. DOMAIN s = 1..1
            BY <1>5, <1>11
          <6>2. QED
            BY <1>1, <1>5, <1>11, <4>2, <6>1
        <5>2. KidsOf(l, s) = {s[1].to}
          BY <5>1 DEF KidsOf
        <5>3. QED
          BY <1>8, <1>9, <5>1, <5>2
      <4>3. QED
        BY <4>1, <4>2
    <3>4. Hung(emptied, up, {}, {n})
      BY <1>2, <1>5, <1>7, <1>9, <2>3, <3>3, HungGone
    <3>5. Hangs(emptied, {}, {n})
      BY <3>4 DEF Hangs
    <3>6. (l + 1) - 1 = l /\ l + 1 # 0
      BY <1>1
    <3>7. n = p[(l + 1) - 1].n
      BY <3>6 DEF n
    <3>8. Hangs(emptied, {}, IF l + 1 = 0 THEN {} ELSE {p[(l + 1) - 1].n})
      BY <3>5, <3>6, <3>7
    <3>9. p[(l + 1) - 1].n \notin InUse(emptied)
      BY <2>3, <3>7
    <3>10. ASSUME NEW j \in (l + 1)..Top(t)
           PROVE  /\ p[j].n \in InUse(emptied)
                  /\ emptied.node[p[j].n] = t.node[p[j].n]
      <4>1. j \in l..Top(t) /\ j \in 0..Top(t) /\ j # l
        BY <1>1
      <4>2. p[j].n \in InUse(g.t) /\ g.t.node[p[j].n] = t.node[p[j].n]
        BY <1>3, <4>1
      <4>3. LevelOf(t, p[j].n) = j
        BY <4>1 DEF PathOf
      <4>4. p[j].n # n /\ p[j].n \in Node
        BY <1>4, <4>1, <4>2, <4>3 DEF InUse
      <4>5. QED
        BY <2>3, <4>2, <4>4
    <3>11. QED
      BY <2>4, <2>7, <3>2, <3>8, <3>9, <3>10 DEF Falling
  <2>10. Empties(g, n, l, s, r)
    BY <1>11, <2>2, <2>7 DEF Empties, m
  <2>11. QED
    BY <1>5, <2>7, <2>8, <2>9, <2>10 DEF Downto, Removes, r, n, i
<1>12. CASE Len(s) = 2 /\ n = 1 /\ l > 0
  <2> DEFINE u == Collapsed(g.t, q)
             m == [x \in {1} |-> RootMarks]
             c == q[1].to
  <2>1. r = Moved(u, m, FALSE, g.e)
    <3>1. ~(Len(s) = 1 /\ (n # 1 \/ l > 0))
      BY <1>12
    <3>2. QED
      BY <1>10, <1>12, <3>1, Zenon
  <2>2. q = WithoutChild(s, i)
    BY <1>12 DEF q
  <2>3. q \in Seq(Entries) /\ Len(q) = 1
    <3>1. Len(s) >= 2
      BY <1>12
    <3>2. /\ WithoutChild(s, i) \in Seq(Entries)
          /\ Len(WithoutChild(s, i)) = Len(s) - 1
      BY <1>5, <3>1, WithoutFacts
    <3>3. QED
      BY <1>12, <2>2, <3>2
  <2>4. /\ Distinct(l, q) /\ KidsOf(l, q) = KidsOf(l, s) \ {s[i].to}
    <3>1. Len(s) >= 2
      BY <1>12
    <3>2. /\ Distinct(l, WithoutChild(s, i))
          /\ KidsOf(l, WithoutChild(s, i)) = KidsOf(l, s) \ {s[i].to}
      <4> HIDE DEF s, i, q
      <4>1. QED
        BY <1>1, <1>5, <1>8, <1>12, <3>1, WithoutKids, ZenonT(40)
    <3>3. QED
      BY <2>2, <3>2
  <2>5. KidsOf(l, q) = {c}
    <3>1. DOMAIN q = {1}
      <4>1. DOMAIN q = 1..1
        BY <2>3
      <4>2. QED
        BY <4>1
    <3>2. KidsOf(l, q) = {q[j].to : j \in {1}}
      BY <1>12, <3>1 DEF KidsOf
    <3>3. QED
      BY <3>2
  <2> HIDE DEF c
  <2>6. c \in Kids(g.t, 1) /\ c \notin gone
        /\ Kids(g.t, 1) \subseteq gone \union {c}
    BY <1>8, <1>9, <1>12, <2>4, <2>5
  <2>7. c \in InUse(g.t) /\ c # 1 /\ LevelOf(g.t, c) + 1 = Top(g.t)
    <3>1. /\ c \in InUse(g.t) /\ c # 1
          /\ LevelOf(g.t, c) + 1 = LevelOf(g.t, n)
      BY <1>5, <1>7, <1>12, <2>6 DEF Hung
    <3>2. LevelOf(g.t, n) = Top(g.t)
      BY <1>12 DEF LevelOf, Top
    <3>3. QED
      BY <3>1, <3>2
  <2>8. gone \subseteq Kids(g.t, 1)
    BY <1>9, <1>12
  <2>9. c = q[1].to
    BY DEF c
  <2>10. /\ Sound(u) /\ u \in Tree /\ u.isdups = g.t.isdups
         /\ InUse(u) = InUse(g.t) \ {c} /\ u.node[1] = g.t.node[c]
         /\ \A x \in Node \ {1, c} : u.node[x] = g.t.node[x]
    BY <1>3, <1>9, <2>6, <2>7, <2>8, <2>9, FoldFacts
  <2> HIDE DEF u
  <2>11. m \in Memories(u)
    <3>1. 1 \in InUse(u)
      BY <2>10 DEF Sound, Shapely
    <3>2. m \in [{1} -> Marks] /\ {1} \in SUBSET InUse(u)
      BY <3>1 DEF RootMarks, Marks
    <3>3. QED
      BY <3>2 DEF Memories
  <2>12. m \in Anywhere
    BY <2>10, <2>11, AnywhereFacts
  <2>13. r = [t |-> u, m |-> m, more |-> FALSE, e |-> g.e]
    BY <2>1 DEF Moved
  <2> HIDE DEF m
  <2>14. r.more = FALSE /\ r.t = u /\ r.m = m
    BY <2>13
  <2>15. r \in Stages
    BY <1>2, <2>10, <2>12, <2>13 DEF Stages
  <2>16. TakesOver(g, l, s, i, r)
    BY <1>12, <2>2, <2>7, <2>9, <2>10, <2>14 DEF TakesOver, m
  <2>17. QED
    BY <1>5, <1>12, <2>10, <2>11, <2>14, <2>15, <2>16
    DEF Downto, Grown, Removes, r, n, i
<1>13. CASE /\ ~(Len(s) = 1 /\ (n # 1 \/ l > 0))
            /\ ~(Len(s) = 2 /\ n = 1 /\ l > 0)
  <2> DEFINE u == Store(g.t, n, l, q)
  <2>0. l # 0 => l > 0 /\ Len(s) >= 2
    <3>1. l # 0 => l > 0
      BY <1>1
    <3>2. l > 0 => Len(s) # 1
      BY <1>13
    <3>3. Len(s) # 1 => Len(s) >= 2
      <4>1. PICK x \in Nat : x = Len(s) /\ x >= 1
        BY <1>5
      <4>2. x # 1 => x >= 2
        BY <4>1
      <4>3. QED
        BY <4>1, <4>2, Zenon
    <3>4. QED
      BY <3>1, <3>2, <3>3, Zenon
  <2>1. r = Moved(u, g.m, FALSE, g.e)
    BY <1>10, <1>13, Zenon
  <2>2. /\ q \in Seq(Entries) /\ Len(q) = Len(s) - 1
    <3>1. CASE l = 0
      BY <1>5, <3>1, RemoveAtFacts DEF q
    <3>2. CASE l # 0
      <4>1. Len(s) >= 2
        BY <2>0, <3>2
      <4>2. /\ WithoutChild(s, i) \in Seq(Entries)
            /\ Len(WithoutChild(s, i)) = Len(s) - 1
        BY <1>5, <4>1, WithoutFacts
      <4>3. QED
        BY <3>2, <4>2 DEF q
    <3>3. QED
      BY <3>1, <3>2
  <2>3. /\ Len(q) \in 0..Cap
        /\ n # 1 \/ LevelOf(g.t, n) > 0 => Len(q) >= 1
    BY <1>5, <1>13, <2>2, TreeAssumption
  <2>4. Written(g.t, n, l, q, u)
    <3>1. l \in Level
      BY <1>2, <1>5, NodeFacts
    <3>2. QED
      BY <1>2, <1>5, <2>2, <3>1, StoreFacts
  <2> HIDE DEF u
  <2>5. /\ u \in Tree /\ InUse(u) = InUse(g.t) /\ LevelOf(u, n) = l
        /\ Keys(u, n) = q
        /\ \A x \in Node \ {n} : u.node[x] = g.t.node[x]
    BY <1>5, <2>4 DEF Written
  <2>6. Hangs(u, {}, {})
    <3>1. CASE l = 0
      <4>1. Hung(g.t, up, {}, {}) /\ Distinct(LevelOf(u, n), Keys(u, n))
        BY <1>7, <1>9, <2>5, <3>1 DEF Distinct
      <4>2. Kids(u, n) = Kids(g.t, n)
        BY <1>5, <2>5, <3>1 DEF Kids, KidsOf
      <4>3. Hung(u, up, {}, {})
        BY <1>2, <1>5, <2>5, <4>1, <4>2, HungSame
      <4>4. QED
        BY <4>3 DEF Hangs
    <3>2. CASE l # 0
      <4> DEFINE c == s[i].to
      <4>1. Len(s) >= 2 /\ l > 0
        BY <2>0, <3>2
      <4>2. Distinct(l, q) /\ KidsOf(l, q) = KidsOf(l, s) \ {c}
        <5>1. q = WithoutChild(s, i)
          BY <3>2 DEF q
        <5>2. QED
          BY <1>1, <1>5, <1>8, <4>1, <5>1, WithoutKids
      <4>3. gone = {c}
        BY <1>9, <4>1
      <4> HIDE DEF c
      <4>4. Hung(g.t, up, {}, {c}) /\ c \notin InUse(g.t) /\ c \in Kids(g.t, n)
        BY <1>7, <1>9, <4>3
      <4>5. /\ Distinct(LevelOf(u, n), Keys(u, n))
            /\ Kids(u, n) = Kids(g.t, n) \ {c}
        BY <1>8, <2>5, <4>2 DEF Kids
      <4>6. LevelOf(u, n) = LevelOf(g.t, n)
        BY <1>5, <2>5
      <4>7. Hung(u, up, {}, {})
        BY <1>2, <1>5, <2>5, <4>4, <4>5, <4>6, HungLess
      <4>8. QED
        BY <4>7 DEF Hangs
    <3>3. QED
      BY <3>1, <3>2
  <2>7. u = Store(g.t, n, LevelOf(g.t, n), q)
    BY <1>5 DEF u
  <2>8. Sound(u)
    BY <1>3, <1>5, <2>2, <2>3, <2>6, <2>7, SaveFits
  <2>9. g.m \in Memories(u)
    BY <1>3, <2>5 DEF Memories
  <2>10. r = [t |-> u, m |-> g.m, more |-> FALSE, e |-> g.e]
    BY <2>1 DEF Moved
  <2>11. r.more = FALSE /\ r.t = u /\ r.m = g.m
    BY <2>10
  <2>12. r \in Stages
    BY <1>2, <2>5, <2>10 DEF Stages
  <2>13. Shortens(g, n, l, s, i, r)
    <3>1. q = Shorter(l, s, i)
      BY DEF q, Shorter
    <3>2. QED
      BY <1>1, <2>0, <2>4, <2>11, <3>1 DEF Shortens
  <2>14. QED
    BY <1>5, <2>8, <2>9, <2>11, <2>12, <2>13 DEF Downto, Grown, Removes, r, n, i
<1>14. QED
  BY <1>11, <1>12, <1>13

(* The levels of a deletion one by one.                                    *)
Falls(t, m, p, u) ==
  /\ u[-1] = Moved(t, m, TRUE, High(0))
  /\ \A l \in 0..Top(t) : u[l] = IF u[l - 1].more
                                 THEN removed(u[l - 1], p, l) ELSE u[l - 1]
  /\ \A l \in 0..(Top(t) + 1) : u[l - 1] \in Downto(t, p, l)

(* ivbkeydelete has values, and they are those of its levels.              *)
LEMMA DeleteStages ==
  ASSUME NEW t, Sound(t), NEW p, PathOf(t, p), NEW m \in Memories(t),
         p[0].i <= Len(Keys(t, p[0].n))
  PROVE  \E u : Falls(t, m, p, u) /\ ivbkeydelete(t, m, p) = u[Top(t)]
<1> DEFINE T == Top(t)
           N == T + 1
           D == -1..T
           a == Moved(t, m, TRUE, High(0))
           next(v, l) == IF v.more THEN removed(v, p, l) ELSE v
           Body(g) == [l \in D |-> IF l = -1 THEN a ELSE next(g[l - 1], l)]
           upto == CHOOSE g : g = Body(g)
           G == [k \in 0..N |-> Downto(t, p, k)]
           F == [k \in 1..N |-> [v \in Downto(t, p, k - 1) |-> next(v, k - 1)]]
<1>1. ivbkeydelete(t, m, p) = upto[T]
  BY DEF ivbkeydelete
<1>2. T \in Nat /\ N \in Nat /\ t \in Tree
  BY TopFacts
<1>3. a \in Downto(t, p, 0)
  <2>1. a = [t |-> t, m |-> m, more |-> TRUE, e |-> High(0)]
    BY DEF Moved
  <2>2. m \in Anywhere
    BY <1>2, AnywhereFacts
  <2>3. 0 \in 0..MaxNode
    BY TreeAssumption
  <2>4. High(0) \in Entries
    BY <2>3, HighFacts
  <2> HIDE DEF a
  <2>5. a.more = TRUE /\ a.t = t /\ a.m = m
    BY <2>1
  <2>6. a \in Stages
    BY <1>2, <2>1, <2>2, <2>4 DEF Stages
  <2>7. \A j \in 0..Top(t) : p[j].n \in InUse(t)
    BY DEF PathOf
  <2>8. Shapely(t) /\ Hangs(t, {}, {})
    BY DEF Sound
  <2>9. Falling(t, p, 0, a)
    BY <2>5, <2>7, <2>8 DEF Falling
  <2>10. QED
    BY <2>5, <2>6, <2>9 DEF Downto
<1>4. ASSUME NEW l \in 0..T, NEW v \in Downto(t, p, l)
      PROVE  next(v, l) \in Downto(t, p, l + 1)
  <2>1. CASE v.more
    BY <2>1, RemoveStage
  <2>2. CASE ~v.more
    BY <2>2 DEF Downto
  <2>3. QED
    BY <2>1, <2>2
<1>5. ASSUME NEW k \in 1..N
      PROVE  /\ k - 1 \in 0..T /\ k - 1 \in 0..N /\ (k - 1) + 1 = k
             /\ k \in 0..N
  BY <1>2
<1> HIDE DEF a, next
<1>6. PICK g : Staged(g, N, G, a, F)
  <2>1. a \in G[0]
    BY <1>2, <1>3
  <2>2. \A k \in 1..N : \A v \in G[k - 1] : F[k][v] \in G[k]
    <3>1. ASSUME NEW k \in 1..N, NEW v \in G[k - 1] PROVE F[k][v] \in G[k]
      <4>1. v \in Downto(t, p, k - 1)
        BY <1>5
      <4>2. F[k][v] = next(v, k - 1)
        BY <4>1
      <4>3. next(v, k - 1) \in Downto(t, p, k)
        BY <1>4, <1>5, <4>1
      <4>4. QED
        BY <1>5, <4>2, <4>3
    <3> HIDE DEF F, G
    <3>2. QED
      BY <3>1
  <2> HIDE DEF F, G, N
  <2>3. QED
    BY <1>2, <2>1, <2>2, StagesExist
<1>7. /\ g[0] = a
      /\ \A k \in 1..N : g[k] = F[k][g[k - 1]]
      /\ \A k \in 0..N : g[k] \in Downto(t, p, k)
  BY <1>6 DEF Staged
<1> DEFINE w == [l \in D |-> g[l + 1]]
<1>8. w = Body(w)
  <2>1. ASSUME NEW l \in D PROVE w[l] = Body(w)[l]
    <3>1. CASE l = -1
      BY <1>7, <3>1
    <3>2. CASE l # -1
      <4>1. l + 1 \in 1..N /\ l - 1 \in D /\ (l + 1) - 1 = l /\ (l - 1) + 1 = l
            /\ l \in 0..N
        BY <1>2, <3>2
      <4>2. g[l + 1] = F[l + 1][g[l]] /\ g[l] \in Downto(t, p, l)
        BY <1>7, <4>1
      <4>3. g[l + 1] = next(g[l], l)
        BY <4>1, <4>2
      <4>4. w[l - 1] = g[l]
        BY <4>1
      <4>5. QED
        BY <3>2, <4>3, <4>4
    <3>3. QED
      BY <3>1, <3>2
  <2>2. QED
    BY <2>1
<1>9. upto = Body(upto)
  BY <1>8
<1> HIDE DEF upto
<1>10. upto[-1] = a /\ \A l \in 0..T : upto[l] = next(upto[l - 1], l)
  <2>1. -1 \in D /\ \A l \in 0..T : l \in D /\ l # -1
    BY <1>2
  <2>2. QED
    BY <1>9, <2>1
<1>11. \A k \in 0..N : upto[k - 1] \in Downto(t, p, k)
  <2> DEFINE S == {k \in 0..N : upto[k - 1] \notin Downto(t, p, k)}
  <2>1. S = {}
    <3> SUFFICES ASSUME S # {} PROVE FALSE
      OBVIOUS
    <3>1. S \in SUBSET Nat
      BY <1>2
    <3>2. PICK k \in S : \A y \in S : k <= y
      <4> HIDE DEF S
      <4>1. QED
        BY <3>1, LeastNumber
    <3>3. k # 0
      BY <1>3, <1>10, <3>2
    <3>4. /\ k - 1 \in 0..N /\ ~(k <= k - 1) /\ k - 1 \in 0..T
          /\ (k - 1) + 1 = k
      BY <1>2, <3>2, <3>3
    <3>5. upto[(k - 1) - 1] \in Downto(t, p, k - 1)
      BY <3>2, <3>4
    <3>6. upto[k - 1] = next(upto[(k - 1) - 1], k - 1)
      BY <1>10, <3>4
    <3>7. upto[k - 1] \in Downto(t, p, k)
      BY <1>4, <3>4, <3>5, <3>6
    <3>8. QED
      BY <3>2, <3>7
  <2>2. QED
    BY <2>1
<1>12. Falls(t, m, p, upto)
  BY <1>10, <1>11 DEF Falls, a, next
<1>13. QED
  BY <1>1, <1>12

(* A deletion that does not run past the root leaves a sound tree and a    *)
(* memory of its nodes.                                                    *)
LEMMA DeleteEnds ==
  ASSUME NEW t, Sound(t), NEW p, PathOf(t, p), NEW m \in Memories(t),
         p[0].i <= Len(Keys(t, p[0].n)), ~ivbkeydelete(t, m, p).more
  PROVE  Grown(ivbkeydelete(t, m, p))
<1>1. PICK u : Falls(t, m, p, u) /\ ivbkeydelete(t, m, p) = u[Top(t)]
  BY DeleteStages
<1>2. Top(t) \in Nat
  BY TopFacts
<1>3. Top(t) + 1 \in 0..(Top(t) + 1) /\ (Top(t) + 1) - 1 = Top(t)
  BY <1>2
<1>4. u[Top(t)] \in Downto(t, p, Top(t) + 1)
  BY <1>1, <1>3 DEF Falls
<1>5. QED
  BY <1>1, <1>4 DEF Downto

-----------------------------------------------------------------------------
(* The invariant.                                                          *)

(* What the index file and the memory are like between the operations.     *)
TreeInv ==
  /\ Sound(tree)
  /\ mem \in Memories(tree)
  /\ crashed \in BOOLEAN

(* The empty tree is a root without entries.                               *)
LEMMA InitInv == Init => TreeInv
<1> SUFFICES ASSUME Init PROVE TreeInv
  OBVIOUS
<1>1. /\ tree.node = [n \in Node |-> Blank] /\ tree.free = Node \ {1}
      /\ tree.isdups \in BOOLEAN
      /\ tree \in [node : {[n \in Node |-> Blank]}, free : {Node \ {1}},
                   isdups : BOOLEAN]
  BY DEF Init
<1>2. Blank \in [level : Level, keys : Seq(Entries)] /\ 1 \in Node /\ 0 \in Level
  BY TreeAssumption DEF Blank, Level, Node
<1>3. [n \in Node |-> Blank] \in [Node -> [level : Level, keys : Seq(Entries)]]
  BY <1>2
<1>4. tree \in Tree
  <2> DEFINE f == [n \in Node |-> Blank]
  <2> HIDE DEF f
  <2>1. /\ tree \in [node : {f}, free : {Node \ {1}}, isdups : BOOLEAN]
        /\ f \in [Node -> [level : Level, keys : Seq(Entries)]]
    BY <1>1, <1>3 DEF f
  <2>2. QED
    BY <2>1 DEF Tree
<1>5. InUse(tree) = {1}
  BY <1>1, <1>2 DEF InUse
<1>6. \A n \in Node : tree.node[n] = Blank
  BY <1>1
<1>7. \A n \in Node : LevelOf(tree, n) = 0 /\ Keys(tree, n) = <<>>
  BY <1>6 DEF LevelOf, Keys, Blank
<1>8. Top(tree) = 0
  BY <1>2, <1>7 DEF Top, LevelOf
<1>9. NodeShape(tree, 1)
  <2>1. Len(<<>>) = 0 /\ 0 <= Cap /\ 0 <= 0
    BY TreeAssumption
  <2>2. LevelOf(tree, 1) = 0 /\ Keys(tree, 1) = <<>>
    BY <1>2, <1>7
  <2>3. QED
    BY <1>8, <2>1, <2>2 DEF NodeShape
<1>10. Shapely(tree)
  BY <1>1, <1>4, <1>5, <1>6, <1>9 DEF Shapely
<1> DEFINE up == [n \in Node |-> 1]
<1>11. Hung(tree, up, {}, {})
  <2>1. LevelOf(tree, 1) = 0
    BY <1>2, <1>7
  <2>2. Distinct(LevelOf(tree, 1), Keys(tree, 1)) /\ Kids(tree, 1) = {}
    BY <2>1 DEF Distinct, Kids, KidsOf
  <2>3. up \in [Node -> Node]
    BY <1>2
  <2> HIDE DEF up
  <2>4. QED
    BY <1>5, <2>2, <2>3 DEF Hung
<1>12. Sound(tree)
  BY <1>10, <1>11 DEF Sound, Hangs
<1>13. mem \in Memories(tree)
  <2>1. mem = [n \in {} |-> RootMarks]
    BY DEF Init
  <2>2. mem \in [{} -> Marks]
    BY <2>1
  <2>3. QED
    BY <2>2 DEF Memories
<1>14. QED
  BY <1>12, <1>13 DEF TreeInv, Init

(* A process that is gone changes nothing.                                 *)
LEMMA CrashStep ==
  ASSUME TreeInv, Crash
  PROVE  TreeInv'
BY DEF TreeInv, Crash

(* A read changes the memory only.                                         *)
LEMMA HoldStep ==
  ASSUME TreeInv, NEW m \in Memories(tree), Hold(m)
  PROVE  TreeInv'
BY DEF TreeInv, Hold

(* A change that is done.                                                  *)
LEMMA ChangedStep ==
  ASSUME TreeInv, NEW g, Grown(g), Changed(g)
  PROVE  TreeInv'
BY DEF TreeInv, Changed, Grown

(* The entry before the first greater key: the number the new entry gets.  *)
LEMMA NumberFacts ==
  ASSUME TreeInv, NEW k \in Key
  PROVE  /\ Before(k) \in Outs(tree)
         /\ NumberOf(tree, Before(k), k) \in Nat
<1> DEFINE a == StepTo(tree, mem, itreeload(tree, k, AnyDup))
           w == Before(k)
           n == w.path[0].n
<1>1. Sound(tree) /\ mem \in Memories(tree)
  BY DEF TreeInv
<1>2. a \in Outs(tree) /\ a.st = "ok"
  BY <1>1, LoadExists, StepToFacts
<1>3. w = ivbkeyloadPrev(tree, a)
  BY DEF Before
<1> HIDE DEF a, w
<1>4. w \in Outs(tree)
  BY <1>1, <1>2, <1>3, PrevFacts
<1>5. w.st = "ok" => w.path[0].i \in 1..Len(Keys(tree, n))
  BY <1>1, <1>2, <1>3, PrevFacts
<1>6. ASSUME w.st = "ok" PROVE At(tree, w.path).d \in Nat
  <2>1. PathOf(tree, w.path)
    BY <1>4, OutsFacts
  <2>2. Leaf(w.path) = w.path[0] /\ Keys(tree, n) \in Seq(Entries)
    BY <1>1, <2>1, LeafFacts
  <2>3. At(tree, w.path) = Keys(tree, n)[w.path[0].i]
    BY <2>2 DEF At
  <2>4. Keys(tree, n)[w.path[0].i] \in Entries
    BY <1>5, <1>6, <2>2, ElementOfSeq
  <2>5. QED
    BY <2>3, <2>4, TreeAssumption DEF Entries, Dup
<1>7. NumberOf(tree, w, k) \in Nat
  BY <1>6 DEF NumberOf
<1>8. QED
  BY <1>4, <1>7 DEF w

(* Insert keeps the invariant.                                             *)
LEMMA InsertStep ==
  ASSUME TreeInv, NEW k \in Key, Insert(k)
  PROVE  TreeInv'
<1> DEFINE w == Before(k)
           d == NumberOf(tree, w, k)
           p == itreeload(tree, k, d)
           v == StepTo(tree, w.mem, p)
           e == Entry(k, d, 0)
<1>1. Sound(tree) /\ mem \in Memories(tree)
  BY DEF TreeInv
<1>2. w \in Outs(tree) /\ d \in Nat
  BY NumberFacts
<1>3. w.mem \in Memories(tree)
  BY <1>2, OutsFacts
<1>4. InsertFrom(k, w)
  BY DEF Insert
<1>5. CASE Inserted(k, w) /\ d > 0 /\ ~tree.isdups
  <2>1. Hold(w.mem)
    BY <1>5 DEF Inserted
  <2>2. QED
    BY <1>3, <2>1, HoldStep
<1>6. CASE Inserted(k, w) /\ ~(d > 0 /\ ~tree.isdups)
  <2>1. /\ d <= MaxDup /\ Cardinality(tree.free) >= Top(tree) + 2
        /\ Changed(InsertedAt(v, e))
    BY <1>6 DEF Inserted
  <2>2. e \in Entries
    <3>1. d \in Dup /\ k \in 1..Highest /\ 0 \in 0..MaxNode
      BY <1>2, <2>1, TreeAssumption DEF Dup, Key, Highest
    <3> HIDE DEF d
    <3>2. QED
      BY <3>1 DEF Entry, Entries
  <2>3. PathOf(tree, p)
    BY <1>1, LoadExists
  <2>4. v \in Outs(tree) /\ v.path = p
    BY <1>1, <1>3, <2>3, StepToFacts
  <2> HIDE DEF v, e
  <2>5. /\ v.mem \in Memories(tree) /\ PathOf(tree, v.path)
        /\ \A l \in 0..Top(tree) : v.path[l].n \in DOMAIN v.mem
    BY <2>4, OutsFacts
  <2>6. Grown(ivbkeyinsert(tree, v.mem, v.path, e))
    BY <1>1, <2>1, <2>2, <2>5, InsertEnds
  <2>7. Changed(ivbkeyinsert(tree, v.mem, v.path, e))
    BY <2>1 DEF InsertedAt
  <2>8. QED
    BY <2>6, <2>7, ChangedStep
<1>7. CASE w.st = "null" /\ Crash
  BY <1>7, CrashStep
<1>8. QED
  BY <1>4, <1>5, <1>6, <1>7 DEF InsertFrom

(* Delete keeps the invariant.                                             *)
LEMMA DeleteStep ==
  ASSUME TreeInv, NEW k, NEW d, Delete(k, d)
  PROVE  TreeInv'
<1> DEFINE w == ivbkeylocaterow(tree, mem, k, d)
           g == ivbkeydelete(tree, w.mem, w.path)
<1>1. Sound(tree) /\ mem \in Memories(tree)
  BY DEF TreeInv
<1>2. w.st = "ok" /\ Deleted(g)
  BY DEF Delete, DeleteAt
<1>3. PICK walk : Walk(tree, mem, k, d, walk)
                  /\ w = OnRow(tree, walk[MaxDup + 1], k, d)
  BY <1>1, LocateFacts
<1>4. walk[MaxDup + 1] \in Outs(tree)
  <2>1. MaxDup + 1 \in 0..(MaxDup + 1)
    BY TreeAssumption
  <2>2. QED
    BY <1>3, <2>1 DEF Walk
<1> DEFINE v == walk[MaxDup + 1]
<1>5. v \in Outs(tree) /\ w = OnRow(tree, v, k, d)
  BY <1>3, <1>4
<1> HIDE DEF v, w
<1>6. /\ w \in Outs(tree)
      /\ w.path[0].i \in 1..Len(Keys(tree, w.path[0].n))
  BY <1>1, <1>2, <1>5, OnRowFacts
<1>7. w.mem \in Memories(tree) /\ PathOf(tree, w.path)
  BY <1>6, OutsFacts
<1>8. w.path[0].i <= Len(Keys(tree, w.path[0].n))
  <2>1. Len(Keys(tree, w.path[0].n)) \in Nat
    BY <1>1, <1>7, LeafFacts
  <2>2. QED
    BY <1>6, <2>1
<1>9. CASE ~g.more /\ Changed(g)
  <2>1. Grown(g)
    BY <1>1, <1>7, <1>8, <1>9, DeleteEnds
  <2>2. QED
    BY <1>9, <2>1, ChangedStep
<1>10. CASE g.more /\ Crash
  BY <1>10, CrashStep
<1>11. QED
  BY <1>2, <1>9, <1>10 DEF Deleted

(* Read and Move have an outcome, or the process is gone.                  *)
LEMMA OutcomeStep ==
  ASSUME TreeInv, NEW w \in Outs(tree), Outcome(w)
  PROVE  TreeInv'
<1>1. w.mem \in Memories(tree)
  BY OutsFacts
<1>2. Crash \/ Hold(w.mem)
  BY DEF Outcome
<1>3. QED
  BY <1>1, <1>2, CrashStep, HoldStep

(* Read keeps the invariant.                                               *)
LEMMA ReadStep ==
  ASSUME TreeInv, NEW k, Read(k)
  PROVE  TreeInv'
<1>1. Sound(tree) /\ mem \in Memories(tree)
  BY DEF TreeInv
<1>2. PICK mode \in Modes : Outcome(isread(tree, mem, mode, k))
  BY DEF Read
<1>3. isread(tree, mem, mode, k) \in Outs(tree)
  BY <1>1, ReadFacts
<1>4. QED
  BY <1>2, <1>3, OutcomeStep

(* Move keeps the invariant.                                               *)
LEMMA MoveStep ==
  ASSUME TreeInv, NEW k, NEW d, Move(k, d)
  PROVE  TreeInv'
<1>1. Sound(tree) /\ mem \in Memories(tree)
  BY DEF TreeInv
<1> DEFINE w == ivbkeylocaterow(tree, mem, k, d)
<1>2. PICK move \in Moves : Outcome(isreadfrom(tree, w, move))
  BY DEF Move
<1>3. w \in Outs(tree)
  BY <1>1, LocateFacts
<1> HIDE DEF w
<1>4. isreadfrom(tree, w, move) \in Outs(tree)
  BY <1>1, <1>3, MoveFacts
<1>5. QED
  BY <1>2, <1>4, OutcomeStep

(* The memory is dropped.                                                  *)
LEMMA ReloadStep ==
  ASSUME TreeInv, Reload
  PROVE  TreeInv'
<1>1. Hold([n \in {} |-> RootMarks])
  BY DEF Reload
<1>2. [n \in {} |-> RootMarks] \in [{} -> Marks]
  OBVIOUS
<1>3. [n \in {} |-> RootMarks] \in Memories(tree)
  BY <1>2 DEF Memories
<1>4. QED
  BY <1>1, <1>3, HoldStep

(* Every step keeps the invariant.                                         *)
LEMMA NextInv == TreeInv /\ [Next]_vars => TreeInv'
<1> SUFFICES ASSUME TreeInv, [Next]_vars PROVE TreeInv'
  OBVIOUS
<1>1. ASSUME NEW k \in Key, Insert(k) PROVE TreeInv'
  BY <1>1, InsertStep
<1>2. ASSUME NEW k \in Key, Read(k) PROVE TreeInv'
  BY <1>2, ReadStep
<1>3. ASSUME NEW k \in Key, NEW d \in Dup, Delete(k, d) PROVE TreeInv'
  BY <1>3, DeleteStep
<1>4. ASSUME NEW k \in Key, NEW d \in Dup, Move(k, d) PROVE TreeInv'
  BY <1>4, MoveStep
<1>5. CASE Reload
  BY <1>5, ReloadStep
<1>6. CASE UNCHANGED vars
  BY <1>6 DEF vars, TreeInv
<1>7. QED
  BY <1>1, <1>2, <1>3, <1>4, <1>5, <1>6 DEF Next

(* The inductive invariant of the tree.                                    *)
LEMMA InvHolds == Spec => []TreeInv
BY InitInv, NextInv, PTL DEF Spec

(* TreeInv has the types of TypeOK.                                        *)
LEMMA InvTypes == TreeInv => TypeOK
<1> SUFFICES ASSUME TreeInv PROVE TypeOK
  OBVIOUS
<1>1. Sound(tree) /\ mem \in Memories(tree) /\ crashed \in BOOLEAN
  BY DEF TreeInv
<1>2. tree \in Tree
  BY <1>1, TopFacts
<1>3. DOMAIN mem \subseteq InUse(tree) /\ \A n \in DOMAIN mem : mem[n] \in Marks
  BY <1>1, MemoryFacts
<1>4. QED
  BY <1>1, <1>2, <1>3 DEF TypeOK, InUse

(* Types: however nodes split and collapse, every node has a level and at  *)
(* most Cap entries with keys, numbers and children of the types they have,*)
(* and the memory has marks for nodes only.                                *)
THEOREM TypeCorrect == Spec => []TypeOK
BY InvHolds, InvTypes, PTL

(* The nodes in use are those the root leads to. From a node up leads to the*)
(* root, since the levels rise, and each node of that way is a child of the*)
(* next; and a node two entries name would have two parents.               *)
LEMMA InvNodes == TreeInv => NodesAccounted
<1> SUFFICES ASSUME TreeInv PROVE NodesAccounted
  OBVIOUS
<1>1. Sound(tree) /\ Shapely(tree) /\ tree \in Tree
  BY DEF TreeInv, Sound, Shapely
<1>2. PICK up : Hung(tree, up, {}, {})
  BY <1>1 DEF Sound, Hangs
<1>3. /\ 1 \in InUse(tree) /\ InUse(tree) \subseteq Node
      /\ \A n \in tree.free : tree.node[n] = Blank
  BY <1>1 DEF Shapely, InUse
<1> DEFINE used(x) == /\ x[1] \in InUse(tree) /\ LevelOf(tree, x[1]) > 0
                      /\ x[2] \in 1..Len(Keys(tree, x[1]))
                      /\ x = <<x[1], x[2]>>
<1>4. ASSUME NEW x \in Slots PROVE used(x)
  <2>1. /\ x \in Node \X (1..Cap) /\ tree.node[x[1]].level > 0
        /\ x[2] <= Len(Keys(tree, x[1]))
    BY DEF Slots
  <2>2. x[1] \in Node /\ x[2] \in 1..Cap /\ x = <<x[1], x[2]>>
    BY <2>1
  <2>3. x[1] \notin tree.free
    <3>1. Blank.level = 0
      BY DEF Blank
    <3>2. QED
      BY <1>3, <2>1, <3>1
  <2>4. x[1] \in InUse(tree)
    BY <2>2, <2>3 DEF InUse
  <2>5. x[2] \in 1..Len(Keys(tree, x[1]))
    <3>1. Len(Keys(tree, x[1])) \in Nat /\ x[2] \in Nat /\ x[2] >= 1
      BY <1>1, <2>2, NodeFacts, TreeAssumption
    <3>2. QED
      BY <2>1, <3>1
  <2>6. QED
    BY <2>1, <2>2, <2>4, <2>5 DEF LevelOf
<1>5. ASSUME NEW n \in InUse(tree), NEW c \in Kids(tree, n)
      PROVE  \E x \in Slots : x[1] = n /\ Child(x) = c
  <2>1. LevelOf(tree, n) > 0 /\ n \in Node
    BY <1>3, <1>5 DEF Kids, KidsOf
  <2>2. PICK i \in DOMAIN Keys(tree, n) : Keys(tree, n)[i].to = c
    BY <1>5, <2>1 DEF Kids, KidsOf
  <2>3. i \in 1..Len(Keys(tree, n)) /\ Len(Keys(tree, n)) \in 0..Cap
    BY <1>1, <2>2, UsedFacts
  <2>4. i \in 1..Cap /\ i <= Len(Keys(tree, n))
    BY <2>3, TreeAssumption
  <2>5. <<n, i>> \in Slots
    BY <2>1, <2>4 DEF Slots, LevelOf
  <2>6. Child(<<n, i>>) = c /\ <<n, i>>[1] = n
    BY <2>2 DEF Child
  <2>7. QED
    BY <2>5, <2>6
<1>6. ASSUME NEW x \in Slots
      PROVE  /\ Child(x) \in Kids(tree, x[1]) /\ up[Child(x)] = x[1]
             /\ Child(x) \in InUse(tree) /\ x[1] \in InUse(tree)
             /\ LevelOf(tree, Child(x)) + 1 = LevelOf(tree, x[1])
  <2>1. used(x)
    BY <1>4
  <2>2. DOMAIN Keys(tree, x[1]) = 1..Len(Keys(tree, x[1]))
    BY <1>1, <2>1, UsedFacts
  <2>3. Child(x) \in Kids(tree, x[1])
    BY <2>1, <2>2 DEF Child, Kids, KidsOf
  <2>4. QED
    BY <1>2, <2>1, <2>3 DEF Hung
<1>7. ASSUME NEW x \in Slots, NEW y \in Slots, Child(x) = Child(y)
      PROVE  x = y
  <2>1. x[1] = y[1]
    BY <1>6, <1>7
  <2>2. used(x) /\ used(y)
    BY <1>4
  <2>3. DOMAIN Keys(tree, x[1]) = 1..Len(Keys(tree, x[1]))
    BY <1>1, <2>2, UsedFacts
  <2>4. \A i, j \in 1..Len(Keys(tree, x[1])) :
          Keys(tree, x[1])[i].to = Keys(tree, x[1])[j].to => i = j
    BY <1>2, <2>2, <2>3 DEF Hung, Distinct
  <2>5. x[2] = y[2]
    BY <1>7, <2>1, <2>2, <2>4 DEF Child
  <2>6. QED
    BY <2>1, <2>2, <2>5
<1>8. ASSUME NEW x \in Slots
      PROVE  tree.node[Child(x)].level = tree.node[x[1]].level - 1
  <2>1. LevelOf(tree, Child(x)) \in Nat /\ LevelOf(tree, x[1]) \in Nat
    BY <1>1, <1>6, UsedFacts
  <2>2. QED
    BY <1>6, <2>1 DEF LevelOf
<1>9. {1} \union {Child(x) : x \in Slots} = Node \ tree.free
  <2>1. \A x \in Slots : Child(x) \in InUse(tree)
    BY <1>6
  <2>2. ASSUME NEW c \in InUse(tree), c # 1
        PROVE  \E x \in Slots : Child(x) = c
    <3>1. up[c] \in InUse(tree) /\ c \in Kids(tree, up[c])
      BY <1>2, <2>2 DEF Hung
    <3>2. QED
      BY <1>5, <3>1
  <2>3. QED
    BY <1>3, <2>1, <2>2 DEF InUse
<1>10. QED
  BY <1>7, <1>8, <1>9 DEF NodesAccounted

(* NodesAccounted: after any sequence of insertions and deletions each node*)
(* is free or reached from the root by exactly one entry, and none is lost *)
(* or in two places; nodes are as many levels below the root as their level*)
(* says. It is about inodesplit, inewroot and the collapse of ivbkeydelete.*)
THEOREM TreeAccounted == Spec => []NodesAccounted
BY InvHolds, InvNodes, PTL
=============================================================================
