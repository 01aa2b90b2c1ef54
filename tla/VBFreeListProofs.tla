-------------------------- MODULE VBFreeListProofs --------------------------
(***************************************************************************)
(* The safety properties of VBFreeList (libvbisam/vbindexio.c) and the     *)
(* refinement of VBSpace, for every number of rows and nodes, every        *)
(* capacity of a node and every write that may fail. Liveness (ForceEnds)  *)
(* is left to TLC.                                                         *)
(*                                                                         *)
(* First come lemmas about the lists kept in nodes of the index file, both *)
(* free lists alike: lists of nodes, the numbers listed in them, Chain.    *)
(* Then comes what each operation does to a sound state of the allocator:  *)
(* part one is about the node free list, part two about the data free      *)
(* list, part three about the operations, which use nodes for both. Part   *)
(* four adds the two loops of ivbforcedataallocate, whose turns are steps  *)
(* of their own, and part five has the theorems.                           *)
(***************************************************************************)
EXTENDS VBFreeList, SequencesExt, SequenceTheorems, WellFoundedInduction,
        FiniteSetTheorems, TLAPS

(* A nonempty set of natural numbers has a least member.                   *)
LEMMA LeastNumber ==
  ASSUME NEW T \in SUBSET Nat, T # {}
  PROVE  \E x \in T : \A y \in T : x <= y
<1> DEFINE R == OpToRel(<, Nat)
<1>1. IsWellFoundedOn(R, Nat)
  BY NatLessThanWellFounded
<1>2. \A x, y \in Nat : x < y => <<x, y>> \in R
  BY DEF OpToRel
<1> HIDE DEF R
<1>3. PICK x \in T : \A y \in T : <<y, x>> \notin R
  BY <1>1, WFMin
<1>4. ASSUME NEW y \in T PROVE x <= y
  <2>1. x \in Nat /\ y \in Nat /\ ~(y < x)
    BY <1>2, <1>3
  <2>2. QED
    BY <2>1
<1>5. QED
  BY <1>3, <1>4

-----------------------------------------------------------------------------

(* o lists the k nodes of a list that starts at head, in pointer order.    *)
Order(disk, nodes, head, k, o) ==
  /\ o \in [1..k -> nodes]
  /\ \A n \in nodes : \E i \in 1..k : o[i] = n
  /\ \A i, j \in 1..k : o[i] = o[j] => i = j
  /\ head = IF k = 0 THEN 0 ELSE o[1]
  /\ \A i \in 1..k : disk[o[i]].next = IF i = k THEN 0 ELSE o[i + 1]

(* The nodes of a list are all met, once each, from its head.              *)
Linked(disk, nodes, head) ==
  \E k \in Nat : \E o \in [1..k -> nodes] : Order(disk, nodes, head, k, o)

(* No number is listed twice, and every number listed is of S.             *)
OnceEach(disk, nodes) ==
  \A n, m \in nodes :
    \A i \in 1..Len(disk[n].ents), j \in 1..Len(disk[m].ents) :
      disk[n].ents[i] = disk[m].ents[j] => n = m /\ i = j

AllIn(disk, nodes, S) ==
  \A n \in nodes : \A i \in 1..Len(disk[n].ents) : disk[n].ents[i] \in S

(* Some node of the list lists the number v.                               *)
Holds(disk, nodes, v) ==
  \E n \in nodes : \E i \in 1..Len(disk[n].ents) : disk[n].ents[i] = v

(* A list depends on the next pointers of its own nodes only.              *)
LEMMA LinkedSame ==
  ASSUME NEW disk, NEW disk2, NEW nodes, NEW head,
         Linked(disk, nodes, head),
         \A n \in nodes : disk2[n].next = disk[n].next
  PROVE  Linked(disk2, nodes, head)
<1>0. PICK k \in Nat : \E o \in [1..k -> nodes] :
                         Order(disk, nodes, head, k, o)
  BY DEF Linked
<1>1. PICK o \in [1..k -> nodes] : Order(disk, nodes, head, k, o)
  BY <1>0
<1>2. Order(disk2, nodes, head, k, o)
  BY <1>1 DEF Order
<1>3. QED
  BY <1>2 DEF Linked

(* The head and the pointers of a list stay within it, and no pointer      *)
(* leads back to the head.                                                 *)
LEMMA LinkedFacts ==
  ASSUME NEW disk, NEW nodes \in SUBSET Node, NEW head,
         Linked(disk, nodes, head)
  PROVE  /\ head \in nodes \union {0}
         /\ \A n \in nodes : disk[n].next \in nodes \union {0}
         /\ \A n \in nodes : disk[n].next # 0 => disk[n].next # head
<1>0. PICK k \in Nat : \E o \in [1..k -> nodes] :
                         Order(disk, nodes, head, k, o)
  BY DEF Linked
<1>1. PICK o \in [1..k -> nodes] : Order(disk, nodes, head, k, o)
  BY <1>0
<1>2. head \in nodes \union {0}
  BY <1>1 DEF Order
<1>3. ASSUME NEW n \in nodes
      PROVE  /\ disk[n].next \in nodes \union {0}
             /\ disk[n].next # 0 => disk[n].next # head
  <2>1. PICK i \in 1..k : o[i] = n
    BY <1>1 DEF Order
  <2>2. disk[n].next = IF i = k THEN 0 ELSE o[i + 1]
    BY <1>1, <2>1 DEF Order
  <2>3. CASE i = k
    BY <2>2, <2>3
  <2>4. CASE i # k
    <3>1. i + 1 \in 1..k /\ 1 \in 1..k /\ i + 1 # 1 /\ k # 0
      BY <2>4
    <3>2. head = o[1] /\ o[i + 1] # o[1] /\ o[i + 1] \in nodes
      BY <1>1, <3>1 DEF Order
    <3>3. QED
      BY <2>2, <2>4, <3>2
  <2>5. QED
    BY <2>3, <2>4
<1>4. QED
  BY <1>2, <1>3

(* An empty list is one whose head is 0.                                   *)
LEMMA LinkedEmpty == ASSUME NEW disk PROVE Linked(disk, {}, 0)
<1>1. Order(disk, {}, 0, 0, [i \in 1..0 |-> 0])
  BY DEF Order
<1>2. [i \in 1..0 |-> 0] \in [1..0 -> {}]
  OBVIOUS
<1>3. QED
  BY <1>1, <1>2 DEF Linked

(* A new node that points at the old head is the head of a longer list:    *)
(* what ivbnodefree and ivbdatafree do.                                    *)
LEMMA LinkedPush ==
  ASSUME NEW disk, NEW disk2, NEW nodes, NEW head, NEW n,
         Linked(disk, nodes, head), n \notin nodes, 0 \notin nodes,
         disk2[n].next = head,
         \A m \in nodes : disk2[m].next = disk[m].next
  PROVE  Linked(disk2, nodes \union {n}, n)
<1>0. PICK k \in Nat : \E o \in [1..k -> nodes] :
                         Order(disk, nodes, head, k, o)
  BY DEF Linked
<1>1. PICK o \in [1..k -> nodes] : Order(disk, nodes, head, k, o)
  BY <1>0
<1> DEFINE p == [i \in 1..(k + 1) |-> IF i = 1 THEN n ELSE o[i - 1]]
<1>2. p \in [1..(k + 1) -> nodes \union {n}]
  <2>1. ASSUME NEW i \in 1..(k + 1), i # 1 PROVE o[i - 1] \in nodes
    BY <2>1
  <2>2. QED
    BY <2>1
<1>3. \A m \in nodes \union {n} : \E i \in 1..(k + 1) : p[i] = m
  <2>1. p[1] = n /\ 1 \in 1..(k + 1)
    OBVIOUS
  <2>2. ASSUME NEW m \in nodes PROVE \E i \in 1..(k + 1) : p[i] = m
    <3>1. PICK i \in 1..k : o[i] = m
      BY <1>1 DEF Order
    <3>2. i + 1 \in 1..(k + 1) /\ p[i + 1] = m
      BY <3>1
    <3>3. QED
      BY <3>2
  <2>3. QED
    BY <2>1, <2>2
<1>4. \A i, j \in 1..(k + 1) : p[i] = p[j] => i = j
  <2>1. ASSUME NEW i \in 1..(k + 1), NEW j \in 1..(k + 1), p[i] = p[j]
        PROVE  i = j
    <3>1. \A a \in 1..k : o[a] # n
      BY <1>1 DEF Order
    <3>2. \A a, b \in 1..k : o[a] = o[b] => a = b
      BY <1>1 DEF Order
    <3>3. CASE i # 1 /\ j # 1
      <4>1. i - 1 \in 1..k /\ j - 1 \in 1..k /\ o[i - 1] = o[j - 1]
        BY <2>1, <3>3
      <4>2. QED
        BY <4>1, <3>2
    <3>4. CASE i = 1 /\ j # 1
      <4>1. j - 1 \in 1..k /\ o[j - 1] = n
        BY <2>1, <3>4
      <4>2. QED
        BY <4>1, <3>1
    <3>5. CASE i # 1 /\ j = 1
      <4>1. i - 1 \in 1..k /\ o[i - 1] = n
        BY <2>1, <3>5
      <4>2. QED
        BY <4>1, <3>1
    <3>6. QED
      BY <3>3, <3>4, <3>5
  <2>2. QED
    BY <2>1
<1>5. ASSUME NEW i \in 1..(k + 1)
      PROVE  disk2[p[i]].next = IF i = k + 1 THEN 0 ELSE p[i + 1]
  <2>1. CASE i = 1
    <3>1. disk2[p[i]].next = head
      BY <2>1
    <3>2. head = IF k = 0 THEN 0 ELSE o[1]
      BY <1>1 DEF Order
    <3>3. QED
      BY <2>1, <3>1, <3>2
  <2>2. CASE i # 1
    <3>1. i - 1 \in 1..k /\ p[i] = o[i - 1] /\ o[i - 1] \in nodes
      BY <2>2
    <3>2. disk[o[i - 1]].next = IF i - 1 = k THEN 0 ELSE o[(i - 1) + 1]
      BY <1>1, <3>1 DEF Order
    <3>3. i # k + 1 => p[i + 1] = o[(i - 1) + 1]
      BY <2>2
    <3>4. QED
      BY <3>1, <3>2, <3>3
  <2>3. QED
    BY <2>1, <2>2
<1>6. n = IF k + 1 = 0 THEN 0 ELSE p[1]
  OBVIOUS
<1> HIDE DEF p
<1>7. Order(disk2, nodes \union {n}, n, k + 1, p)
  BY <1>2, <1>3, <1>4, <1>5, <1>6 DEF Order
<1>8. QED
  BY <1>2, <1>7 DEF Linked

(* Without its head a list goes on from the head's next pointer: what      *)
(* tvbnodeallocate and tvbdataallocate do.                                 *)
LEMMA LinkedPop ==
  ASSUME NEW disk, NEW nodes, NEW head, head # 0,
         Linked(disk, nodes, head)
  PROVE  Linked(disk, nodes \ {head}, disk[head].next)
<1>0. PICK k \in Nat : \E o \in [1..k -> nodes] :
                         Order(disk, nodes, head, k, o)
  BY DEF Linked
<1>1. PICK o \in [1..k -> nodes] : Order(disk, nodes, head, k, o)
  BY <1>0
<1>2. k # 0 /\ head = o[1] /\ 1 \in 1..k /\ k - 1 \in Nat
  BY <1>1 DEF Order
<1> DEFINE p == [i \in 1..(k - 1) |-> o[i + 1]]
<1>3. p \in [1..(k - 1) -> nodes \ {head}]
  <2>1. ASSUME NEW i \in 1..(k - 1) PROVE o[i + 1] \in nodes \ {head}
    <3>1. i + 1 \in 1..k /\ i + 1 # 1
      BY <1>2
    <3>2. QED
      BY <1>1, <1>2, <3>1 DEF Order
  <2>2. QED
    BY <2>1
<1>4. ASSUME NEW m \in nodes \ {head}
      PROVE  \E i \in 1..(k - 1) : p[i] = m
  <2>1. PICK i \in 1..k : o[i] = m
    BY <1>1 DEF Order
  <2>2. i - 1 \in 1..(k - 1) /\ p[i - 1] = m
    BY <1>2, <2>1
  <2>3. QED
    BY <2>2
<1>5. ASSUME NEW i \in 1..(k - 1), NEW j \in 1..(k - 1), p[i] = p[j]
      PROVE  i = j
  <2>1. i + 1 \in 1..k /\ j + 1 \in 1..k /\ o[i + 1] = o[j + 1]
    BY <1>2, <1>5
  <2>2. i + 1 = j + 1
    BY <1>1, <2>1 DEF Order
  <2>3. QED
    BY <2>2
<1>6. ASSUME NEW i \in 1..(k - 1)
      PROVE  disk[p[i]].next = IF i = k - 1 THEN 0 ELSE p[i + 1]
  <2>1. i + 1 \in 1..k /\ p[i] = o[i + 1]
    BY <1>2
  <2>2. disk[o[i + 1]].next = IF i + 1 = k THEN 0 ELSE o[(i + 1) + 1]
    BY <1>1, <2>1 DEF Order
  <2>3. i # k - 1 => p[i + 1] = o[(i + 1) + 1]
    BY <1>2
  <2>4. QED
    BY <1>2, <2>1, <2>2, <2>3
<1>7. disk[head].next = IF k - 1 = 0 THEN 0 ELSE p[1]
  <2>1. disk[head].next = IF 1 = k THEN 0 ELSE o[1 + 1]
    BY <1>1, <1>2 DEF Order
  <2>2. QED
    BY <1>2, <2>1
<1> HIDE DEF p
<1>8. Order(disk, nodes \ {head}, disk[head].next, k - 1, p)
  BY <1>3, <1>4, <1>5, <1>6, <1>7 DEF Order
<1>9. QED
  BY <1>2, <1>3, <1>8 DEF Linked

(* prev, which pointed at n, points at what follows n; the other pointers  *)
(* are as they were.                                                       *)
Bypassed(disk, disk2, nodes, prev, n) ==
  /\ prev \in nodes /\ n \in nodes
  /\ disk[prev].next = n
  /\ disk2[prev].next = disk[n].next
  /\ \A m \in nodes \ {prev} : disk2[m].next = disk[m].next

(* A list whose node prev bypasses n is the list without n: what           *)
(* ivbforcedataallocate does to a node it empties.                         *)
LEMMA LinkedUnlink ==
  ASSUME NEW disk, NEW disk2, NEW nodes, NEW head, NEW prev, NEW n,
         0 \notin nodes, Linked(disk, nodes, head),
         Bypassed(disk, disk2, nodes, prev, n)
  PROVE  Linked(disk2, nodes \ {n}, head)
<1> USE DEF Bypassed
<1>0. PICK k \in Nat : \E o \in [1..k -> nodes] :
                         Order(disk, nodes, head, k, o)
  BY DEF Linked
<1>1. PICK o \in [1..k -> nodes] : Order(disk, nodes, head, k, o)
  BY <1>0
<1>2. PICK q \in 1..k : o[q] = prev
  BY <1>1 DEF Order
<1>3. q # k /\ o[q + 1] = n /\ q + 1 \in 1..k
  BY <1>1, <1>2 DEF Order
<1> DEFINE p == [i \in 1..(k - 1) |-> IF i <= q THEN o[i] ELSE o[i + 1]]
<1>4. ASSUME NEW i \in 1..(k - 1)
      PROVE  /\ i <= q => i \in 1..k /\ p[i] = o[i] /\ o[i] # n
             /\ i > q => i + 1 \in 1..k /\ p[i] = o[i + 1] /\ o[i + 1] # n
  <2>1. i \in 1..k /\ i + 1 \in 1..k
    OBVIOUS
  <2>2. i # q + 1 => o[i] # n
    BY <1>1, <1>3, <2>1 DEF Order
  <2>3. i # q => o[i + 1] # n
    BY <1>1, <1>3, <2>1 DEF Order
  <2>4. QED
    BY <2>1, <2>2, <2>3
<1>5. p \in [1..(k - 1) -> nodes \ {n}]
  <2>1. ASSUME NEW i \in 1..(k - 1) PROVE p[i] \in nodes \ {n}
    BY <1>4, SMTT(30)
  <2>2. QED
    BY <2>1
<1>6. ASSUME NEW m \in nodes \ {n}
      PROVE  \E i \in 1..(k - 1) : p[i] = m
  <2>1. PICK i \in 1..k : o[i] = m
    BY <1>1 DEF Order
  <2>2. i # q + 1
    BY <1>3, <2>1
  <2>3. CASE i <= q
    <3>1. i \in 1..(k - 1) /\ p[i] = m
      BY <1>3, <2>1, <2>3
    <3>2. QED
      BY <3>1
  <2>4. CASE i > q + 1
    <3>1. i - 1 \in 1..(k - 1) /\ p[i - 1] = m
      BY <1>3, <2>1, <2>4
    <3>2. QED
      BY <3>1
  <2>5. QED
    BY <2>2, <2>3, <2>4
<1>7. ASSUME NEW i \in 1..(k - 1), NEW j \in 1..(k - 1), p[i] = p[j]
      PROVE  i = j
  <2>1. \A a, b \in 1..k : o[a] = o[b] => a = b
    BY <1>1 DEF Order
  <2>2. CASE i <= q /\ j <= q
    BY <1>4, <1>7, <2>1, <2>2
  <2>3. CASE i <= q /\ j > q
    <3>1. i = j + 1
      BY <1>4, <1>7, <2>1, <2>3
    <3>2. QED
      BY <2>3, <3>1
  <2>4. CASE i > q /\ j <= q
    <3>1. j = i + 1
      BY <1>4, <1>7, <2>1, <2>4
    <3>2. QED
      BY <2>4, <3>1
  <2>5. CASE i > q /\ j > q
    <3>1. i + 1 = j + 1
      BY <1>4, <1>7, <2>1, <2>5
    <3>2. QED
      BY <3>1
  <2>6. QED
    BY <2>2, <2>3, <2>4, <2>5
<1>8. ASSUME NEW i \in 1..(k - 1)
      PROVE  disk2[p[i]].next = IF i = k - 1 THEN 0 ELSE p[i + 1]
  <2>1. \A a \in 1..k : disk[o[a]].next = IF a = k THEN 0 ELSE o[a + 1]
    BY <1>1 DEF Order
  <2>2. \A a \in 1..k : a # q => disk2[o[a]].next = disk[o[a]].next
    BY <1>1, <1>2 DEF Order
  <2>3. disk2[o[q]].next = disk[o[q + 1]].next
    BY <1>2, <1>3
  <2>4. CASE i < q
    <3>1. i \in 1..k /\ i # q /\ i # k /\ i # k - 1 /\ i + 1 <= q
      BY <1>3, <2>4
    <3>2. p[i] = o[i] /\ p[i + 1] = o[i + 1]
      BY <1>3, <3>1
    <3>3. QED
      BY <2>1, <2>2, <3>1, <3>2
  <2>5. CASE i = q
    <3>1. p[i] = o[q]
      BY <2>5
    <3>2. i # k - 1 => p[i + 1] = o[(q + 1) + 1]
      BY <2>5
    <3>3. disk[o[q + 1]].next = IF q + 1 = k THEN 0 ELSE o[(q + 1) + 1]
      BY <1>3, <2>1
    <3>4. QED
      BY <2>3, <2>5, <3>1, <3>2, <3>3
  <2>6. CASE i > q
    <3>1. i + 1 \in 1..k /\ i + 1 # q /\ p[i] = o[i + 1]
      BY <2>6
    <3>2. i # k - 1 => p[i + 1] = o[(i + 1) + 1]
      BY <2>6
    <3>3. QED
      BY <2>1, <2>2, <3>1, <3>2
  <2>7. QED
    BY <2>4, <2>5, <2>6
<1>9. head = IF k - 1 = 0 THEN 0 ELSE p[1]
  <2>1. k - 1 # 0 /\ 1 \in 1..(k - 1)
    BY <1>3
  <2>2. p[1] = o[1]
    BY <2>1
  <2>3. QED
    BY <1>1, <2>1, <2>2 DEF Order
<1> HIDE DEF p
<1>10. Order(disk2, nodes \ {n}, head, k - 1, p)
  BY <1>5, <1>6, <1>7, <1>8, <1>9 DEF Order
<1>11. QED
  BY <1>5, <1>10 DEF Linked


-----------------------------------------------------------------------------
(* Without takes one number out and shifts down those behind it.           *)
LEMMA WithoutFacts ==
  ASSUME NEW S, NEW e \in Seq(S), NEW i \in 1..Len(e)
  PROVE  /\ Without(e, i) \in Seq(S)
         /\ Len(Without(e, i)) = Len(e) - 1
         /\ Len(e) > 1 => Without(e, i) # <<>>
         /\ \A k \in 1..(Len(e) - 1) :
              Without(e, i)[k] = IF k < i THEN e[k] ELSE e[k + 1]
<1>1. Len(e) \in Nat /\ Len(e) - 1 \in Nat
  OBVIOUS
<1>2. ASSUME NEW k \in 1..(Len(e) - 1)
      PROVE  (IF k < i THEN e[k] ELSE e[k + 1]) \in S
  <2>1. k \in 1..Len(e) /\ k + 1 \in 1..Len(e)
    BY <1>1
  <2>2. e[k] \in S /\ e[k + 1] \in S
    BY <2>1
  <2>3. QED
    BY <2>2
<1>3. Without(e, i) \in [1..(Len(e) - 1) -> S]
  BY <1>2 DEF Without
<1>4. Without(e, i) \in Seq(S) /\ Len(Without(e, i)) = Len(e) - 1
  BY <1>1, <1>3
<1>5. Len(e) > 1 => Without(e, i) # <<>>
  BY <1>1, <1>4
<1>6. QED
  BY <1>4, <1>5 DEF Without

(* What a list holds depends on the entries of its own nodes only.         *)
LEMMA EntriesSame ==
  ASSUME NEW disk, NEW disk2, NEW nodes, NEW S,
         \A n \in nodes : disk2[n].ents = disk[n].ents
  PROVE  /\ OnceEach(disk, nodes) => OnceEach(disk2, nodes)
         /\ AllIn(disk, nodes, S) => AllIn(disk2, nodes, S)
         /\ \A v : Holds(disk, nodes, v) => Holds(disk2, nodes, v)
<1>1. OnceEach(disk, nodes) => OnceEach(disk2, nodes)
  BY SMTT(30) DEF OnceEach
<1>2. AllIn(disk, nodes, S) => AllIn(disk2, nodes, S)
  BY DEF AllIn
<1>3. \A v : Holds(disk, nodes, v) => Holds(disk2, nodes, v)
  BY DEF Holds
<1>4. QED
  BY <1>1, <1>2, <1>3

(* The i-th entry of node n, the number r, is taken out of it; the other   *)
(* nodes list what they did.                                               *)
Dropped(disk, disk2, nodes, n, i, r) ==
  /\ n \in nodes
  /\ disk[n].ents \in Seq(Nat)
  /\ i \in 1..Len(disk[n].ents)
  /\ disk[n].ents[i] = r
  /\ disk2[n].ents = Without(disk[n].ents, i)
  /\ \A m \in nodes \ {n} : disk2[m].ents = disk[m].ents

(* Taking one entry out of a node takes one number out of the list and     *)
(* leaves the rest in it.                                                  *)
LEMMA EntriesDrop ==
  ASSUME NEW disk, NEW disk2, NEW nodes, NEW S, NEW n, NEW i,
         NEW r, Dropped(disk, disk2, nodes, n, i, r),
         OnceEach(disk, nodes), AllIn(disk, nodes, S)
  PROVE  /\ OnceEach(disk2, nodes)
         /\ AllIn(disk2, nodes, S \ {r})
         /\ \A v : Holds(disk, nodes, v) =>
                     v = r \/ Holds(disk2, nodes, v)
<1> DEFINE e == disk[n].ents
           old(m, k) == IF m # n \/ k < i THEN k ELSE k + 1
<1> USE DEF Dropped
<1>1. /\ Len(disk2[n].ents) = Len(e) - 1
      /\ \A k \in 1..(Len(e) - 1) :
           disk2[n].ents[k] = IF k < i THEN e[k] ELSE e[k + 1]
      /\ Len(e) \in Nat
  <2>1. e \in Seq(Nat) /\ i \in 1..Len(e) /\ disk2[n].ents = Without(e, i)
    OBVIOUS
  <2> HIDE DEF e
  <2>2. /\ Len(Without(e, i)) = Len(e) - 1
        /\ \A k \in 1..(Len(e) - 1) :
             Without(e, i)[k] = IF k < i THEN e[k] ELSE e[k + 1]
    BY <2>1, WithoutFacts
  <2>3. Len(e) \in Nat
    BY <2>1
  <2>4. QED
    BY <2>1, <2>2, <2>3
<1>2. ASSUME NEW m \in nodes, NEW k \in 1..Len(disk2[m].ents)
      PROVE  /\ old(m, k) \in 1..Len(disk[m].ents)
             /\ disk2[m].ents[k] = disk[m].ents[old(m, k)]
             /\ m = n => old(m, k) # i
  <2>1. CASE m # n
    BY <2>1
  <2>2. CASE m = n
    <3>1. k \in 1..(Len(e) - 1) /\ i \in Nat
      BY <1>1, <2>2
    <3>2. disk2[n].ents[k] = IF k < i THEN e[k] ELSE e[k + 1]
      BY <1>1, <3>1
    <3>3. CASE k < i
      <4>1. k \in 1..Len(disk[n].ents)
        BY <1>1, <3>1
      <4>2. QED
        BY <2>2, <3>1, <3>2, <3>3, <4>1
    <3>4. CASE ~(k < i)
      <4>1. k + 1 \in 1..Len(disk[n].ents) /\ k + 1 # i
        BY <1>1, <3>1, <3>4
      <4>2. QED
        BY <2>2, <3>2, <3>4, <4>1
    <3>5. QED
      BY <3>3, <3>4
  <2>3. QED
    BY <2>1, <2>2
<1>3. ASSUME NEW m \in nodes, NEW k \in 1..Len(disk2[m].ents),
             NEW p \in nodes, NEW j \in 1..Len(disk2[p].ents),
             disk2[m].ents[k] = disk2[p].ents[j]
      PROVE  m = p /\ k = j
  <2>1. disk[m].ents[old(m, k)] = disk[p].ents[old(p, j)]
    BY <1>2, <1>3
  <2>2. /\ old(m, k) \in 1..Len(disk[m].ents)
        /\ old(p, j) \in 1..Len(disk[p].ents)
    BY <1>2
  <2> HIDE DEF old
  <2>3. m = p /\ old(m, k) = old(p, j)
    BY <2>1, <2>2, SMTT(30) DEF OnceEach
  <2>4. k \in Int /\ j \in Int /\ i \in Int
    OBVIOUS
  <2>5. QED
    BY <2>3, <2>4 DEF old
<1>4. OnceEach(disk2, nodes)
  BY <1>3 DEF OnceEach
<1>5. ASSUME NEW m \in nodes, NEW k \in 1..Len(disk2[m].ents)
      PROVE  disk2[m].ents[k] \in S \ {r}
  <2>1. disk[m].ents[old(m, k)] \in S
    BY <1>2 DEF AllIn
  <2>2. disk[m].ents[old(m, k)] # disk[n].ents[i]
    <3>1. old(m, k) \in 1..Len(disk[m].ents) /\ (m = n => old(m, k) # i)
      BY <1>2
    <3> HIDE DEF old
    <3>2. QED
      BY <3>1 DEF OnceEach
  <2>3. QED
    BY <1>2, <2>1, <2>2
<1>6. AllIn(disk2, nodes, S \ {r})
  BY <1>5 DEF AllIn
<1>7. ASSUME NEW v, Holds(disk, nodes, v), v # r
      PROVE  Holds(disk2, nodes, v)
  <2>1. PICK m \in nodes : \E k \in 1..Len(disk[m].ents) : disk[m].ents[k] = v
    BY <1>7 DEF Holds
  <2>2. PICK k \in 1..Len(disk[m].ents) : disk[m].ents[k] = v
    BY <2>1
  <2>3. CASE m # n
    BY <2>2, <2>3 DEF Holds
  <2>4. CASE m = n /\ k < i
    <3>1. k \in 1..(Len(e) - 1) /\ disk2[n].ents[k] = v
      BY <1>1, <2>2, <2>4
    <3>2. QED
      BY <1>1, <3>1 DEF Holds
  <2>5. CASE m = n /\ k > i
    <3>1. k - 1 \in 1..(Len(e) - 1) /\ disk2[n].ents[k - 1] = v
      BY <1>1, <2>2, <2>5
    <3>2. QED
      BY <1>1, <3>1 DEF Holds
  <2>6. QED
    BY <1>7, <2>2, <2>3, <2>4, <2>5
<1>8. QED
  BY <1>4, <1>6, <1>7

(* A number the list does not hold may be appended to one of its nodes.    *)
LEMMA EntriesAppend ==
  ASSUME NEW disk, NEW disk2, NEW nodes, NEW S, NEW T,
         NEW n \in nodes, disk[n].ents \in Seq(T), NEW v \in T, v \notin S,
         disk2[n].ents = Append(disk[n].ents, v),
         \A m \in nodes \ {n} : disk2[m].ents = disk[m].ents,
         OnceEach(disk, nodes), AllIn(disk, nodes, S)
  PROVE  /\ OnceEach(disk2, nodes)
         /\ AllIn(disk2, nodes, S \union {v})
         /\ Holds(disk2, nodes, v)
         /\ \A w : Holds(disk, nodes, w) => Holds(disk2, nodes, w)
<1> DEFINE l == Len(disk[n].ents) + 1
<1>1. /\ l \in Nat /\ Len(disk2[n].ents) = l /\ disk2[n].ents[l] = v
      /\ \A k \in 1..Len(disk[n].ents) : disk2[n].ents[k] = disk[n].ents[k]
      /\ l \in 1..Len(disk2[n].ents)
  OBVIOUS
<1>2. ASSUME NEW m \in nodes, NEW k \in 1..Len(disk2[m].ents)
      PROVE  \/ m = n /\ k = l /\ disk2[m].ents[k] = v
             \/ /\ k \in 1..Len(disk[m].ents)
                /\ disk2[m].ents[k] = disk[m].ents[k]
                /\ disk[m].ents[k] \in S /\ disk[m].ents[k] # v
  <2>1. CASE m = n /\ k = l
    BY <1>1, <2>1
  <2>2. CASE ~ (m = n /\ k = l)
    <3>1. k \in 1..Len(disk[m].ents) /\ disk2[m].ents[k] = disk[m].ents[k]
      BY <1>1, <2>2
    <3>2. disk[m].ents[k] \in S
      BY <3>1 DEF AllIn
    <3>3. QED
      BY <3>1, <3>2
  <2>3. QED
    BY <2>1, <2>2
<1> HIDE DEF l
<1>3. OnceEach(disk2, nodes)
  <2>1. ASSUME NEW m \in nodes, NEW k \in 1..Len(disk2[m].ents),
               NEW p \in nodes, NEW j \in 1..Len(disk2[p].ents),
               disk2[m].ents[k] = disk2[p].ents[j]
        PROVE  m = p /\ k = j
    <3>1. CASE k \in 1..Len(disk[m].ents) /\ j \in 1..Len(disk[p].ents)
               /\ disk[m].ents[k] = disk[p].ents[j]
      BY <3>1 DEF OnceEach
    <3>2. CASE m = n /\ k = l /\ disk2[m].ents[k] = v
      <4>1. disk2[p].ents[j] = v
        BY <2>1, <3>2
      <4>2. p = n /\ j = l
        BY <1>2, <4>1
      <4>3. QED
        BY <3>2, <4>2
    <3>3. CASE p = n /\ j = l /\ disk2[p].ents[j] = v
      <4>1. disk2[m].ents[k] = v
        BY <2>1, <3>3
      <4>2. m = n /\ k = l
        BY <1>2, <4>1
      <4>3. QED
        BY <3>3, <4>2
    <3>4. QED
      BY <1>2, <2>1, <3>1, <3>2, <3>3
  <2>2. QED
    BY <2>1 DEF OnceEach
<1>4. AllIn(disk2, nodes, S \union {v})
  BY <1>2 DEF AllIn
<1>5. Holds(disk2, nodes, v)
  BY <1>1 DEF Holds
<1>6. ASSUME NEW w, Holds(disk, nodes, w) PROVE Holds(disk2, nodes, w)
  <2>1. PICK m \in nodes : \E k \in 1..Len(disk[m].ents) : disk[m].ents[k] = w
    BY <1>6 DEF Holds
  <2>2. PICK k \in 1..Len(disk[m].ents) : disk[m].ents[k] = w
    BY <2>1
  <2>3. k \in 1..Len(disk2[m].ents) /\ disk2[m].ents[k] = w
    BY <1>1, <2>2, SMTT(30) DEF l
  <2>4. QED
    BY <2>3 DEF Holds
<1>7. QED
  BY <1>3, <1>4, <1>5, <1>6

(* A node without entries may join a list.                                 *)
LEMMA EntriesJoinEmpty ==
  ASSUME NEW disk, NEW disk2, NEW nodes, NEW S, NEW n,
         n \notin nodes, disk2[n].ents = <<>>,
         \A m \in nodes : disk2[m].ents = disk[m].ents,
         OnceEach(disk, nodes), AllIn(disk, nodes, S)
  PROVE  /\ OnceEach(disk2, nodes \union {n})
         /\ AllIn(disk2, nodes \union {n}, S)
<1>1. 1..Len(disk2[n].ents) = {}
  OBVIOUS
<1>2. QED
  BY <1>1, SMTT(30) DEF OnceEach, AllIn

(* A node with one entry may join a list that does not hold it.            *)
LEMMA EntriesJoin ==
  ASSUME NEW disk, NEW disk2, NEW nodes, NEW S, NEW n, NEW v,
         n \notin nodes, disk2[n].ents = <<v>>, v \notin S,
         \A m \in nodes : disk2[m].ents = disk[m].ents,
         OnceEach(disk, nodes), AllIn(disk, nodes, S)
  PROVE  /\ OnceEach(disk2, nodes \union {n})
         /\ AllIn(disk2, nodes \union {n}, S \union {v})
         /\ Holds(disk2, nodes \union {n}, v)
         /\ \A w : Holds(disk, nodes, w) => Holds(disk2, nodes \union {n}, w)
<1>1. 1..Len(disk2[n].ents) = {1} /\ disk2[n].ents[1] = v
  OBVIOUS
<1>2. \A m \in nodes : \A k \in 1..Len(disk2[m].ents) : disk2[m].ents[k] # v
  BY DEF AllIn
<1>3. OnceEach(disk2, nodes \union {n})
  BY <1>1, <1>2, SMTT(30) DEF OnceEach
<1>4. AllIn(disk2, nodes \union {n}, S \union {v})
  BY <1>1 DEF AllIn
<1>5. Holds(disk2, nodes \union {n}, v)
  BY <1>1 DEF Holds
<1>6. \A w : Holds(disk, nodes, w) => Holds(disk2, nodes \union {n}, w)
  BY DEF Holds
<1>7. QED
  BY <1>3, <1>4, <1>5, <1>6

(* A node that leaves a list takes its entries with it.                    *)
LEMMA EntriesLeave ==
  ASSUME NEW disk, NEW nodes, NEW S, NEW n,
         OnceEach(disk, nodes), AllIn(disk, nodes, S)
  PROVE  /\ OnceEach(disk, nodes \ {n})
         /\ AllIn(disk, nodes \ {n}, S)
         /\ \A i \in 1..Len(disk[n].ents) : n \in nodes =>
              AllIn(disk, nodes \ {n}, S \ {disk[n].ents[i]})
         /\ \A w : Holds(disk, nodes, w) =>
              \/ \E i \in 1..Len(disk[n].ents) : w = disk[n].ents[i]
              \/ Holds(disk, nodes \ {n}, w)
<1>1. OnceEach(disk, nodes \ {n})
  BY DEF OnceEach
<1>2. AllIn(disk, nodes \ {n}, S)
  BY DEF AllIn
<1>3. ASSUME NEW i \in 1..Len(disk[n].ents), n \in nodes
      PROVE  AllIn(disk, nodes \ {n}, S \ {disk[n].ents[i]})
  BY <1>3 DEF AllIn, OnceEach
<1>4. \A w : Holds(disk, nodes, w) =>
        \/ \E i \in 1..Len(disk[n].ents) : w = disk[n].ents[i]
        \/ Holds(disk, nodes \ {n}, w)
  BY DEF Holds
<1>5. QED
  BY <1>1, <1>2, <1>3, <1>4

(* A list is no longer than there are nodes, since it meets none twice.    *)
LEMMA OrderShort ==
  ASSUME NEW disk, NEW nodes \in SUBSET Node, NEW head, NEW k \in Nat,
         NEW o \in [1..k -> nodes], Order(disk, nodes, head, k, o)
  PROVE  k <= MaxNode
<1> SUFFICES ASSUME MaxNode < k PROVE FALSE
  BY SpaceAssumption
<1>1. IsFiniteSet(1..k) /\ Cardinality(1..k) = k
  BY FS_Interval
<1>2. IsFiniteSet(Node) /\ Cardinality(Node) = MaxNode
  BY FS_Interval, SpaceAssumption DEF Node
<1>3. o \in [1..k -> Node]
  OBVIOUS
<1>4. \E i, j \in 1..k : i # j /\ o[i] = o[j]
  BY <1>1, <1>2, <1>3, FS_PigeonHole
<1>5. QED
  BY <1>4 DEF Order

(* Chain, the recursive function that follows the pointers from the head,  *)
(* meets exactly the nodes of a list. The function is that of the          *)
(* positions in the list, followed by zeros: both satisfy its equation,    *)
(* and by induction on the position no other does.                         *)
LEMMA ChainNodes ==
  ASSUME NEW s, NEW nodes \in SUBSET Node, NEW head,
         Linked(s.disk, nodes, head)
  PROVE  Chain(s, head) = nodes
<1>1. PICK k \in Nat : \E o \in [1..k -> nodes] :
                         Order(s.disk, nodes, head, k, o)
  BY DEF Linked
<1>2. PICK o \in [1..k -> nodes] : Order(s.disk, nodes, head, k, o)
  BY <1>1
<1>3. k <= MaxNode /\ MaxNode \in Nat /\ 0 \notin nodes
  BY <1>2, OrderShort, SpaceAssumption DEF Node
<1> DEFINE Step(g) ==
             [j \in 0..MaxNode |->
                IF j = 0 THEN head
                ELSE IF g[j - 1] = 0 THEN 0 ELSE s.disk[g[j - 1]].next]
           at == CHOOSE g : g = Step(g)
           q == [j \in 0..MaxNode |-> IF j < k THEN o[j + 1] ELSE 0]
<1>4. q = Step(q)
  <2>1. ASSUME NEW j \in 0..MaxNode PROVE q[j] = Step(q)[j]
    <3>1. CASE j = 0
      <4>1. q[0] = IF k = 0 THEN 0 ELSE o[1]
        BY <1>3
      <4>2. QED
        BY <1>2, <3>1, <4>1 DEF Order
    <3>2. CASE j # 0
      <4>1. /\ j - 1 \in 0..MaxNode /\ j \in Nat
            /\ Step(q)[j] = IF q[j - 1] = 0 THEN 0
                            ELSE s.disk[q[j - 1]].next
        BY <1>3, <3>2
      <4>2. q[j - 1] = IF j - 1 < k THEN o[j] ELSE 0
        BY <1>3, <3>2, <4>1
      <4>3. CASE j - 1 < k
        <5>1. j \in 1..k /\ o[j] # 0
          BY <1>3, <3>2, <4>1, <4>3
        <5>2. s.disk[o[j]].next = IF j = k THEN 0 ELSE o[j + 1]
          BY <1>2, <5>1 DEF Order
        <5>3. q[j] = IF j = k THEN 0 ELSE o[j + 1]
          BY <4>1, <4>3
        <5>4. QED
          BY <4>1, <4>2, <4>3, <5>1, <5>2, <5>3
      <4>4. CASE ~(j - 1 < k)
        BY <4>1, <4>2, <4>4
      <4>5. QED
        BY <4>3, <4>4
    <3>3. QED
      BY <3>1, <3>2
  <2> HIDE DEF q
  <2>2. q = [j \in 0..MaxNode |-> q[j]]
    BY DEF q
  <2>3. QED
    BY <2>1, <2>2
<1> HIDE DEF q
<1>5. at = Step(at)
  BY <1>4
<1> HIDE DEF at
<1>6. \A j \in 0..MaxNode : at[j] = q[j]
  <2> DEFINE T == {j \in 0..MaxNode : at[j] # q[j]}
  <2> SUFFICES ASSUME T # {} PROVE FALSE
    OBVIOUS
  <2>0. T \in SUBSET Nat /\ T # {}
    BY <1>3
  <2> HIDE DEF T
  <2>1. PICK j \in T : \A i \in T : j <= i
    BY <2>0, LeastNumber
  <2> USE DEF T
  <2>2. /\ j \in 0..MaxNode /\ at[j] # q[j]
        /\ at[j] = Step(at)[j] /\ q[j] = Step(q)[j]
    BY <1>4, <1>5
  <2>3. j # 0
    BY <2>2
  <2>4. j - 1 \in 0..MaxNode /\ ~(j <= j - 1)
    BY <1>3, <2>2, <2>3
  <2>5. at[j - 1] = q[j - 1]
    BY <2>1, <2>4
  <2>6. QED
    BY <2>2, <2>5
<1>7. Chain(s, head) = {at[j] : j \in 0..MaxNode} \ {0}
  BY DEF Chain, at
<1>8. ASSUME NEW n \in nodes PROVE \E j \in 0..MaxNode : q[j] = n
  <2>1. PICK i \in 1..k : o[i] = n
    BY <1>2 DEF Order
  <2>2. i - 1 \in 0..MaxNode /\ q[i - 1] = n
    BY <1>3, <2>1 DEF q
  <2>3. QED
    BY <2>2
<1>9. ASSUME NEW j \in 0..MaxNode, q[j] # 0 PROVE q[j] \in nodes
  <2>1. j < k /\ j + 1 \in 1..k /\ q[j] = o[j + 1]
    BY <1>3, <1>9 DEF q
  <2>2. QED
    BY <2>1
<1>10. QED
  BY <1>3, <1>6, <1>7, <1>8, <1>9

-----------------------------------------------------------------------------
(* Part one: the node free list.                                           *)

(* The node free list, given the nodes that are in use: it is a list of    *)
(* nodes with its tag; its numbers are in use by nobody, not nodes of the  *)
(* list, and listed once.                                                  *)
NodePart(s, used) ==
  /\ Linked(s.disk, s.nodelist, s.nodefree)
  /\ \A n \in s.nodelist : s.disk[n].tag = "nodes"
  /\ OnceEach(s.disk, s.nodelist)
  /\ AllIn(s.disk, s.nodelist, (1..s.nodecount) \ (used \union s.nodelist))
  /\ used \union s.nodelist \subseteq 1..s.nodecount
  /\ used \intersect s.nodelist = {}

(* The blocks the operations write are blocks.                             *)
LEMMA BlockTypes ==
  ASSUME NEW m \in 0..MaxNode, NEW r \in Nat
  PROVE  /\ TreeBlock \in Block
         /\ NodesBlock(m) \in Block
         /\ RowsBlock(m, r) \in Block
BY SpaceAssumption DEF TreeBlock, NodesBlock, RowsBlock, Block, Tag

(* The types of the fields of the dictionary and of a node.                *)
LEMMA IdxFields ==
  ASSUME NEW s \in Idx
  PROVE  /\ s.datacount \in 0..MaxRow /\ s.nodecount \in 0..MaxNode
         /\ s.datafree \in 0..MaxNode /\ s.nodefree \in 0..MaxNode
         /\ s.disk \in [Node -> Block]
         /\ s.datalist \subseteq Node /\ s.nodelist \subseteq Node
         /\ s.torn \in BOOLEAN
         /\ \A n \in Node : /\ s.disk[n] \in Block
                            /\ s.disk[n].next \in 0..MaxNode
                            /\ s.disk[n].ents \in Seq(Nat)
                            /\ Len(s.disk[n].ents) \in Nat
BY DEF Idx, Block

(* The head of the node free list carries its tag and no node in use is on *)
(* the list.                                                               *)
LEMMA NodePartFacts ==
  ASSUME NEW s \in Idx, NEW used, NodePart(s, used)
  PROVE  /\ s.nodefree \in s.nodelist \union {0}
         /\ s.nodefree # 0 => s.disk[s.nodefree].tag = "nodes"
         /\ 0 \notin s.nodelist
         /\ s.nodelist \subseteq Node
         /\ \A n \in used : n \notin s.nodelist /\ n # s.nodefree /\ n \in Node
<1>1. s.nodefree \in s.nodelist \union {0}
  BY IdxFields, LinkedFacts DEF NodePart
<1>2. 0 \notin s.nodelist /\ s.nodelist \subseteq Node
  BY IdxFields DEF Node
<1>3. s.nodefree # 0 => s.disk[s.nodefree].tag = "nodes"
  BY <1>1 DEF NodePart
<1>4. ASSUME NEW n \in used
      PROVE  n \notin s.nodelist /\ n # s.nodefree /\ n \in Node
  <2>1. n \notin s.nodelist /\ n \in 1..s.nodecount
    BY DEF NodePart
  <2>2. n \in Node
    BY <2>1, IdxFields, SpaceAssumption DEF Node
  <2>3. QED
    BY <1>1, <2>1, <2>2, SpaceAssumption DEF Node
<1>5. QED
  BY <1>1, <1>2, <1>3, <1>4

(* The node free list does not see what happens to other nodes, nor that a *)
(* node comes out of use.                                                  *)
LEMMA NodePartFrame ==
  ASSUME NEW s, NEW t, NEW used, NEW used2, NodePart(s, used),
         t.nodelist = s.nodelist, t.nodefree = s.nodefree,
         t.nodecount = s.nodecount, used2 \subseteq used,
         \A n \in s.nodelist : t.disk[n] = s.disk[n]
  PROVE  NodePart(t, used2)
<1>1. Linked(t.disk, t.nodelist, t.nodefree)
  BY LinkedSame DEF NodePart
<1>2. OnceEach(t.disk, t.nodelist)
  BY EntriesSame DEF NodePart
<1>3. AllIn(t.disk, t.nodelist, (1..t.nodecount) \ (used2 \union t.nodelist))
  BY DEF NodePart, AllIn
<1>4. QED
  BY <1>1, <1>2, <1>3 DEF NodePart

(* ivbnodefree, when the head is full or there is none: the node becomes   *)
(* the head.                                                               *)
LEMMA NodePush ==
  ASSUME NEW s \in Idx, NEW used, NodePart(s, used), NEW n \in used
  PROVE  /\ Pushed(s, n) \in Idx
         /\ NodePart(Pushed(s, n), used \ {n})
         /\ \A m \in Node \ {n} : Pushed(s, n).disk[m] = s.disk[m]
<1> DEFINE t == Pushed(s, n)
<1>1. /\ n \notin s.nodelist /\ n # s.nodefree /\ n \in Node
      /\ 0 \notin s.nodelist
      /\ s.nodelist \subseteq Node
  BY NodePartFacts
<1>2. /\ t.disk = [s.disk EXCEPT ![n] = NodesBlock(s.nodefree)]
      /\ t.nodefree = n /\ t.nodelist = s.nodelist \union {n}
      /\ t.datacount = s.datacount /\ t.nodecount = s.nodecount
  BY DEF Pushed, Idx
<1>3. NodesBlock(s.nodefree) \in Block
  BY BlockTypes, IdxFields
<1>4. t \in Idx
  <2>1. n \in 0..MaxNode /\ s.nodelist \union {n} \subseteq Node
    BY <1>1, SpaceAssumption DEF Node
  <2>2. [s.disk EXCEPT ![n] = NodesBlock(s.nodefree)] \in [Node -> Block]
    BY <1>1, <1>3, IdxFields
  <2>3. t = [s EXCEPT !.disk = t.disk, !.nodefree = n,
                      !.nodelist = s.nodelist \union {n}]
    BY DEF Pushed, Idx
  <2> HIDE DEF t
  <2>4. QED
    BY <1>2, <2>1, <2>2, <2>3 DEF Idx
<1>5. /\ \A m \in Node \ {n} : t.disk[m] = s.disk[m]
      /\ t.disk[n] = NodesBlock(s.nodefree)
  BY <1>1, <1>2, IdxFields
<1> HIDE DEF t
<1>6. Linked(t.disk, t.nodelist, t.nodefree)
  <2>1. Linked(s.disk, s.nodelist, s.nodefree)
    BY DEF NodePart
  <2>2. t.disk[n].next = s.nodefree
    BY <1>5 DEF NodesBlock
  <2>3. \A m \in s.nodelist : t.disk[m].next = s.disk[m].next
    BY <1>1, <1>5
  <2>4. Linked(t.disk, s.nodelist \union {n}, n)
    BY <1>1, <2>1, <2>2, <2>3, LinkedPush
  <2>5. QED
    BY <1>2, <2>4
<1>7. \A m \in t.nodelist : t.disk[m].tag = "nodes"
  BY <1>1, <1>2, <1>5 DEF NodePart, NodesBlock
<1>8. OnceEach(t.disk, t.nodelist)
      /\ AllIn(t.disk, t.nodelist, (1..s.nodecount) \ (used \union s.nodelist))
  <2>1. t.disk[n].ents = <<>>
    BY <1>5 DEF NodesBlock
  <2>2. \A m \in s.nodelist : t.disk[m].ents = s.disk[m].ents
    BY <1>1, <1>5
  <2>3. /\ OnceEach(s.disk, s.nodelist)
        /\ AllIn(s.disk, s.nodelist,
                 (1..s.nodecount) \ (used \union s.nodelist))
    BY DEF NodePart
  <2>4. /\ OnceEach(t.disk, s.nodelist \union {n})
        /\ AllIn(t.disk, s.nodelist \union {n},
                 (1..s.nodecount) \ (used \union s.nodelist))
    BY <1>1, <2>1, <2>2, <2>3, EntriesJoinEmpty
  <2>5. QED
    BY <1>2, <2>4
<1>9. used \union s.nodelist = (used \ {n}) \union t.nodelist
  BY <1>2
<1>10. NodePart(t, used \ {n})
  BY <1>1, <1>2, <1>6, <1>7, <1>8, <1>9 DEF NodePart
<1>11. QED
  BY <1>4, <1>5, <1>10 DEF t

(* ivbnodefree, when the head has room: the node is tagged and its number  *)
(* listed in the head.                                                     *)
NodeAppended(s, n) ==
  [Tagged(s, n) EXCEPT !.disk[s.nodefree].ents = Append(@, n)]

(* That keeps the node free list.                                          *)
LEMMA NodeAppend ==
  ASSUME NEW s \in Idx, NEW used, NodePart(s, used), NEW n \in used,
         s.nodefree # 0
  PROVE  /\ NodeAppended(s, n) \in Idx
         /\ NodePart(NodeAppended(s, n), used \ {n})
         /\ \A m \in Node \ (s.nodelist \union {n}) :
              NodeAppended(s, n).disk[m] = s.disk[m]
<1> DEFINE t == NodeAppended(s, n)
           h == s.nodefree
<1>1. /\ n \notin s.nodelist /\ n # h /\ n \in Node
      /\ h \in s.nodelist /\ s.nodelist \subseteq Node /\ h \in Node
  BY NodePartFacts
<1>2. /\ t.disk = [s.disk EXCEPT ![n] = NodesBlock(0),
                                 ![h].ents = Append(s.disk[h].ents, n)]
      /\ t.nodefree = h /\ t.nodelist = s.nodelist
      /\ t.datacount = s.datacount /\ t.nodecount = s.nodecount
  BY <1>1 DEF NodeAppended, Tagged, Idx
<1>3. /\ NodesBlock(0) \in Block
      /\ [s.disk[h] EXCEPT !.ents = Append(s.disk[h].ents, n)] \in Block
      /\ s.disk[h].ents \in Seq(Nat) /\ n \in Nat
  <2>1. NodesBlock(0) \in Block
    BY BlockTypes, SpaceAssumption
  <2>2. s.disk[h] \in Block /\ s.disk[h].ents \in Seq(Nat) /\ n \in Nat
    BY <1>1, IdxFields DEF Node
  <2>3. Append(s.disk[h].ents, n) \in Seq(Nat)
    BY <2>2
  <2>4. [s.disk[h] EXCEPT !.ents = Append(s.disk[h].ents, n)] \in Block
    BY <2>2, <2>3 DEF Block
  <2>5. QED
    BY <2>1, <2>2, <2>4
<1>4. /\ t.disk[n] = NodesBlock(0)
      /\ t.disk[h] = [s.disk[h] EXCEPT !.ents = Append(s.disk[h].ents, n)]
      /\ \A m \in Node \ {h, n} : t.disk[m] = s.disk[m]
      /\ t.disk \in [Node -> Block]
  <2>1. s.disk \in [Node -> Block]
    BY IdxFields
  <2>2. QED
    BY <1>1, <1>2, <1>3, <2>1
<1>5. t \in Idx
  <2>1. t = [s EXCEPT !.disk = t.disk]
    BY DEF NodeAppended, Tagged, Idx
  <2> HIDE DEF t
  <2>2. QED
    BY <1>4, <2>1 DEF Idx
<1>6. /\ t.disk[h].ents = Append(s.disk[h].ents, n)
      /\ t.disk[h].next = s.disk[h].next
      /\ t.disk[h].tag = s.disk[h].tag
  BY <1>1, <1>4, IdxFields DEF Block
<1> HIDE DEF t
<1>7. \A m \in s.nodelist : /\ t.disk[m].next = s.disk[m].next
                            /\ t.disk[m].tag = s.disk[m].tag
  BY <1>1, <1>4, <1>6
<1>8. Linked(t.disk, t.nodelist, t.nodefree)
  BY <1>2, <1>7, LinkedSame, Zenon DEF NodePart
<1>9. OnceEach(t.disk, t.nodelist)
      /\ AllIn(t.disk, t.nodelist,
               ((1..s.nodecount) \ (used \union s.nodelist)) \union {n})
  <2>1. \A m \in s.nodelist \ {h} : t.disk[m].ents = s.disk[m].ents
    BY <1>1, <1>4
  <2> DEFINE S == (1..s.nodecount) \ (used \union s.nodelist)
  <2>2. OnceEach(s.disk, s.nodelist) /\ AllIn(s.disk, s.nodelist, S)
    BY DEF NodePart
  <2>3. n \notin S
    OBVIOUS
  <2>4. h \in s.nodelist /\ s.disk[h].ents \in Seq(Nat) /\ n \in Nat
        /\ t.disk[h].ents = Append(s.disk[h].ents, n)
    BY <1>1, <1>3, <1>6
  <2> HIDE DEF S, h
  <2>5. /\ OnceEach(t.disk, s.nodelist)
        /\ AllIn(t.disk, s.nodelist, S \union {n})
    BY <2>1, <2>2, <2>3, <2>4, EntriesAppend
  <2>6. QED
    BY <1>2, <2>5 DEF S
<1>10. ((1..s.nodecount) \ (used \union s.nodelist)) \union {n}
         = (1..t.nodecount) \ ((used \ {n}) \union t.nodelist)
  BY <1>1, <1>2 DEF NodePart
<1>11. NodePart(t, used \ {n})
  BY <1>2, <1>7, <1>8, <1>9, <1>10 DEF NodePart
<1>12. QED
  BY <1>1, <1>4, <1>5, <1>11 DEF t

(* A node as ivbnodefree may leave it: the write of its tag may have been  *)
(* made before the one that failed.                                        *)
Half(s, t, n) == t.disk[n] = s.disk[n] \/ t.disk[n] = NodesBlock(0)

(* What ivbnodefree may do to the node free list when the node n, in use   *)
(* until now, is given back.                                               *)
NodeFreed(s, used, n, o) ==
  LET t == o.s
  IN  /\ t \in Idx
      /\ t.datacount = s.datacount /\ t.datafree = s.datafree
      /\ t.datalist = s.datalist /\ t.nodecount = s.nodecount
      /\ \A m \in Node \ (s.nodelist \union {n}) : t.disk[m] = s.disk[m]
      /\ \/ /\ o.ret = 0 /\ t.torn = s.torn
            /\ NodePart(t, used \ {n})
         \/ /\ o.ret = -1 /\ t.torn
            /\ NodePart(t, used) /\ Half(s, t, n)

(* ivbnodefree frees the node, or fails and leaves it in use, with its     *)
(* content or with the tag of a free node.                                 *)
LEMMA NodeFree ==
  ASSUME NEW s \in Idx, NEW used, NodePart(s, used), NEW n \in used,
         NEW f \in Faults
  PROVE  NodeFreed(s, used, n, ivbnodefree(s, n, f))
<1> DEFINE o == ivbnodefree(s, n, f)
           t == o.s
           h == s.nodefree
<1>1. /\ n \notin s.nodelist /\ n # h /\ n \in Node
      /\ h \in s.nodelist \union {0} /\ s.nodelist \subseteq Node
      /\ h # 0 => s.disk[h].tag = "nodes"
  BY NodePartFacts
<1>2. \/ o = Fail(s)
      \/ o = Done(Pushed(s, n), 0)
      \/ o = Fail(Tagged(s, n))
      \/ h # 0 /\ o = Done(NodeAppended(s, n), 0)
  BY <1>1 DEF ivbnodefree, NodeAppended
<1>3. CASE o = Fail(s)
  <2>1. t = [s EXCEPT !.torn = TRUE] /\ o.ret = -1
    BY <1>3 DEF Fail, Done
  <2>2. t \in Idx
    BY <2>1 DEF Idx
  <2>3. /\ t.disk = s.disk /\ t.nodelist = s.nodelist /\ t.torn
        /\ t.nodefree = s.nodefree /\ t.nodecount = s.nodecount
        /\ t.datacount = s.datacount /\ t.datafree = s.datafree
        /\ t.datalist = s.datalist
    BY <2>1 DEF Idx
  <2>4. NodePart(t, used)
    BY <2>3, NodePartFrame
  <2>5. QED
    BY <2>1, <2>2, <2>3, <2>4 DEF Half, NodeFreed
<1>4. CASE o = Fail(Tagged(s, n))
  <2>1. /\ t = [Tagged(s, n) EXCEPT !.torn = TRUE]
        /\ o.ret = -1
    BY <1>4 DEF Fail, Done
  <2>2. /\ t.disk = [s.disk EXCEPT ![n] = NodesBlock(0)]
        /\ t.nodelist = s.nodelist /\ t.torn
        /\ t.nodefree = s.nodefree /\ t.nodecount = s.nodecount
        /\ t.datacount = s.datacount /\ t.datafree = s.datafree
        /\ t.datalist = s.datalist
    BY <2>1 DEF Tagged, Idx
  <2>3. NodesBlock(0) \in Block /\ s.disk \in [Node -> Block]
    BY BlockTypes, IdxFields, SpaceAssumption
  <2>4. t \in Idx
    <3>1. [s.disk EXCEPT ![n] = NodesBlock(0)] \in [Node -> Block]
      BY <1>1, <2>3
    <3>2. Tagged(s, n) \in Idx
      BY <3>1 DEF Tagged, Idx
    <3>3. QED
      BY <2>1, <3>2 DEF Idx
  <2>5. /\ \A m \in Node \ {n} : t.disk[m] = s.disk[m]
        /\ t.disk[n] = NodesBlock(0)
    BY <1>1, <2>2, <2>3
  <2>6. \A m \in s.nodelist : t.disk[m] = s.disk[m]
    BY <1>1, <2>5
  <2>7. NodePart(t, used)
    BY <2>2, <2>6, NodePartFrame
  <2>8. QED
    BY <2>1, <2>2, <2>4, <2>5, <2>7 DEF Half, NodeFreed
<1>5. CASE o = Done(Pushed(s, n), 0)
  <2>1. t = Pushed(s, n) /\ o.ret = 0
    BY <1>5 DEF Done
  <2>2. /\ t.torn = s.torn /\ t.nodecount = s.nodecount
        /\ t.datacount = s.datacount /\ t.datafree = s.datafree
        /\ t.datalist = s.datalist
    BY <2>1 DEF Pushed, Idx
  <2>3. QED
    BY <2>1, <2>2, NodePush DEF NodeFreed
<1>6. CASE h # 0 /\ o = Done(NodeAppended(s, n), 0)
  <2>1. t = NodeAppended(s, n) /\ o.ret = 0
    BY <1>6 DEF Done
  <2>2. /\ t.torn = s.torn /\ t.nodecount = s.nodecount
        /\ t.datacount = s.datacount /\ t.datafree = s.datafree
        /\ t.datalist = s.datalist
    BY <2>1 DEF NodeAppended, Tagged, Idx
  <2>3. QED
    BY <1>6, <2>1, <2>2, NodeAppend DEF NodeFreed
<1>7. QED
  BY <1>2, <1>3, <1>4, <1>5, <1>6

(* tvbnodecountgetnext hands out a node nobody has used.                   *)
LEMMA NodeCount ==
  ASSUME NEW s \in Idx, NEW used, NodePart(s, used), s.nodecount < MaxNode
  PROVE  LET n == s.nodecount + 1
             t == [s EXCEPT !.nodecount = n]
         IN  t \in Idx /\ n \in Node \ used /\ NodePart(t, used \union {n})
<1> DEFINE n == s.nodecount + 1
           t == [s EXCEPT !.nodecount = n]
<1>1. s.nodecount \in Nat /\ n \in Node /\ n \in 0..MaxNode
  BY IdxFields, SpaceAssumption DEF Node
<1>2. /\ t \in Idx /\ t.nodecount = n /\ t.disk = s.disk
      /\ t.nodelist = s.nodelist /\ t.nodefree = s.nodefree
  BY <1>1 DEF Idx
<1>3. n \notin used \union s.nodelist
  BY <1>1 DEF NodePart
<1>4. AllIn(t.disk, t.nodelist, (1..n) \ ((used \union {n}) \union t.nodelist))
  <2>1. ASSUME NEW v \in (1..s.nodecount) \ (used \union s.nodelist)
        PROVE  v \in (1..n) \ ((used \union {n}) \union s.nodelist)
    BY <1>1
  <2> HIDE DEF n, t
  <2>2. QED
    BY <1>2, <2>1 DEF NodePart, AllIn
<1>5. (used \union {n}) \union s.nodelist \subseteq 1..n
  <2>1. used \union s.nodelist \subseteq 1..s.nodecount
    BY DEF NodePart
  <2>2. QED
    BY <1>1, <2>1
<1> HIDE DEF n, t
<1>6. NodePart(t, used \union {n})
  BY <1>2, <1>3, <1>4, <1>5 DEF NodePart
<1>7. QED
  BY <1>1, <1>2, <1>3, <1>6 DEF n, t

(* tvbnodeallocate, when the head lists a number: it comes out of the list *)
(* and is in use by nobody.                                                *)
LEMMA NodeDrop ==
  ASSUME NEW s \in Idx, NEW used, NodePart(s, used), s.nodefree # 0,
         s.disk[s.nodefree].ents # <<>>
  PROVE  LET h == s.nodefree
             n == s.disk[h].ents[1]
             t == [s EXCEPT !.disk[h].ents = Without(@, 1)]
         IN  /\ t \in Idx /\ n \in Node \ used
             /\ NodePart(t, used \union {n})
             /\ \A m \in Node \ s.nodelist : t.disk[m] = s.disk[m]
<1> DEFINE h == s.nodefree
           e == s.disk[h].ents
           n == e[1]
           t == [s EXCEPT !.disk[h].ents = Without(@, 1)]
<1>1. /\ h \in s.nodelist /\ s.nodelist \subseteq Node /\ h \in Node
      /\ s.disk[h] \in Block /\ s.disk \in [Node -> Block]
  BY NodePartFacts, IdxFields
<1>2. e \in Seq(Nat) /\ 1 \in 1..Len(e)
  BY <1>1, IdxFields
<1>3. Without(e, 1) \in Seq(Nat)
  <2> HIDE DEF e
  <2>1. QED
    BY <1>2, WithoutFacts
<1>4. [s.disk[h] EXCEPT !.ents = Without(e, 1)] \in Block
  BY <1>1, <1>3 DEF Block
<1>5. /\ t = [s EXCEPT !.disk = t.disk]
      /\ t.disk = [s.disk EXCEPT ![h] = [@ EXCEPT !.ents = Without(e, 1)]]
      /\ t.nodelist = s.nodelist /\ t.nodefree = s.nodefree
      /\ t.nodecount = s.nodecount
  BY DEF Idx
<1> HIDE DEF t
<1>6. /\ t.disk \in [Node -> Block]
      /\ t.disk[h] = [s.disk[h] EXCEPT !.ents = Without(e, 1)]
      /\ \A m \in Node \ {h} : t.disk[m] = s.disk[m]
  BY <1>1, <1>4, <1>5
<1>7. t \in Idx
  BY <1>5, <1>6 DEF Idx
<1>8. /\ t.disk[h].ents = Without(e, 1)
      /\ t.disk[h].next = s.disk[h].next
      /\ t.disk[h].tag = s.disk[h].tag
  BY <1>1, <1>6 DEF Block
<1>9. \A m \in s.nodelist : /\ t.disk[m].next = s.disk[m].next
                            /\ t.disk[m].tag = s.disk[m].tag
  BY <1>1, <1>6, <1>8
<1>10. Linked(t.disk, t.nodelist, t.nodefree)
  <2>1. Linked(s.disk, s.nodelist, s.nodefree)
    BY DEF NodePart
  <2>2. Linked(t.disk, s.nodelist, s.nodefree)
    BY <1>9, <2>1, LinkedSame
  <2>3. QED
    BY <1>5, <2>2
<1> DEFINE S == (1..s.nodecount) \ (used \union s.nodelist)
<1>11. n \in S
  BY <1>1, <1>2 DEF NodePart, AllIn
<1>12. OnceEach(t.disk, s.nodelist) /\ AllIn(t.disk, s.nodelist, S \ {n})
  <2>1. \A m \in s.nodelist \ {h} : t.disk[m].ents = s.disk[m].ents
    BY <1>1, <1>6
  <2>2. OnceEach(s.disk, s.nodelist) /\ AllIn(s.disk, s.nodelist, S)
    BY DEF NodePart
  <2>3. Dropped(s.disk, t.disk, s.nodelist, h, 1, n)
    BY <1>1, <1>2, <1>8, <2>1 DEF Dropped
  <2> HIDE DEF S, h, n
  <2>4. QED
    BY <2>2, <2>3, EntriesDrop
<1>13. S \ {n} = (1..t.nodecount) \ ((used \union {n}) \union t.nodelist)
  BY <1>5
<1>14. /\ n \in Node \ used /\ n \notin s.nodelist
       /\ (used \union {n}) \union s.nodelist \subseteq 1..s.nodecount
  <2>1. s.nodecount \in 0..MaxNode
    BY IdxFields
  <2>2. QED
    BY <1>11, <2>1, SpaceAssumption DEF NodePart, Node
<1> HIDE DEF S, n
<1>15. NodePart(t, used \union {n})
  BY <1>5, <1>9, <1>10, <1>12, <1>13, <1>14 DEF NodePart
<1>16. QED
  BY <1>1, <1>6, <1>7, <1>14, <1>15 DEF t, n

(* tvbnodeallocate, when the head lists nothing: the head itself is handed *)
(* out.                                                                    *)
LEMMA NodePop ==
  ASSUME NEW s \in Idx, NEW used, NodePart(s, used), s.nodefree # 0,
         s.disk[s.nodefree].ents = <<>>
  PROVE  LET n == s.nodefree
             t == [s EXCEPT !.nodefree = s.disk[n].next,
                            !.nodelist = @ \ {n}]
         IN  t \in Idx /\ n \in Node \ used /\ NodePart(t, used \union {n})
<1> DEFINE n == s.nodefree
           t == [s EXCEPT !.nodefree = s.disk[n].next, !.nodelist = @ \ {n}]
<1>1. /\ n \in s.nodelist /\ s.nodelist \subseteq Node /\ n \in Node
      /\ s.disk[n].next \in 0..MaxNode /\ n \notin used
  BY NodePartFacts, IdxFields DEF NodePart
<1>2. /\ t \in Idx /\ t.disk = s.disk /\ t.nodelist = s.nodelist \ {n}
      /\ t.nodefree = s.disk[n].next /\ t.nodecount = s.nodecount
  BY <1>1 DEF Idx
<1> HIDE DEF t
<1>3. Linked(s.disk, s.nodelist \ {n}, s.disk[n].next)
  BY LinkedPop DEF NodePart
<1> DEFINE S == (1..s.nodecount) \ (used \union s.nodelist)
<1>4. /\ OnceEach(s.disk, s.nodelist \ {n})
      /\ AllIn(s.disk, s.nodelist \ {n}, S)
  <2>1. OnceEach(s.disk, s.nodelist) /\ AllIn(s.disk, s.nodelist, S)
    BY DEF NodePart
  <2> HIDE DEF S, n
  <2>2. QED
    BY <2>1, EntriesLeave
<1>5. S = (1..t.nodecount) \ ((used \union {n}) \union t.nodelist)
  BY <1>1, <1>2
<1> HIDE DEF S, n
<1>6. NodePart(t, used \union {n})
  BY <1>1, <1>2, <1>3, <1>4, <1>5 DEF NodePart
<1>7. QED
  BY <1>1, <1>2, <1>6 DEF t, n

(* tvbnodeallocate hands out a node that is not in use, and changes no     *)
(* node outside its list.                                                  *)
LEMMA NodeAlloc ==
  ASSUME NEW s \in Idx, NEW used, NodePart(s, used), NEW f \in Faults,
         s.nodecount < MaxNode \/ s.nodefree # 0
  PROVE  LET o == tvbnodeallocate(s, f)
             t == o.s
         IN  /\ t \in Idx
             /\ t.datacount = s.datacount /\ t.datafree = s.datafree
             /\ t.datalist = s.datalist
             /\ t.nodecount \in {s.nodecount, s.nodecount + 1}
             /\ \A m \in Node \ s.nodelist : t.disk[m] = s.disk[m]
             /\ \/ o.ret = -1 /\ t.torn /\ NodePart(t, used)
                \/ /\ o.ret \in Node \ used /\ t.torn = s.torn
                   /\ NodePart(t, used \union {o.ret})
<1> DEFINE o == tvbnodeallocate(s, f)
           t == o.s
           h == s.nodefree
<1>1. h # 0 => s.disk[h].tag = "nodes"
  BY NodePartFacts
<1>2. s.nodecount \in Nat
  BY IdxFields
<1>3. CASE h = 0
  <2> DEFINE n == s.nodecount + 1
             u == [s EXCEPT !.nodecount = n]
  <2>1. o = Done(u, n)
    BY <1>3 DEF tvbnodeallocate, tvbnodecountgetnext
  <2>2. t = u /\ o.ret = n
    BY <2>1 DEF Done
  <2>3. u \in Idx /\ n \in Node \ used /\ NodePart(u, used \union {n})
    BY <1>3, NodeCount
  <2>4. /\ u.datacount = s.datacount /\ u.datafree = s.datafree
        /\ u.datalist = s.datalist /\ u.nodecount = s.nodecount + 1
        /\ u.disk = s.disk /\ u.torn = s.torn
    BY DEF Idx
  <2>5. QED
    BY <2>2, <2>3, <2>4
<1>4. CASE h # 0 /\ s.disk[h].ents # <<>> /\ f = 1
  <2>1. o = Fail(s)
    BY <1>1, <1>4 DEF tvbnodeallocate
  <2>2. t = [s EXCEPT !.torn = TRUE] /\ o.ret = -1
    BY <2>1 DEF Fail, Done
  <2>3. /\ t \in Idx /\ t.disk = s.disk /\ t.nodelist = s.nodelist /\ t.torn
        /\ t.nodefree = s.nodefree /\ t.nodecount = s.nodecount
        /\ t.datacount = s.datacount /\ t.datafree = s.datafree
        /\ t.datalist = s.datalist
    BY <2>2 DEF Idx
  <2>4. NodePart(t, used)
    BY <2>3, NodePartFrame
  <2>5. QED
    BY <2>2, <2>3, <2>4
<1>5. CASE h # 0 /\ s.disk[h].ents # <<>> /\ f # 1
  <2> DEFINE n == s.disk[h].ents[1]
             u == [s EXCEPT !.disk[h].ents = Without(@, 1)]
  <2>1. o = Done(u, n)
    BY <1>1, <1>5 DEF tvbnodeallocate
  <2>2. t = u /\ o.ret = n
    BY <2>1 DEF Done
  <2>3. /\ u \in Idx /\ n \in Node \ used
        /\ NodePart(u, used \union {n})
        /\ \A m \in Node \ s.nodelist : u.disk[m] = s.disk[m]
    BY <1>5, NodeDrop
  <2>4. /\ u.datacount = s.datacount /\ u.datafree = s.datafree
        /\ u.datalist = s.datalist /\ u.nodecount = s.nodecount
        /\ u.torn = s.torn
    BY DEF Idx
  <2>5. QED
    BY <2>2, <2>3, <2>4
<1>6. CASE h # 0 /\ s.disk[h].ents = <<>>
  <2> DEFINE u == [s EXCEPT !.nodefree = s.disk[h].next,
                            !.nodelist = @ \ {h}]
  <2>1. o = Done(u, h)
    BY <1>1, <1>6 DEF tvbnodeallocate
  <2>2. t = u /\ o.ret = h
    BY <2>1 DEF Done
  <2>3. u \in Idx /\ h \in Node \ used /\ NodePart(u, used \union {h})
    BY <1>6, NodePop
  <2>4. /\ u.datacount = s.datacount /\ u.datafree = s.datafree
        /\ u.datalist = s.datalist /\ u.nodecount = s.nodecount
        /\ u.disk = s.disk /\ u.torn = s.torn
    BY DEF Idx
  <2>5. QED
    BY <2>2, <2>3, <2>4
<1>7. QED
  BY <1>3, <1>4, <1>5, <1>6

-----------------------------------------------------------------------------
(* Part two: the data free list.                                           *)

(* A failed write has turned the head of the data free list into a free    *)
(* node (tvbdataallocate tags it before the write that fails): the list is *)
(* behind it, and the code refuses to go there.                            *)
Lost(s) ==
  /\ s.torn
  /\ s.datafree # 0 /\ s.datafree \notin s.datalist
  /\ s.disk[s.datafree].tag # "rows"

(* The data free list, given the rows that are taken: a list of nodes with *)
(* its tag that the dictionary leads to, unless it is lost; no node is     *)
(* empty; its rows lie below the row count, are not taken and are listed   *)
(* once; and without a failed write it holds every other row.              *)
RowPart(s, taken) ==
  /\ \E first : /\ Linked(s.disk, s.datalist, first)
                /\ s.datafree = first \/ Lost(s)
  /\ \A n \in s.datalist : s.disk[n].tag = "rows" /\ s.disk[n].ents # <<>>
  /\ OnceEach(s.disk, s.datalist)
  /\ AllIn(s.disk, s.datalist, (1..s.datacount) \ taken)
  /\ taken \subseteq 1..s.datacount
  /\ ~s.torn => \A r \in (1..s.datacount) \ taken :
                  Holds(s.disk, s.datalist, r)

(* The dictionary leads to a node of the list or nowhere, unless the list  *)
(* is lost, and the pointers stay within it.                               *)
LEMMA RowPartFacts ==
  ASSUME NEW s \in Idx, NEW taken, RowPart(s, taken)
  PROVE  /\ s.datalist \subseteq Node /\ 0 \notin s.datalist
         /\ \/ s.datafree \in s.datalist \union {0}
               /\ Linked(s.disk, s.datalist, s.datafree)
            \/ Lost(s)
         /\ \A n \in s.datalist : s.disk[n].next \in s.datalist \union {0}
         /\ taken \subseteq Row
<1>1. s.datalist \subseteq Node /\ 0 \notin s.datalist
  BY IdxFields DEF Node
<1>2. PICK first : /\ Linked(s.disk, s.datalist, first)
                   /\ s.datafree = first \/ Lost(s)
  BY DEF RowPart
<1>3. /\ first \in s.datalist \union {0}
      /\ \A n \in s.datalist : s.disk[n].next \in s.datalist \union {0}
  BY <1>1, <1>2, LinkedFacts
<1>4. taken \subseteq Row
  <2>1. s.datacount \in 0..MaxRow
    BY IdxFields
  <2>2. QED
    BY <2>1, SpaceAssumption DEF RowPart, Row
<1>5. QED
  BY <1>1, <1>2, <1>3, <1>4

(* The data free list does not see what happens to other nodes; after a    *)
(* failed write rows may be given up for lost.                             *)
LEMMA RowPartFrame ==
  ASSUME NEW s \in Idx, NEW t, NEW taken, NEW taken2, RowPart(s, taken),
         t.datacount = s.datacount, t.datafree = s.datafree,
         t.datalist = s.datalist,
         \A n \in s.datalist : t.disk[n] = s.disk[n],
         Lost(s) => t.disk[s.datafree].tag # "rows",
         s.torn => t.torn,
         taken2 \subseteq taken, t.torn \/ taken2 = taken
  PROVE  RowPart(t, taken2)
<1>1. PICK first : /\ Linked(s.disk, s.datalist, first)
                   /\ s.datafree = first \/ Lost(s)
  BY DEF RowPart
<1>2. Linked(t.disk, s.datalist, first)
  BY <1>1, LinkedSame
<1>3. Lost(s) => Lost(t)
  BY DEF Lost
<1>4. OnceEach(t.disk, s.datalist)
  BY EntriesSame DEF RowPart
<1>5. AllIn(t.disk, s.datalist, (1..s.datacount) \ taken2)
  BY DEF RowPart, AllIn
<1>6. \A v : Holds(s.disk, s.datalist, v) => Holds(t.disk, s.datalist, v)
  BY EntriesSame
<1>7. \A n \in s.datalist : t.disk[n].tag = "rows" /\ t.disk[n].ents # <<>>
  BY DEF RowPart
<1>8. taken2 \subseteq 1..s.datacount
  BY DEF RowPart
<1>9. ~t.torn => \A r \in (1..s.datacount) \ taken2 :
                   Holds(t.disk, s.datalist, r)
  BY <1>6 DEF RowPart
<1>10. QED
  BY <1>1, <1>2, <1>3, <1>4, <1>5, <1>7, <1>8, <1>9 DEF RowPart

(* ivbdatafree of the last row of the file: the row count goes down.       *)
LEMMA RowCountDown ==
  ASSUME NEW s \in Idx, NEW taken, RowPart(s, taken),
         s.datacount \in taken
  PROVE  LET t == [s EXCEPT !.datacount = s.datacount - 1]
         IN  t \in Idx /\ RowPart(t, taken \ {s.datacount})
<1> DEFINE r == s.datacount
           t == [s EXCEPT !.datacount = r - 1]
<1>1. r \in 0..MaxRow /\ r \in 1..r
  BY IdxFields DEF RowPart
<1>2. /\ t \in Idx /\ t.datacount = r - 1 /\ t.datafree = s.datafree
      /\ t.datalist = s.datalist /\ t.disk = s.disk /\ t.torn = s.torn
  BY <1>1, SpaceAssumption DEF Idx
<1>3. (1..(r - 1)) \ (taken \ {r}) = (1..r) \ taken
  BY <1>1
<1>4. taken \ {r} \subseteq 1..(r - 1)
  <2>1. ASSUME NEW v \in taken \ {r} PROVE v \in 1..(r - 1)
    <3>1. v \in 1..r /\ v # r
      BY DEF RowPart
    <3>2. QED
      BY <1>1, <3>1
  <2>2. QED
    BY <2>1
<1> HIDE DEF t
<1>5. RowPart(t, taken \ {r})
  BY <1>2, <1>3, <1>4 DEF RowPart, Lost
<1>6. QED
  BY <1>2, <1>5 DEF t

(* The row count goes up, and the rows in between are taken: by one row in *)
(* tvbdatacountgetnext, by a gap in ivbforcedataallocate.                  *)
LEMMA RowCountUp ==
  ASSUME NEW s \in Idx, NEW taken, RowPart(s, taken),
         NEW r \in Row, s.datacount < r
  PROVE  LET t == [s EXCEPT !.datacount = r]
         IN  /\ t \in Idx
             /\ RowPart(t, taken \union ((s.datacount + 1)..r))
<1> DEFINE c == s.datacount
           more == (c + 1)..r
           t == [s EXCEPT !.datacount = r]
<1>1. c \in Nat /\ r \in Nat /\ r \in 0..MaxRow /\ c < r
  BY IdxFields, SpaceAssumption DEF Row
<1>2. /\ t \in Idx /\ t.datacount = r /\ t.datafree = s.datafree
      /\ t.datalist = s.datalist /\ t.disk = s.disk /\ t.torn = s.torn
  BY <1>1 DEF Idx
<1>3. taken \subseteq 1..c
  BY DEF RowPart
<1> HIDE DEF t, c
<1>4. (1..r) \ (taken \union more) = (1..c) \ taken
  <2>1. ASSUME NEW v PROVE v \in (1..r) \ more <=> v \in 1..c
    BY <1>1
  <2>2. QED
    BY <2>1
<1>5. taken \union more \subseteq 1..r
  BY <1>1, <1>3
<1> HIDE DEF more
<1>6. RowPart(t, taken \union more)
  BY <1>2, <1>4, <1>5 DEF RowPart, Lost, c
<1>7. QED
  BY <1>2, <1>6 DEF t, more, c

(* ivbdatafree, when the head has room: the row is appended to it.         *)
LEMMA RowAppend ==
  ASSUME NEW s \in Idx, NEW taken, RowPart(s, taken), NEW r \in taken,
         s.datafree # 0, s.disk[s.datafree].tag = "rows"
  PROVE  LET h == s.datafree
             t == [s EXCEPT !.disk[h].ents = Append(@, r)]
         IN  /\ t \in Idx /\ RowPart(t, taken \ {r})
             /\ \A m \in Node \ s.datalist : t.disk[m] = s.disk[m]
<1> DEFINE h == s.datafree
           e == s.disk[h].ents
           t == [s EXCEPT !.disk[h].ents = Append(@, r)]
<1>1. /\ h \in s.datalist /\ h \in Node /\ s.datalist \subseteq Node
      /\ Linked(s.disk, s.datalist, h)
      /\ s.disk \in [Node -> Block] /\ s.disk[h] \in Block
      /\ e \in Seq(Nat) /\ r \in Nat /\ r \in 1..s.datacount
  <2>1. ~Lost(s)
    BY DEF Lost
  <2>2. /\ h \in s.datalist /\ h \in Node /\ s.datalist \subseteq Node
        /\ Linked(s.disk, s.datalist, h)
    BY <2>1, RowPartFacts
  <2>3. r \in 1..s.datacount /\ r \in Nat
    BY DEF RowPart
  <2>4. QED
    BY <2>2, <2>3, IdxFields
<1>2. Append(e, r) \in Seq(Nat) /\ Append(e, r) # <<>>
  <2> HIDE DEF e
  <2>1. Append(e, r) \in Seq(Nat) /\ Len(Append(e, r)) # 0
    BY <1>1
  <2>2. QED
    BY <2>1
<1>3. [s.disk[h] EXCEPT !.ents = Append(e, r)] \in Block
  BY <1>1, <1>2 DEF Block
<1>4. /\ t = [s EXCEPT !.disk = t.disk]
      /\ t.disk = [s.disk EXCEPT ![h] = [@ EXCEPT !.ents = Append(e, r)]]
      /\ t.datalist = s.datalist /\ t.datafree = s.datafree
      /\ t.datacount = s.datacount /\ t.torn = s.torn
  BY DEF Idx
<1> HIDE DEF t
<1>5. /\ t.disk \in [Node -> Block]
      /\ t.disk[h] = [s.disk[h] EXCEPT !.ents = Append(e, r)]
      /\ \A m \in Node \ {h} : t.disk[m] = s.disk[m]
  BY <1>1, <1>3, <1>4
<1>6. t \in Idx
  BY <1>4, <1>5 DEF Idx
<1>7. /\ t.disk[h].ents = Append(e, r)
      /\ t.disk[h].next = s.disk[h].next
      /\ t.disk[h].tag = s.disk[h].tag
  BY <1>1, <1>5 DEF Block
<1>8. \A m \in s.datalist : /\ t.disk[m].next = s.disk[m].next
                            /\ t.disk[m].tag = s.disk[m].tag
                            /\ t.disk[m].ents # <<>>
  BY <1>1, <1>2, <1>5, <1>7 DEF RowPart
<1>9. Linked(t.disk, s.datalist, h)
  BY <1>1, <1>8, LinkedSame
<1> DEFINE S == (1..s.datacount) \ taken
<1>10. /\ OnceEach(t.disk, s.datalist)
       /\ AllIn(t.disk, s.datalist, S \union {r})
       /\ Holds(t.disk, s.datalist, r)
       /\ \A v : Holds(s.disk, s.datalist, v) => Holds(t.disk, s.datalist, v)
  <2>1. \A m \in s.datalist \ {h} : t.disk[m].ents = s.disk[m].ents
    BY <1>1, <1>5
  <2>2. OnceEach(s.disk, s.datalist) /\ AllIn(s.disk, s.datalist, S)
    BY DEF RowPart
  <2>3. r \notin S
    OBVIOUS
  <2> HIDE DEF S, h
  <2>4. QED
    BY <1>1, <1>7, <2>1, <2>2, <2>3, EntriesAppend, ZenonT(30)
<1>11. S \union {r} = (1..s.datacount) \ (taken \ {r})
  BY <1>1
<1>12. ~t.torn => \A v \in (1..s.datacount) \ (taken \ {r}) :
                    Holds(t.disk, s.datalist, v)
  BY <1>4, <1>10, <1>11 DEF RowPart
<1> HIDE DEF S, h, e
<1>13. RowPart(t, taken \ {r})
  BY <1>1, <1>4, <1>8, <1>9, <1>10, <1>11, <1>12 DEF RowPart, h
<1>14. QED
  BY <1>1, <1>5, <1>6, <1>13 DEF t, h

(* ivbdatafree, when the head is full or there is none: a new node with    *)
(* the row becomes the head.                                               *)
LEMMA RowPush ==
  ASSUME NEW s \in Idx, NEW taken, RowPart(s, taken), NEW r \in taken,
         ~Lost(s), NEW n \in Node, n \notin s.datalist
  PROVE  LET h == s.datafree
             t == [s EXCEPT !.disk[n] = RowsBlock(h, r), !.datafree = n,
                            !.datalist = @ \union {n}]
         IN  /\ t \in Idx /\ RowPart(t, taken \ {r})
             /\ \A m \in Node \ {n} : t.disk[m] = s.disk[m]
<1> DEFINE h == s.datafree
           t == [s EXCEPT !.disk[n] = RowsBlock(h, r), !.datafree = n,
                          !.datalist = @ \union {n}]
<1>1. /\ s.datalist \subseteq Node /\ 0 \notin s.datalist
      /\ Linked(s.disk, s.datalist, h)
      /\ s.disk \in [Node -> Block]
      /\ h \in 0..MaxNode /\ r \in Nat /\ r \in 1..s.datacount
  <2>1. /\ s.datalist \subseteq Node /\ 0 \notin s.datalist
        /\ Linked(s.disk, s.datalist, h)
    BY RowPartFacts
  <2>2. r \in 1..s.datacount /\ r \in Nat
    BY DEF RowPart
  <2>3. QED
    BY <2>1, <2>2, IdxFields
<1>2. RowsBlock(h, r) \in Block
  BY <1>1, BlockTypes
<1>3. /\ t = [s EXCEPT !.disk = t.disk, !.datafree = n,
                       !.datalist = s.datalist \union {n}]
      /\ t.disk = [s.disk EXCEPT ![n] = RowsBlock(h, r)]
      /\ t.datalist = s.datalist \union {n} /\ t.datafree = n
      /\ t.datacount = s.datacount /\ t.torn = s.torn
  BY DEF Idx
<1> HIDE DEF t
<1>4. /\ t.disk \in [Node -> Block]
      /\ t.disk[n] = RowsBlock(h, r)
      /\ \A m \in Node \ {n} : t.disk[m] = s.disk[m]
  BY <1>1, <1>2, <1>3
<1>5. t \in Idx
  <2>1. n \in 0..MaxNode /\ s.datalist \union {n} \subseteq Node
    BY <1>1, SpaceAssumption DEF Node
  <2>2. QED
    BY <1>3, <1>4, <2>1 DEF Idx
<1>6. /\ t.disk[n].ents = <<r>> /\ t.disk[n].next = h
      /\ t.disk[n].tag = "rows" /\ <<r>> # <<>>
  BY <1>4 DEF RowsBlock
<1>7. \A m \in s.datalist : t.disk[m] = s.disk[m]
  BY <1>1, <1>4
<1>8. Linked(t.disk, s.datalist \union {n}, n)
  BY <1>1, <1>6, <1>7, LinkedPush
<1> DEFINE S == (1..s.datacount) \ taken
<1>9. /\ OnceEach(t.disk, s.datalist \union {n})
      /\ AllIn(t.disk, s.datalist \union {n}, S \union {r})
      /\ Holds(t.disk, s.datalist \union {n}, r)
      /\ \A v : Holds(s.disk, s.datalist, v) =>
                Holds(t.disk, s.datalist \union {n}, v)
  <2>1. OnceEach(s.disk, s.datalist) /\ AllIn(s.disk, s.datalist, S)
    BY DEF RowPart
  <2>2. r \notin S /\ \A m \in s.datalist : t.disk[m].ents = s.disk[m].ents
    BY <1>7
  <2> HIDE DEF S
  <2>3. QED
    BY <1>6, <2>1, <2>2, EntriesJoin
<1>10. S \union {r} = (1..s.datacount) \ (taken \ {r})
  BY <1>1
<1>11. ~t.torn => \A v \in (1..s.datacount) \ (taken \ {r}) :
                    Holds(t.disk, s.datalist \union {n}, v)
  BY <1>3, <1>9, <1>10 DEF RowPart
<1>12. \A m \in t.datalist : t.disk[m].tag = "rows" /\ t.disk[m].ents # <<>>
  BY <1>3, <1>6, <1>7 DEF RowPart
<1>13. taken \ {r} \subseteq 1..s.datacount
  BY DEF RowPart
<1> HIDE DEF S, h
<1>14. RowPart(t, taken \ {r})
  BY <1>3, <1>8, <1>9, <1>10, <1>11, <1>12, <1>13 DEF RowPart
<1>15. QED
  BY <1>4, <1>5, <1>14 DEF t, h

(* A node of the list with at most one entry has one, a row that is not    *)
(* taken.                                                                  *)
LEMMA LastEntry ==
  ASSUME NEW s \in Idx, NEW taken, RowPart(s, taken), NEW n \in s.datalist,
         Len(s.disk[n].ents) <= 1
  PROVE  /\ 1..Len(s.disk[n].ents) = {1}
         /\ s.disk[n].ents[1] \in (1..s.datacount) \ taken
<1>1. /\ s.disk[n].ents \in Seq(Nat) /\ s.disk[n].ents # <<>>
      /\ n \in Node
  BY RowPartFacts, IdxFields DEF RowPart
<1>2. 1..Len(s.disk[n].ents) = {1}
  BY <1>1
<1>3. s.disk[n].ents[1] \in (1..s.datacount) \ taken
  BY <1>2 DEF RowPart, AllIn
<1>4. QED
  BY <1>2, <1>3

(* A node with one row leaves the list: its row is taken, however the      *)
(* pointers are made to pass it.                                           *)
LEMMA RowLeave ==
  ASSUME NEW s \in Idx, NEW t, NEW taken, RowPart(s, taken),
         NEW n \in s.datalist, Len(s.disk[n].ents) <= 1,
         t.datacount = s.datacount, t.datalist = s.datalist \ {n},
         Linked(t.disk, s.datalist \ {n}, t.datafree),
         \A m \in s.datalist \ {n} : /\ t.disk[m].ents = s.disk[m].ents
                                     /\ t.disk[m].tag = s.disk[m].tag,
         s.torn => t.torn
  PROVE  RowPart(t, taken \union {s.disk[n].ents[1]})
<1> DEFINE r == s.disk[n].ents[1]
           S == (1..s.datacount) \ taken
<1>1. 1..Len(s.disk[n].ents) = {1} /\ r \in S
  BY LastEntry
<1>2. OnceEach(s.disk, s.datalist) /\ AllIn(s.disk, s.datalist, S)
  BY DEF RowPart
<1>3. /\ OnceEach(s.disk, s.datalist \ {n})
      /\ AllIn(s.disk, s.datalist \ {n}, S \ {r})
      /\ \A v : Holds(s.disk, s.datalist, v) =>
                v = r \/ Holds(s.disk, s.datalist \ {n}, v)
  <2> HIDE DEF S
  <2>1. QED
    BY <1>1, <1>2, EntriesLeave
<1>4. /\ OnceEach(t.disk, s.datalist \ {n})
      /\ AllIn(t.disk, s.datalist \ {n}, S \ {r})
      /\ \A v : Holds(s.disk, s.datalist \ {n}, v) =>
                Holds(t.disk, s.datalist \ {n}, v)
  <2> HIDE DEF S, r
  <2>1. QED
    BY <1>3, EntriesSame, SMTT(30)
<1>5. S \ {r} = (1..s.datacount) \ (taken \union {r})
  OBVIOUS
<1>6. taken \union {r} \subseteq 1..s.datacount
  BY <1>1 DEF RowPart
<1>7. ~t.torn => \A v \in S \ {r} : Holds(t.disk, s.datalist \ {n}, v)
  BY <1>3, <1>4 DEF RowPart
<1>8. \A m \in t.datalist : t.disk[m].tag = "rows" /\ t.disk[m].ents # <<>>
  BY DEF RowPart
<1> HIDE DEF S, r
<1>9. RowPart(t, taken \union {r})
  BY <1>4, <1>5, <1>6, <1>7, <1>8 DEF RowPart
<1>10. QED
  BY <1>9 DEF r

(* tvbdataallocate of the last row of the head.                            *)
LEMMA RowPop ==
  ASSUME NEW s \in Idx, NEW t, NEW taken, RowPart(s, taken),
         s.datafree \in s.datalist, Len(s.disk[s.datafree].ents) <= 1,
         t.datacount = s.datacount,
         t.datalist = s.datalist \ {s.datafree},
         t.datafree = s.disk[s.datafree].next,
         \A m \in s.datalist \ {s.datafree} : t.disk[m] = s.disk[m],
         s.torn => t.torn
  PROVE  RowPart(t, taken \union {s.disk[s.datafree].ents[1]})
<1>1. Linked(s.disk, s.datalist, s.datafree) /\ s.datafree # 0
  BY RowPartFacts DEF Lost
<1>2. Linked(s.disk, s.datalist \ {s.datafree}, t.datafree)
  BY <1>1, LinkedPop
<1>3. Linked(t.disk, s.datalist \ {s.datafree}, t.datafree)
  BY <1>2, LinkedSame
<1>4. QED
  BY <1>3, RowLeave

(* tvbdataallocate whose second write fails: the head is no longer a node  *)
(* of the list, which is lost.                                             *)
LEMMA RowLose ==
  ASSUME NEW s \in Idx, NEW t, NEW taken, RowPart(s, taken),
         s.datafree \in s.datalist,
         t.datacount = s.datacount,
         t.datalist = s.datalist \ {s.datafree},
         t.datafree = s.datafree, t.disk[s.datafree].tag # "rows",
         \A m \in s.datalist \ {s.datafree} : t.disk[m] = s.disk[m],
         t.torn
  PROVE  RowPart(t, taken)
<1> DEFINE h == s.datafree
           S == (1..s.datacount) \ taken
<1>1. Linked(s.disk, s.datalist, h) /\ h # 0
  BY RowPartFacts DEF Lost
<1>2. Linked(s.disk, s.datalist \ {h}, s.disk[h].next)
  BY <1>1, LinkedPop
<1>3. Linked(t.disk, s.datalist \ {h}, s.disk[h].next)
  BY <1>2, LinkedSame
<1>4. Lost(t)
  BY <1>1 DEF Lost
<1>5. OnceEach(t.disk, s.datalist \ {h}) /\ AllIn(t.disk, s.datalist \ {h}, S)
  <2>1. OnceEach(s.disk, s.datalist) /\ AllIn(s.disk, s.datalist, S)
    BY DEF RowPart
  <2> HIDE DEF S
  <2>2. /\ OnceEach(s.disk, s.datalist \ {h})
        /\ AllIn(s.disk, s.datalist \ {h}, S)
    BY <2>1, EntriesLeave
  <2>3. QED
    BY <2>2, EntriesSame
<1>6. \A m \in t.datalist : t.disk[m].tag = "rows" /\ t.disk[m].ents # <<>>
  BY DEF RowPart
<1>7. taken \subseteq 1..s.datacount
  BY DEF RowPart
<1>8. QED
  BY <1>3, <1>4, <1>5, <1>6, <1>7 DEF RowPart

(* ivbforcedataallocate of the last row of a node that is not the head.    *)
LEMMA RowUnlink ==
  ASSUME NEW s \in Idx, NEW taken, RowPart(s, taken),
         NEW n \in s.datalist, Len(s.disk[n].ents) <= 1,
         NEW prev \in s.datalist, s.disk[prev].next = n, ~Lost(s)
  PROVE  LET t == [s EXCEPT !.disk[prev].next = s.disk[n].next,
                            !.datalist = @ \ {n}]
         IN  /\ t \in Idx
             /\ RowPart(t, taken \union {s.disk[n].ents[1]})
             /\ \A m \in Node \ s.datalist : t.disk[m] = s.disk[m]
<1> DEFINE next == s.disk[n].next
           t == [s EXCEPT !.disk[prev].next = next, !.datalist = @ \ {n}]
<1>1. /\ s.datalist \subseteq Node /\ 0 \notin s.datalist
      /\ Linked(s.disk, s.datalist, s.datafree)
  BY RowPartFacts
<1>2. /\ s.disk \in [Node -> Block] /\ s.disk[prev] \in Block
      /\ next \in 0..MaxNode /\ prev \in Node
  BY <1>1, IdxFields
<1>3. [s.disk[prev] EXCEPT !.next = next] \in Block
  BY <1>2 DEF Block
<1>4. /\ t = [s EXCEPT !.disk = t.disk, !.datalist = s.datalist \ {n}]
      /\ t.disk = [s.disk EXCEPT ![prev] = [@ EXCEPT !.next = next]]
      /\ t.datalist = s.datalist \ {n} /\ t.datafree = s.datafree
      /\ t.datacount = s.datacount /\ t.torn = s.torn
  BY DEF Idx
<1> HIDE DEF t
<1>5. /\ t.disk \in [Node -> Block]
      /\ t.disk[prev] = [s.disk[prev] EXCEPT !.next = next]
      /\ \A m \in Node \ {prev} : t.disk[m] = s.disk[m]
  BY <1>2, <1>3, <1>4
<1>6. t \in Idx
  BY <1>1, <1>4, <1>5 DEF Idx
<1>7. /\ t.disk[prev].next = next
      /\ t.disk[prev].ents = s.disk[prev].ents
      /\ t.disk[prev].tag = s.disk[prev].tag
  BY <1>2, <1>5 DEF Block
<1>8. \A m \in s.datalist : /\ t.disk[m].ents = s.disk[m].ents
                            /\ t.disk[m].tag = s.disk[m].tag
  BY <1>1, <1>5, <1>7
<1>9. \A m \in s.datalist \ {prev} : t.disk[m].next = s.disk[m].next
  BY <1>1, <1>5
<1>10. Linked(t.disk, s.datalist \ {n}, s.datafree)
  <2>1. Bypassed(s.disk, t.disk, s.datalist, prev, n)
    BY <1>7, <1>9 DEF Bypassed
  <2>2. QED
    BY <1>1, <2>1, LinkedUnlink
<1>11. RowPart(t, taken \union {s.disk[n].ents[1]})
  <2>1. /\ Linked(t.disk, s.datalist \ {n}, t.datafree)
        /\ t.datacount = s.datacount /\ t.datalist = s.datalist \ {n}
        /\ s.torn => t.torn
    BY <1>4, <1>10
  <2>2. \A m \in s.datalist \ {n} : /\ t.disk[m].ents = s.disk[m].ents
                                    /\ t.disk[m].tag = s.disk[m].tag
    BY <1>8
  <2>3. QED
    BY <2>1, <2>2, RowLeave
<1>12. QED
  BY <1>5, <1>6, <1>11 DEF t

(* A row is taken out of a node that lists others.                         *)
LEMMA RowDrop ==
  ASSUME NEW s \in Idx, NEW taken, RowPart(s, taken),
         NEW n \in s.datalist, NEW i \in 1..Len(s.disk[n].ents),
         Len(s.disk[n].ents) > 1
  PROVE  LET r == s.disk[n].ents[i]
             t == [s EXCEPT !.disk[n].ents = Without(@, i)]
         IN  /\ t \in Idx /\ RowPart(t, taken \union {r})
             /\ r \in Row \ taken
             /\ \A m \in Node \ s.datalist : t.disk[m] = s.disk[m]
<1> DEFINE e == s.disk[n].ents
           r == e[i]
           t == [s EXCEPT !.disk[n].ents = Without(@, i)]
           S == (1..s.datacount) \ taken
<1>1. /\ n \in Node /\ s.datalist \subseteq Node
      /\ s.disk \in [Node -> Block] /\ s.disk[n] \in Block
      /\ e \in Seq(Nat) /\ Len(e) \in Nat /\ Len(e) > 1
  BY RowPartFacts, IdxFields
<1>2. Without(e, i) \in Seq(Nat) /\ Without(e, i) # <<>>
  <2>1. i \in 1..Len(e)
    OBVIOUS
  <2> HIDE DEF e
  <2>2. QED
    BY <1>1, <2>1, WithoutFacts
<1>3. [s.disk[n] EXCEPT !.ents = Without(e, i)] \in Block
  BY <1>1, <1>2 DEF Block
<1>4. /\ t = [s EXCEPT !.disk = t.disk]
      /\ t.disk = [s.disk EXCEPT ![n] = [@ EXCEPT !.ents = Without(e, i)]]
      /\ t.datalist = s.datalist /\ t.datafree = s.datafree
      /\ t.datacount = s.datacount /\ t.torn = s.torn
  BY DEF Idx
<1> HIDE DEF t
<1>5. /\ t.disk \in [Node -> Block]
      /\ t.disk[n] = [s.disk[n] EXCEPT !.ents = Without(e, i)]
      /\ \A m \in Node \ {n} : t.disk[m] = s.disk[m]
  BY <1>1, <1>3, <1>4
<1>6. t \in Idx
  BY <1>4, <1>5 DEF Idx
<1>7. /\ t.disk[n].ents = Without(e, i)
      /\ t.disk[n].next = s.disk[n].next
      /\ t.disk[n].tag = s.disk[n].tag
  BY <1>1, <1>5 DEF Block
<1>8. \A m \in s.datalist : /\ t.disk[m].next = s.disk[m].next
                            /\ t.disk[m].tag = "rows"
                            /\ t.disk[m].ents # <<>>
  BY <1>1, <1>2, <1>5, <1>7 DEF RowPart
<1>9. PICK first : /\ Linked(s.disk, s.datalist, first)
                   /\ s.datafree = first \/ Lost(s)
  BY DEF RowPart
<1>10. Linked(t.disk, s.datalist, first)
  BY <1>8, <1>9, LinkedSame
<1>11. Lost(s) => Lost(t)
  <2>1. Lost(s) => s.datafree \in Node \ {n}
    BY IdxFields DEF Lost, Node
  <2>2. QED
    BY <1>4, <1>5, <2>1 DEF Lost
<1>12. /\ OnceEach(t.disk, s.datalist)
       /\ AllIn(t.disk, s.datalist, S \ {r})
       /\ \A v : Holds(s.disk, s.datalist, v) =>
                 v = r \/ Holds(t.disk, s.datalist, v)
  <2>1. OnceEach(s.disk, s.datalist) /\ AllIn(s.disk, s.datalist, S)
    BY DEF RowPart
  <2>2. \A m \in s.datalist \ {n} : t.disk[m].ents = s.disk[m].ents
    BY <1>1, <1>5
  <2>3. Dropped(s.disk, t.disk, s.datalist, n, i, r)
    BY <1>1, <1>7, <2>2 DEF Dropped
  <2> HIDE DEF S, r
  <2>4. OnceEach(t.disk, s.datalist)
    BY <2>1, <2>3, EntriesDrop
  <2>5. AllIn(t.disk, s.datalist, S \ {r})
    BY <2>1, <2>3, EntriesDrop
  <2>6. ASSUME NEW v, Holds(s.disk, s.datalist, v)
        PROVE  v = r \/ Holds(t.disk, s.datalist, v)
    BY <2>1, <2>3, <2>6, EntriesDrop
  <2>7. QED
    BY <2>4, <2>5, <2>6
<1>13. r \in S
  BY DEF RowPart, AllIn
<1>14. S \ {r} = (1..s.datacount) \ (taken \union {r})
  OBVIOUS
<1>15. taken \union {r} \subseteq 1..s.datacount
  BY <1>13 DEF RowPart
<1>16. ~t.torn => \A v \in S \ {r} : Holds(t.disk, s.datalist, v)
  BY <1>4, <1>12 DEF RowPart
<1>17. r \in Row \ taken
  <2>1. s.datacount \in 0..MaxRow
    BY IdxFields
  <2>2. QED
    BY <1>13, <2>1, SpaceAssumption DEF Row
<1> HIDE DEF S, r
<1>18. RowPart(t, taken \union {r})
  BY <1>4, <1>8, <1>9, <1>10, <1>11, <1>12, <1>14, <1>15, <1>16 DEF RowPart
<1>19. QED
  BY <1>1, <1>5, <1>6, <1>17, <1>18 DEF t, r

-----------------------------------------------------------------------------
(* Part three: the operations, which use nodes for both lists.             *)

(* Nodes in use: those of callers, those of the data free list, and the    *)
(* node the dictionary takes for the head of it.                           *)
Busy(s, own) == own \union s.datalist \union ({s.datafree} \ {0})

(* The allocator's state, given the nodes own that callers use and the     *)
(* rows that are taken. Nothing here says that no write has failed.        *)
Sound(s, own, taken) ==
  /\ s \in Idx
  /\ NodePart(s, Busy(s, own))
  /\ RowPart(s, taken)
  /\ own \intersect (s.datalist \union {s.datafree}) = {}

(* No node has two uses in a sound state.                                  *)
LEMMA SoundFacts ==
  ASSUME NEW s, NEW own, NEW taken, Sound(s, own, taken)
  PROVE  /\ s \in Idx /\ NodePart(s, Busy(s, own)) /\ RowPart(s, taken)
         /\ own \subseteq Node /\ s.datalist \subseteq Node
         /\ s.nodelist \subseteq Node
         /\ own \intersect s.nodelist = {}
         /\ s.datalist \intersect s.nodelist = {}
         /\ s.datafree \notin s.nodelist
         /\ own \intersect (s.datalist \union {s.datafree}) = {}
<1>1. s \in Idx /\ NodePart(s, Busy(s, own)) /\ RowPart(s, taken)
  BY DEF Sound
<1>2. \A n \in Busy(s, own) : n \notin s.nodelist /\ n \in Node
  BY <1>1, NodePartFacts
<1>3. s.nodelist \subseteq Node /\ s.datalist \subseteq Node /\ 0 \notin Node
  BY <1>1, IdxFields DEF Node
<1>4. QED
  BY <1>1, <1>2, <1>3 DEF Sound, Busy

(* After a failed write a taken row may be forgotten: it is lost.          *)
LEMMA SoundWeaker ==
  ASSUME NEW s, NEW own, NEW taken, NEW fewer, Sound(s, own, taken),
         fewer \subseteq taken, s.torn
  PROVE  Sound(s, own, fewer)
<1>1. s \in Idx /\ RowPart(s, taken)
  BY DEF Sound
<1>2. Lost(s) => s.disk[s.datafree].tag # "rows"
  BY DEF Lost
<1>3. RowPart(s, fewer)
  BY <1>1, <1>2, RowPartFrame
<1>4. QED
  BY <1>3 DEF Sound

(* A write that fails before anything else is written.                     *)
LEMMA SoundFail ==
  ASSUME NEW s, NEW own, NEW taken, Sound(s, own, taken)
  PROVE  LET t == [s EXCEPT !.torn = TRUE]
         IN  /\ Sound(t, own, taken) /\ t.torn
             /\ t.nodecount = s.nodecount /\ t.datacount = s.datacount
<1> DEFINE t == [s EXCEPT !.torn = TRUE]
<1>1. s \in Idx /\ NodePart(s, Busy(s, own)) /\ RowPart(s, taken)
  BY DEF Sound
<1>2. /\ t \in Idx /\ t.disk = s.disk /\ t.nodelist = s.nodelist /\ t.torn
      /\ t.nodefree = s.nodefree /\ t.nodecount = s.nodecount
      /\ t.datacount = s.datacount /\ t.datafree = s.datafree
      /\ t.datalist = s.datalist
  BY <1>1 DEF Idx
<1> HIDE DEF t
<1>3. Busy(t, own) = Busy(s, own)
  BY <1>2 DEF Busy
<1>4. NodePart(t, Busy(t, own))
  BY <1>1, <1>2, <1>3, NodePartFrame
<1>5. Lost(s) => t.disk[s.datafree].tag # "rows"
  BY <1>2 DEF Lost
<1>6. RowPart(t, taken)
  BY <1>1, <1>2, <1>5, RowPartFrame
<1>7. QED
  BY <1>2, <1>4, <1>6 DEF Sound, t

(* RowAppend keeps the node free list.                                     *)
LEMMA DataAppend ==
  ASSUME NEW s, NEW own, NEW taken, Sound(s, own, taken), NEW r \in taken,
         s.datafree # 0, s.disk[s.datafree].tag = "rows"
  PROVE  LET h == s.datafree
             t == [s EXCEPT !.disk[h].ents = Append(@, r)]
         IN  Sound(t, own, taken \ {r})
<1> DEFINE h == s.datafree
           t == [s EXCEPT !.disk[h].ents = Append(@, r)]
<1>1. /\ s \in Idx /\ NodePart(s, Busy(s, own)) /\ RowPart(s, taken)
      /\ s.nodelist \subseteq Node \ s.datalist
      /\ own \intersect (s.datalist \union {s.datafree}) = {}
  BY SoundFacts
<1>2. /\ t \in Idx /\ RowPart(t, taken \ {r})
      /\ \A m \in Node \ s.datalist : t.disk[m] = s.disk[m]
  BY <1>1, RowAppend, ZenonT(30)
<1>3. /\ t.nodelist = s.nodelist /\ t.nodefree = s.nodefree
      /\ t.nodecount = s.nodecount /\ t.datafree = s.datafree
      /\ t.datalist = s.datalist
  BY <1>1 DEF Idx
<1> HIDE DEF t
<1>4. Busy(t, own) = Busy(s, own)
  BY <1>3 DEF Busy
<1>5. NodePart(t, Busy(t, own))
  BY <1>1, <1>2, <1>3, <1>4, NodePartFrame
<1>6. QED
  BY <1>1, <1>2, <1>3, <1>5 DEF Sound, t

(* RowCountDown keeps the node free list.                                  *)
LEMMA DataCountDown ==
  ASSUME NEW s, NEW own, NEW taken, Sound(s, own, taken),
         s.datacount \in taken
  PROVE  LET t == [s EXCEPT !.datacount = s.datacount - 1]
         IN  Sound(t, own, taken \ {s.datacount})
<1> DEFINE t == [s EXCEPT !.datacount = s.datacount - 1]
<1>1. /\ s \in Idx /\ NodePart(s, Busy(s, own)) /\ RowPart(s, taken)
      /\ own \intersect (s.datalist \union {s.datafree}) = {}
  BY SoundFacts
<1>2. t \in Idx /\ RowPart(t, taken \ {s.datacount})
  BY <1>1, RowCountDown
<1>3. /\ t.nodelist = s.nodelist /\ t.nodefree = s.nodefree
      /\ t.nodecount = s.nodecount /\ t.datafree = s.datafree
      /\ t.datalist = s.datalist /\ t.disk = s.disk
  BY <1>1 DEF Idx
<1> HIDE DEF t
<1>4. Busy(t, own) = Busy(s, own)
  BY <1>3 DEF Busy
<1>5. NodePart(t, Busy(t, own))
  BY <1>1, <1>3, <1>4, NodePartFrame
<1>6. QED
  BY <1>1, <1>2, <1>3, <1>5 DEF Sound, t

(* RowCountUp keeps the node free list.                                    *)
LEMMA DataCountUp ==
  ASSUME NEW s, NEW own, NEW taken, Sound(s, own, taken),
         NEW r \in Row, s.datacount < r
  PROVE  Sound([s EXCEPT !.datacount = r], own,
               taken \union ((s.datacount + 1)..r))
<1> DEFINE t == [s EXCEPT !.datacount = r]
           more == (s.datacount + 1)..r
<1>1. /\ s \in Idx /\ NodePart(s, Busy(s, own)) /\ RowPart(s, taken)
      /\ own \intersect (s.datalist \union {s.datafree}) = {}
  BY SoundFacts
<1>2. t \in Idx /\ RowPart(t, taken \union more)
  BY <1>1, RowCountUp
<1>3. /\ t.nodelist = s.nodelist /\ t.nodefree = s.nodefree
      /\ t.nodecount = s.nodecount /\ t.datafree = s.datafree
      /\ t.datalist = s.datalist /\ t.disk = s.disk
  BY <1>1 DEF Idx
<1> HIDE DEF t, more
<1>4. Busy(t, own) = Busy(s, own)
  BY <1>3 DEF Busy
<1>5. NodePart(t, Busy(t, own))
  BY <1>1, <1>3, <1>4, NodePartFrame
<1>6. QED
  BY <1>1, <1>2, <1>3, <1>5 DEF Sound, t, more

(* RowDrop keeps the node free list.                                       *)
LEMMA DataDrop ==
  ASSUME NEW s, NEW own, NEW taken, Sound(s, own, taken),
         NEW n \in s.datalist, NEW i \in 1..Len(s.disk[n].ents),
         Len(s.disk[n].ents) > 1
  PROVE  LET r == s.disk[n].ents[i]
             t == [s EXCEPT !.disk[n].ents = Without(@, i)]
         IN  r \in Row \ taken /\ Sound(t, own, taken \union {r})
<1> DEFINE r == s.disk[n].ents[i]
           t == [s EXCEPT !.disk[n].ents = Without(@, i)]
<1>1. /\ s \in Idx /\ NodePart(s, Busy(s, own)) /\ RowPart(s, taken)
      /\ s.nodelist \subseteq Node \ s.datalist
      /\ own \intersect (s.datalist \union {s.datafree}) = {}
  BY SoundFacts
<1>2. /\ t \in Idx /\ RowPart(t, taken \union {r})
      /\ r \in Row \ taken
      /\ \A m \in Node \ s.datalist : t.disk[m] = s.disk[m]
  <2>1. t \in Idx
    BY <1>1, RowDrop
  <2>2. RowPart(t, taken \union {r}) /\ r \in Row \ taken
    BY <1>1, RowDrop
  <2>3. \A m \in Node \ s.datalist : t.disk[m] = s.disk[m]
    BY <1>1, RowDrop
  <2>4. QED
    BY <2>1, <2>2, <2>3
<1>3. /\ t.nodelist = s.nodelist /\ t.nodefree = s.nodefree
      /\ t.nodecount = s.nodecount /\ t.datafree = s.datafree
      /\ t.datalist = s.datalist
  BY <1>1 DEF Idx
<1> HIDE DEF t, r
<1>4. Busy(t, own) = Busy(s, own)
  BY <1>3 DEF Busy
<1>5. NodePart(t, Busy(t, own))
  BY <1>1, <1>2, <1>3, <1>4, NodePartFrame
<1>6. QED
  BY <1>1, <1>2, <1>3, <1>5 DEF Sound, t, r

(* RowUnlink keeps the node free list, and the node is in use by nobody.   *)
LEMMA DataUnlink ==
  ASSUME NEW s, NEW own, NEW taken, Sound(s, own, taken),
         NEW n \in s.datalist, Len(s.disk[n].ents) <= 1,
         NEW prev \in s.datalist, s.disk[prev].next = n, ~Lost(s),
         s.datafree # n
  PROVE  LET t == [s EXCEPT !.disk[prev].next = s.disk[n].next,
                            !.datalist = @ \ {n}]
         IN  Sound(t, own, taken \union {s.disk[n].ents[1]})
<1> DEFINE t == [s EXCEPT !.disk[prev].next = s.disk[n].next,
                          !.datalist = @ \ {n}]
           r == s.disk[n].ents[1]
<1>1. /\ s \in Idx /\ NodePart(s, Busy(s, own)) /\ RowPart(s, taken)
      /\ s.nodelist \subseteq Node \ s.datalist
      /\ own \intersect (s.datalist \union {s.datafree}) = {}
  BY SoundFacts
<1>2. /\ t \in Idx /\ RowPart(t, taken \union {r})
      /\ \A m \in Node \ s.datalist : t.disk[m] = s.disk[m]
  <2>1. t \in Idx
    BY <1>1, RowUnlink
  <2>2. RowPart(t, taken \union {r})
    BY <1>1, RowUnlink
  <2>3. t.disk = [s.disk EXCEPT ![prev].next = s.disk[n].next]
    BY <1>1 DEF Idx
  <2> HIDE DEF t
  <2>4. \A m \in Node \ s.datalist : t.disk[m] = s.disk[m]
    BY <1>1, <2>3, IdxFields
  <2>5. QED
    BY <2>1, <2>2, <2>4
<1>3. /\ t.nodelist = s.nodelist /\ t.nodefree = s.nodefree
      /\ t.nodecount = s.nodecount /\ t.datafree = s.datafree
      /\ t.datalist = s.datalist \ {n}
  BY <1>1 DEF Idx
<1> HIDE DEF t, r
<1>4. Busy(t, own) \subseteq Busy(s, own)
  BY <1>3 DEF Busy
<1>5. NodePart(t, Busy(t, own))
  BY <1>1, <1>2, <1>3, <1>4, NodePartFrame
<1>6. QED
  BY <1>1, <1>2, <1>3, <1>5 DEF Sound, t, r

(* A node that nobody gives back may be forgotten.                         *)
LEMMA SoundOwnLess ==
  ASSUME NEW s, NEW own, NEW taken, NEW less, Sound(s, own, taken),
         less \subseteq own
  PROVE  Sound(s, less, taken)
<1>1. Busy(s, less) \subseteq Busy(s, own)
  BY DEF Busy
<1>2. NodePart(s, Busy(s, less))
  BY <1>1, NodePartFrame DEF Sound
<1>3. QED
  BY <1>2 DEF Sound

(* tvbnodeallocate gives its caller a node that has no other use.          *)
LEMMA AllocSound ==
  ASSUME NEW s, NEW own, NEW taken, Sound(s, own, taken), NEW f \in Faults,
         s.nodecount < MaxNode \/ s.nodefree # 0
  PROVE  LET o == tvbnodeallocate(s, f)
             t == o.s
         IN  /\ t.datacount = s.datacount /\ t.datafree = s.datafree
             /\ t.datalist = s.datalist
             /\ t.nodecount \in {s.nodecount, s.nodecount + 1}
             /\ \A m \in Node \ s.nodelist : t.disk[m] = s.disk[m]
             /\ \/ o.ret = -1 /\ t.torn /\ Sound(t, own, taken)
                \/ /\ o.ret \in Node \ Busy(s, own) /\ t.torn = s.torn
                   /\ Sound(t, own \union {o.ret}, taken)
<1> DEFINE o == tvbnodeallocate(s, f)
           t == o.s
           n == o.ret
<1>1. /\ s \in Idx /\ NodePart(s, Busy(s, own)) /\ RowPart(s, taken)
      /\ s.datalist \subseteq Node \ s.nodelist
      /\ s.datafree \notin s.nodelist
      /\ own \intersect (s.datalist \union {s.datafree}) = {}
  BY SoundFacts
<1>2. /\ t \in Idx
      /\ t.datacount = s.datacount /\ t.datafree = s.datafree
      /\ t.datalist = s.datalist
      /\ t.nodecount \in {s.nodecount, s.nodecount + 1}
      /\ \A m \in Node \ s.nodelist : t.disk[m] = s.disk[m]
      /\ \/ n = -1 /\ t.torn /\ NodePart(t, Busy(s, own))
         \/ /\ n \in Node \ Busy(s, own) /\ t.torn = s.torn
            /\ NodePart(t, Busy(s, own) \union {n})
  BY <1>1, NodeAlloc
<1> HIDE DEF o
<1>3. \A m \in s.datalist : t.disk[m] = s.disk[m]
  BY <1>1, <1>2
<1>4. Lost(s) => t.disk[s.datafree].tag # "rows"
  <2>1. Lost(s) => s.datafree \in Node \ s.nodelist
    BY <1>1, IdxFields DEF Lost, Node
  <2>2. QED
    BY <1>2, <2>1 DEF Lost
<1>5. s.torn => t.torn
  BY <1>2
<1>6. CASE n = -1 /\ t.torn /\ NodePart(t, Busy(s, own))
  <2>1. RowPart(t, taken)
    BY <1>1, <1>2, <1>3, <1>4, <1>5, RowPartFrame
  <2>2. Busy(t, own) = Busy(s, own)
    BY <1>2 DEF Busy
  <2>3. Sound(t, own, taken)
    BY <1>1, <1>2, <1>6, <2>1, <2>2 DEF Sound
  <2>4. QED
    BY <1>2, <1>6, <2>3 DEF o
<1>7. CASE /\ n \in Node \ Busy(s, own) /\ t.torn = s.torn
           /\ NodePart(t, Busy(s, own) \union {n})
  <2>1. RowPart(t, taken)
    BY <1>1, <1>2, <1>3, <1>4, <1>5, RowPartFrame
  <2>2. Busy(t, own \union {n}) = Busy(s, own) \union {n}
    BY <1>2 DEF Busy
  <2>3. n \notin s.datalist \union {s.datafree}
    BY <1>7, IdxFields DEF Busy, Node
  <2>4. Sound(t, own \union {n}, taken)
    BY <1>1, <1>2, <1>7, <2>1, <2>2, <2>3 DEF Sound
  <2>5. QED
    BY <1>2, <1>7, <2>4 DEF o
<1>8. QED
  BY <1>2, <1>6, <1>7

(* ivbnodefree takes a node from its caller, or fails and leaves it with   *)
(* the caller.                                                             *)
LEMMA FreeSound ==
  ASSUME NEW s, NEW own, NEW taken, Sound(s, own, taken), NEW f \in Faults,
         NEW n \in own
  PROVE  LET o == ivbnodefree(s, n, f)
             t == o.s
         IN  \/ o.ret = 0 /\ t.torn = s.torn /\ Sound(t, own \ {n}, taken)
             \/ o.ret = -1 /\ t.torn /\ Sound(t, own, taken)
<1> DEFINE o == ivbnodefree(s, n, f)
           t == o.s
<1>1. /\ s \in Idx /\ NodePart(s, Busy(s, own)) /\ RowPart(s, taken)
      /\ s.datalist \subseteq Node \ s.nodelist
      /\ s.datafree \notin s.nodelist /\ n \in Busy(s, own)
      /\ own \intersect (s.datalist \union {s.datafree}) = {}
  BY SoundFacts DEF Busy
<1>2. /\ t \in Idx
      /\ t.datacount = s.datacount /\ t.datafree = s.datafree
      /\ t.datalist = s.datalist
      /\ \A m \in Node \ (s.nodelist \union {n}) : t.disk[m] = s.disk[m]
      /\ \/ o.ret = 0 /\ t.torn = s.torn /\ NodePart(t, Busy(s, own) \ {n})
         \/ o.ret = -1 /\ t.torn /\ NodePart(t, Busy(s, own))
  <2>1. NodeFreed(s, Busy(s, own), n, o)
    BY <1>1, NodeFree
  <2> HIDE DEF o
  <2>2. QED
    BY <2>1 DEF NodeFreed
<1> HIDE DEF o
<1>3. \A m \in s.datalist : t.disk[m] = s.disk[m]
  BY <1>1, <1>2
<1>4. Lost(s) => t.disk[s.datafree].tag # "rows"
  <2>1. Lost(s) => s.datafree \in Node \ (s.nodelist \union {n})
    BY <1>1, IdxFields DEF Lost, Node
  <2>2. QED
    BY <1>2, <2>1 DEF Lost
<1>5. RowPart(t, taken)
  BY <1>1, <1>2, <1>3, <1>4, RowPartFrame
<1>6. CASE o.ret = 0 /\ t.torn = s.torn /\ NodePart(t, Busy(s, own) \ {n})
  <2>1. Busy(t, own \ {n}) = Busy(s, own) \ {n}
    BY <1>1, <1>2 DEF Busy
  <2>2. Sound(t, own \ {n}, taken)
    BY <1>1, <1>2, <1>5, <1>6, <2>1 DEF Sound
  <2>3. QED
    BY <1>6, <2>2 DEF o
<1>7. CASE o.ret = -1 /\ t.torn /\ NodePart(t, Busy(s, own))
  <2>1. Busy(t, own) = Busy(s, own)
    BY <1>2 DEF Busy
  <2>2. Sound(t, own, taken)
    BY <1>1, <1>2, <1>5, <1>7, <2>1 DEF Sound
  <2>3. QED
    BY <1>7, <2>2 DEF o
<1>8. QED
  BY <1>2, <1>6, <1>7

(* inodesplit writes keys to the node it was given.                        *)
LEMMA TreeWritten ==
  ASSUME NEW s, NEW own, NEW taken, Sound(s, own, taken), NEW n \in own
  PROVE  Sound([s EXCEPT !.disk[n] = TreeBlock], own, taken)
<1> DEFINE t == [s EXCEPT !.disk[n] = TreeBlock]
<1>1. /\ s \in Idx /\ NodePart(s, Busy(s, own)) /\ RowPart(s, taken)
      /\ own \intersect (s.datalist \union {s.datafree}) = {}
      /\ n \in Node \ s.nodelist
      /\ s.nodelist \subseteq Node /\ s.datalist \subseteq Node
  BY SoundFacts
<1>2. TreeBlock \in Block /\ s.disk \in [Node -> Block]
  BY <1>1, BlockTypes, IdxFields, SpaceAssumption
<1>3. /\ t.disk = [s.disk EXCEPT ![n] = TreeBlock] /\ t.torn = s.torn
      /\ t.nodelist = s.nodelist /\ t.nodefree = s.nodefree
      /\ t.nodecount = s.nodecount /\ t.datafree = s.datafree
      /\ t.datalist = s.datalist /\ t.datacount = s.datacount
      /\ t = [s EXCEPT !.disk = t.disk]
  BY <1>1 DEF Idx
<1> HIDE DEF t
<1>4. /\ \A m \in Node \ {n} : t.disk[m] = s.disk[m]
      /\ t.disk \in [Node -> Block]
  BY <1>1, <1>2, <1>3
<1>5. t \in Idx
  BY <1>1, <1>3, <1>4 DEF Idx
<1>6. Busy(t, own) = Busy(s, own)
  BY <1>3 DEF Busy
<1>7. /\ \A m \in s.nodelist : t.disk[m] = s.disk[m]
      /\ \A m \in s.datalist : t.disk[m] = s.disk[m]
  BY <1>1, <1>4
<1>8. NodePart(t, Busy(t, own))
  BY <1>1, <1>3, <1>6, <1>7, NodePartFrame
<1>9. Lost(s) => t.disk[s.datafree].tag # "rows"
  <2>1. Lost(s) => s.datafree \in Node \ {n}
    BY <1>1, IdxFields DEF Lost, Node
  <2>2. QED
    BY <1>4, <2>1 DEF Lost
<1>10. RowPart(t, taken)
  <2>1. /\ t.datacount = s.datacount /\ t.datafree = s.datafree
        /\ t.datalist = s.datalist
        /\ s.torn => t.torn
    BY <1>3
  <2>2. \A m \in s.datalist : t.disk[m] = s.disk[m]
    BY <1>7
  <2>3. QED
    BY <1>1, <1>9, <2>1, <2>2, RowPartFrame
<1>11. QED
  BY <1>1, <1>3, <1>5, <1>8, <1>10 DEF Sound, t

(* ivbdatafree makes a node it was given the head of the data free list.   *)
LEMMA DataPush ==
  ASSUME NEW s, NEW own, NEW n, NEW taken, Sound(s, own \union {n}, taken),
         n \notin own, ~Lost(s), NEW r \in taken
  PROVE  Sound([s EXCEPT !.disk[n] = RowsBlock(s.datafree, r),
                         !.datafree = n, !.datalist = @ \union {n}],
               own, taken \ {r})
<1> DEFINE t == [s EXCEPT !.disk[n] = RowsBlock(s.datafree, r),
                          !.datafree = n, !.datalist = @ \union {n}]
           more == own \union {n}
<1>1. /\ s \in Idx /\ NodePart(s, Busy(s, more)) /\ RowPart(s, taken)
      /\ more \intersect (s.datalist \union {s.datafree}) = {}
      /\ n \in Node \ s.nodelist /\ n \notin s.datalist
      /\ s.nodelist \subseteq Node
  BY SoundFacts
<1>2. /\ t \in Idx /\ RowPart(t, taken \ {r})
      /\ \A m \in Node \ {n} : t.disk[m] = s.disk[m]
  <2>1. t \in Idx
    BY <1>1, RowPush
  <2>2. RowPart(t, taken \ {r})
    BY <1>1, RowPush
  <2>3. t.disk = [s.disk EXCEPT ![n] = RowsBlock(s.datafree, r)]
    BY <1>1 DEF Idx
  <2> HIDE DEF t
  <2>4. \A m \in Node \ {n} : t.disk[m] = s.disk[m]
    BY <1>1, <2>3, IdxFields
  <2>5. QED
    BY <2>1, <2>2, <2>4
<1>3. /\ t.nodelist = s.nodelist /\ t.nodefree = s.nodefree
      /\ t.nodecount = s.nodecount /\ t.datafree = n
      /\ t.datalist = s.datalist \union {n}
  BY <1>1 DEF Idx
<1> HIDE DEF t
<1>4. Busy(t, own) \subseteq Busy(s, more)
  BY <1>3 DEF Busy
<1>5. \A m \in s.nodelist : t.disk[m] = s.disk[m]
  BY <1>1, <1>2
<1>6. NodePart(t, Busy(t, own))
  BY <1>1, <1>3, <1>4, <1>5, NodePartFrame
<1>7. own \intersect (t.datalist \union {t.datafree}) = {}
  BY <1>1, <1>3
<1>8. QED
  BY <1>2, <1>6, <1>7 DEF Sound, t

(* What ivbdatafree may do when the row r, taken until now, is given back. *)
DataFreed(s, own, taken, r, o) ==
  /\ o.s.nodecount \in {s.nodecount, s.nodecount + 1}
  /\ s.datacount # r => o.s.datacount = s.datacount
  /\ \/ o.ret = 0 /\ Sound(o.s, own, taken \ {r})
     \/ o.ret = -1 /\ o.s.torn /\ Sound(o.s, own, taken)

(* ivbdatafree frees the row, or fails and leaves it taken.                *)
LEMMA DataFree ==
  ASSUME NEW s, NEW own, NEW taken, Sound(s, own, taken), NEW f \in Faults,
         NEW r \in taken, s.nodecount < MaxNode \/ s.nodefree # 0
  PROVE  DataFreed(s, own, taken, r, ivbdatafree(s, r, f))
<1> USE DEF DataFreed
<1> DEFINE o == ivbdatafree(s, r, f)
           t == o.s
           h == s.datafree
           a == tvbnodeallocate(s, f)
           u == a.s
           n == a.ret
<1>1. /\ s \in Idx /\ RowPart(s, taken)
      /\ h # 0 /\ s.disk[h].tag # "rows" => s.torn
  <2>1. s \in Idx /\ RowPart(s, taken)
    BY DEF Sound
  <2>2. h # 0 /\ s.disk[h].tag # "rows" => s.torn
    BY <2>1, RowPartFacts DEF RowPart, Lost
  <2>3. QED
    BY <2>1, <2>2
<1>2. CASE s.datacount = r
  <2>1. o = Done([s EXCEPT !.datacount = s.datacount - 1], 0)
    BY <1>2 DEF ivbdatafree
  <2>2. Sound([s EXCEPT !.datacount = s.datacount - 1], own, taken \ {r})
    BY <1>2, DataCountDown
  <2>3. t = [s EXCEPT !.datacount = s.datacount - 1] /\ o.ret = 0
    BY <2>1 DEF Done
  <2>4. t.nodecount = s.nodecount /\ t.datacount = r - 1
    BY <1>1, <1>2, <2>3 DEF Idx
  <2>5. QED
    BY <1>2, <2>2, <2>3, <2>4
<1>3. CASE s.datacount # r /\ h # 0 /\ s.disk[h].tag # "rows"
  <2>1. o = Refuse(s)
    BY <1>3 DEF ivbdatafree
  <2>2. t = s /\ o.ret = -1
    BY <2>1 DEF Refuse, Done
  <2>3. QED
    BY <1>1, <1>3, <2>2
<1>4. CASE /\ s.datacount # r /\ h # 0 /\ s.disk[h].tag = "rows"
           /\ Len(s.disk[h].ents) < Capacity /\ f = 1
  <2>1. o = Fail(s)
    BY <1>4 DEF ivbdatafree
  <2>2. t = [s EXCEPT !.torn = TRUE] /\ o.ret = -1
    BY <2>1 DEF Fail, Done
  <2>3. /\ Sound(t, own, taken) /\ t.torn
        /\ t.nodecount = s.nodecount /\ t.datacount = s.datacount
    BY <2>2, SoundFail
  <2>4. QED
    BY <1>4, <2>2, <2>3
<1>5. CASE /\ s.datacount # r /\ h # 0 /\ s.disk[h].tag = "rows"
           /\ Len(s.disk[h].ents) < Capacity /\ f # 1
  <2> DEFINE v == [s EXCEPT !.disk[h].ents = Append(@, r)]
  <2>1. o = Done(v, 0)
    BY <1>5 DEF ivbdatafree
  <2>2. t = v /\ o.ret = 0
    BY <2>1 DEF Done
  <2>3. Sound(v, own, taken \ {r})
    BY <1>5, DataAppend
  <2>4. v.nodecount = s.nodecount /\ v.datacount = s.datacount
    BY <1>1 DEF Idx
  <2>5. QED
    BY <1>5, <2>2, <2>3, <2>4
<1>6. CASE /\ s.datacount # r
           /\ h = 0 \/ (s.disk[h].tag = "rows"
                        /\ ~(Len(s.disk[h].ents) < Capacity))
  <2>1. o = IF n = -1 THEN a
            ELSE IF f = AllocWrites(s) + 1 THEN Fail(u)
            ELSE Done([u EXCEPT !.disk[n] = RowsBlock(h, r), !.datafree = n,
                                !.datalist = @ \union {n}], 0)
    BY <1>6 DEF ivbdatafree
  <2>2. /\ u.datacount = s.datacount /\ u.datafree = h
        /\ u.datalist = s.datalist
        /\ u.nodecount \in {s.nodecount, s.nodecount + 1}
        /\ \/ n = -1 /\ u.torn /\ Sound(u, own, taken)
           \/ /\ n \in Node \ Busy(s, own)
              /\ Sound(u, own \union {n}, taken)
    BY AllocSound
  <2>3. ~Lost(u)
    <3>1. h = 0 \/ h \in s.datalist
      BY <1>1, <1>6, RowPartFacts DEF Lost
    <3>2. QED
      BY <2>2, <3>1 DEF Lost
  <2>4. CASE n = -1
    <3>1. t = u /\ o.ret = -1
      BY <2>1, <2>4
    <3>2. n \notin Node
      BY <2>4, SpaceAssumption DEF Node
    <3>3. QED
      BY <1>6, <2>2, <3>1, <3>2
  <2> HIDE DEF a
  <2>5. CASE n # -1 /\ f = AllocWrites(s) + 1
    <3>1. t = [u EXCEPT !.torn = TRUE] /\ o.ret = -1
      BY <2>1, <2>5 DEF Fail, Done
    <3>2. Sound(u, own, taken)
      BY <2>2, <2>5, SoundOwnLess
    <3>3. QED
      BY <1>6, <2>2, <3>1, <3>2, SoundFail
  <2>6. CASE n # -1 /\ f # AllocWrites(s) + 1
    <3> DEFINE v == [u EXCEPT !.disk[n] = RowsBlock(u.datafree, r),
                              !.datafree = n, !.datalist = @ \union {n}]
    <3>1. t = v /\ o.ret = 0
      BY <2>1, <2>2, <2>6 DEF Done
    <3>2. n \notin own /\ Sound(u, own \union {n}, taken)
      BY <2>2, <2>6 DEF Busy
    <3>3. Sound(v, own, taken \ {r})
      BY <2>3, <3>2, DataPush
    <3>4. u \in Idx
      BY <3>2 DEF Sound
    <3>5. v.nodecount = u.nodecount /\ v.datacount = u.datacount
      BY <3>4 DEF Idx
    <3>6. QED
      BY <1>6, <2>2, <3>1, <3>3, <3>5
  <2>7. QED
    BY <2>4, <2>5, <2>6
<1>7. QED
  BY <1>2, <1>3, <1>4, <1>5, <1>6

(* The pointer of the head of the data free list leads to another node of  *)
(* it or nowhere.                                                          *)
LEMMA HeadNext ==
  ASSUME NEW s \in Idx, NEW taken, RowPart(s, taken),
         s.datafree \in s.datalist
  PROVE  LET next == s.disk[s.datafree].next
         IN  /\ next \in 0..MaxNode
             /\ next \in s.datalist \union {0}
             /\ next # s.datafree
<1>1. /\ s.datalist \subseteq Node /\ 0 \notin s.datalist
      /\ Linked(s.disk, s.datalist, s.datafree)
  BY RowPartFacts DEF Lost
<1>2. /\ s.disk[s.datafree].next \in s.datalist \union {0}
      /\ s.disk[s.datafree].next # 0 =>
           s.disk[s.datafree].next # s.datafree
  BY <1>1, LinkedFacts
<1>3. s.disk[s.datafree].next \in 0..MaxNode
  BY <1>1, IdxFields
<1>4. QED
  BY <1>1, <1>2, <1>3

(* The head of the data free list, with one row, leaves it and is the      *)
(* caller's: ivbforcedataallocate, before it frees the node.               *)
LEMMA DataDetach ==
  ASSUME NEW s, NEW own, NEW taken, Sound(s, own, taken),
         s.datafree \in s.datalist, Len(s.disk[s.datafree].ents) <= 1
  PROVE  LET h == s.datafree
             t == [s EXCEPT !.datafree = s.disk[h].next,
                            !.datalist = @ \ {h}]
         IN  /\ Sound(t, own \union {h}, taken \union {s.disk[h].ents[1]})
             /\ h \notin own
<1> DEFINE h == s.datafree
           r == s.disk[h].ents[1]
           t == [s EXCEPT !.datafree = s.disk[h].next, !.datalist = @ \ {h}]
           more == own \union {h}
<1>1. /\ s \in Idx /\ NodePart(s, Busy(s, own)) /\ RowPart(s, taken)
      /\ own \intersect (s.datalist \union {s.datafree}) = {}
      /\ s.datalist \subseteq Node
  BY SoundFacts
<1>2. /\ s.disk[h].next \in 0..MaxNode
      /\ s.disk[h].next \in s.datalist \union {0}
      /\ s.disk[h].next # h
  BY <1>1, HeadNext
<1>3. /\ t \in Idx
      /\ t.disk = s.disk /\ t.torn = s.torn
      /\ t.nodelist = s.nodelist /\ t.nodefree = s.nodefree
      /\ t.nodecount = s.nodecount /\ t.datafree = s.disk[h].next
      /\ t.datalist = s.datalist \ {h} /\ t.datacount = s.datacount
  BY <1>1, <1>2 DEF Idx
<1> HIDE DEF t
<1>4. RowPart(t, taken \union {r})
  <2>1. /\ \A m \in s.datalist \ {s.datafree} : t.disk[m] = s.disk[m]
        /\ s.torn => t.torn
    BY <1>3
  <2>2. QED
    BY <1>1, <1>3, <2>1, RowPop
<1>5. Busy(t, more) = Busy(s, own)
  BY <1>1, <1>2, <1>3 DEF Busy
<1>6. NodePart(t, Busy(t, more))
  BY <1>1, <1>3, <1>5, NodePartFrame
<1>7. more \intersect (t.datalist \union {t.datafree}) = {}
  <2>1. 0 \notin Busy(s, own)
    BY <1>1, NodePartFacts, SpaceAssumption DEF Node
  <2>2. 0 \notin own /\ h # 0
    BY <1>1, <2>1, SpaceAssumption DEF Busy, Node
  <2>3. QED
    BY <1>1, <1>2, <1>3, <2>2
<1>8. QED
  BY <1>1, <1>3, <1>4, <1>6, <1>7 DEF Sound, t

(* The head of the data free list, with one row, is freed before it leaves *)
(* the list: tvbdataallocate. When ivbnodefree fails, the head may have    *)
(* its tag already, and the list is lost.                                  *)
LEMMA DataRelease ==
  ASSUME NEW s, NEW own, NEW taken, Sound(s, own, taken), NEW f \in Faults,
         s.datafree \in s.datalist, Len(s.disk[s.datafree].ents) <= 1
  PROVE  LET h == s.datafree
             o == ivbnodefree(s, h, f)
             t == o.s
         IN  \/ /\ o.ret = 0
                /\ Sound([t EXCEPT !.datafree = s.disk[h].next,
                                   !.datalist = @ \ {h}],
                         own, taken \union {s.disk[h].ents[1]})
             \/ /\ o.ret = -1
                /\ Sound([t EXCEPT !.datalist =
                            {m \in @ : t.disk[m].tag = "rows"}],
                         own, taken)
<1> DEFINE h == s.datafree
           r == s.disk[h].ents[1]
           o == ivbnodefree(s, h, f)
           t == o.s
<1>1. /\ s \in Idx /\ NodePart(s, Busy(s, own)) /\ RowPart(s, taken)
      /\ s.datalist \subseteq Node \ s.nodelist
      /\ h \in Busy(s, own) /\ h \in Node /\ h # 0 /\ h \notin own
      /\ own \intersect (s.datalist \union {s.datafree}) = {}
  <2>1. /\ s \in Idx /\ NodePart(s, Busy(s, own)) /\ RowPart(s, taken)
        /\ own \intersect (s.datalist \union {s.datafree}) = {}
        /\ s.datalist \subseteq Node
        /\ s.datalist \intersect s.nodelist = {}
    BY SoundFacts
  <2>2. 0 \notin Node
    BY DEF Node
  <2>3. QED
    BY <2>1, <2>2 DEF Busy
<1>2. /\ s.disk[h].next \in 0..MaxNode
      /\ s.disk[h].next \in s.datalist \union {0}
      /\ s.disk[h].next # h
  BY <1>1, HeadNext
<1>3. /\ t \in Idx
      /\ t.datacount = s.datacount /\ t.datafree = s.datafree
      /\ t.datalist = s.datalist
      /\ \A m \in Node \ (s.nodelist \union {h}) : t.disk[m] = s.disk[m]
      /\ \/ o.ret = 0 /\ t.torn = s.torn /\ NodePart(t, Busy(s, own) \ {h})
         \/ /\ o.ret = -1 /\ t.torn /\ NodePart(t, Busy(s, own))
            /\ Half(s, t, h)
  <2>1. NodeFreed(s, Busy(s, own), h, o)
    BY <1>1, NodeFree
  <2> HIDE DEF o
  <2>2. QED
    BY <2>1 DEF NodeFreed
<1> HIDE DEF o
<1>4. \A m \in s.datalist \ {h} : t.disk[m] = s.disk[m]
  BY <1>1, <1>3
<1>5. 0 \notin own
  BY <1>1, NodePartFacts, SpaceAssumption DEF Node, Busy
<1>6. CASE o.ret = 0 /\ t.torn = s.torn /\ NodePart(t, Busy(s, own) \ {h})
  <2> DEFINE v == [t EXCEPT !.datafree = s.disk[h].next,
                            !.datalist = @ \ {h}]
  <2>1. /\ v \in Idx
        /\ v.disk = t.disk /\ v.torn = t.torn
        /\ v.nodelist = t.nodelist /\ v.nodefree = t.nodefree
        /\ v.nodecount = t.nodecount /\ v.datafree = s.disk[h].next
        /\ v.datalist = s.datalist \ {h} /\ v.datacount = s.datacount
    BY <1>1, <1>2, <1>3 DEF Idx
  <2> HIDE DEF v
  <2>2. RowPart(v, taken \union {r})
    <3>1. /\ \A m \in s.datalist \ {s.datafree} : v.disk[m] = s.disk[m]
          /\ s.torn => v.torn
      BY <1>4, <1>6, <2>1
    <3>2. QED
      BY <1>1, <2>1, <3>1, RowPop
  <2>3. Busy(v, own) = Busy(s, own) \ {h}
    BY <1>1, <1>2, <2>1 DEF Busy
  <2>4. NodePart(v, Busy(v, own))
    BY <1>6, <2>1, <2>3, NodePartFrame
  <2>5. own \intersect (v.datalist \union {v.datafree}) = {}
    BY <1>1, <1>2, <1>5, <2>1
  <2>6. Sound(v, own, taken \union {r})
    BY <2>1, <2>2, <2>4, <2>5 DEF Sound
  <2>7. QED
    BY <1>6, <2>6 DEF o, v
<1>7. CASE /\ o.ret = -1 /\ t.torn /\ NodePart(t, Busy(s, own))
           /\ Half(s, t, h)
  <2> DEFINE kept == {m \in t.datalist : t.disk[m].tag = "rows"}
             v == [t EXCEPT !.datalist = kept]
  <2>1. kept \subseteq s.datalist
    BY <1>3
  <2>2. /\ v \in Idx
        /\ v.disk = t.disk /\ v.torn = t.torn
        /\ v.nodelist = t.nodelist /\ v.nodefree = t.nodefree
        /\ v.nodecount = t.nodecount /\ v.datafree = h
        /\ v.datalist = kept /\ v.datacount = s.datacount
    BY <1>1, <1>3, <2>1 DEF Idx
  <2> HIDE DEF v
  <2>3. \A m \in s.datalist : s.disk[m].tag = "rows"
    BY <1>1 DEF RowPart
  <2>4. RowPart(v, taken)
    <3>1. CASE t.disk[h] = s.disk[h]
      <4>1. \A m \in s.datalist : t.disk[m] = s.disk[m]
        BY <1>4, <3>1
      <4>2. kept = s.datalist
        BY <1>3, <2>3, <4>1
      <4>3. ~Lost(s)
        BY DEF Lost
      <4>4. /\ v.datacount = s.datacount /\ v.datafree = s.datafree
            /\ v.datalist = s.datalist
            /\ \A m \in s.datalist : v.disk[m] = s.disk[m]
            /\ s.torn => v.torn
        BY <1>7, <2>2, <4>1, <4>2
      <4>5. QED
        BY <1>1, <4>3, <4>4, RowPartFrame
    <3>2. CASE t.disk[h] = NodesBlock(0)
      <4>1. t.disk[h].tag # "rows"
        BY <3>2 DEF NodesBlock
      <4>2. kept = s.datalist \ {h}
        BY <1>3, <1>4, <2>3, <4>1
      <4>3. /\ v.datacount = s.datacount /\ v.datafree = s.datafree
            /\ v.datalist = s.datalist \ {s.datafree}
            /\ \A m \in s.datalist \ {s.datafree} : v.disk[m] = s.disk[m]
            /\ v.torn /\ v.disk[s.datafree].tag # "rows"
        BY <1>4, <1>7, <2>2, <4>1, <4>2
      <4>4. QED
        BY <1>1, <4>3, RowLose
    <3>3. QED
      BY <1>7, <3>1, <3>2 DEF Half
  <2>5. Busy(v, own) \subseteq Busy(s, own)
    BY <1>1, <2>1, <2>2 DEF Busy
  <2>6. NodePart(v, Busy(v, own))
    BY <1>7, <2>2, <2>5, NodePartFrame
  <2>7. Sound(v, own, taken)
    BY <1>1, <2>1, <2>2, <2>4, <2>6 DEF Sound
  <2>8. QED
    BY <1>7, <2>7 DEF o, v
<1>8. QED
  BY <1>3, <1>6, <1>7

(* tvbdataallocate hands out a row that is not taken, or fails.            *)
LEMMA DataAlloc ==
  ASSUME NEW s, NEW own, NEW taken, Sound(s, own, taken), NEW f \in Faults,
         s.datacount < MaxRow \/ s.datafree # 0
  PROVE  LET o == tvbdataallocate(s, f)
         IN  \/ o.ret = -1 /\ Sound(o.s, own, taken)
             \/ /\ o.ret \in Row \ taken
                /\ Sound(o.s, own, taken \union {o.ret})
<1> DEFINE o == tvbdataallocate(s, f)
           h == s.datafree
           e == s.disk[h].ents
<1>1. s \in Idx /\ RowPart(s, taken)
  BY DEF Sound
<1>2. h # 0 /\ s.disk[h].tag = "rows" =>
        h \in s.datalist /\ Len(e) \in Nat
  BY <1>1, RowPartFacts, IdxFields DEF Lost
<1>3. CASE h = 0
  <2> DEFINE r == s.datacount + 1
             t == [s EXCEPT !.datacount = r]
  <2>1. o.s = t /\ o.ret = r
    BY <1>3 DEF tvbdataallocate, tvbdatacountgetnext, Done
  <2>2. r \in Row /\ s.datacount < r /\ r..r = {r} /\ r \notin taken
    <3>1. s.datacount \in Nat /\ s.datacount < MaxRow
      BY <1>1, <1>3, IdxFields
    <3>2. taken \subseteq 1..s.datacount
      BY <1>1 DEF RowPart
    <3>3. QED
      BY <3>1, <3>2, SpaceAssumption DEF Row
  <2>3. Sound(t, own, taken \union (r..r))
    BY <2>2, DataCountUp
  <2>4. QED
    BY <2>1, <2>2, <2>3
<1>4. CASE h # 0 /\ s.disk[h].tag # "rows"
  <2>1. o.s = s /\ o.ret = -1
    BY <1>4 DEF tvbdataallocate, Refuse, Done
  <2>2. QED
    BY <2>1
<1>5. CASE h # 0 /\ s.disk[h].tag = "rows" /\ Len(e) > 1 /\ f = 1
  <2>1. o.s = [s EXCEPT !.torn = TRUE] /\ o.ret = -1
    BY <1>5 DEF tvbdataallocate, Fail, Done
  <2>2. Sound(o.s, own, taken)
    BY <2>1, SoundFail
  <2>3. QED
    BY <2>1, <2>2
<1>6. CASE h # 0 /\ s.disk[h].tag = "rows" /\ Len(e) > 1 /\ f # 1
  <2> DEFINE i == Len(e)
             r == e[i]
             t == [s EXCEPT !.disk[h].ents = Without(@, i)]
  <2>1. o.s = t /\ o.ret = r
    BY <1>6 DEF tvbdataallocate, Done
  <2>2. h \in s.datalist /\ i \in 1..Len(e)
    BY <1>2, <1>6
  <2>3. Len(s.disk[h].ents) > 1 /\ i \in 1..Len(s.disk[h].ents)
    BY <1>6, <2>2
  <2> HIDE DEF h, i
  <2>4. r \in Row \ taken
    BY <2>2, <2>3, DataDrop
  <2>5. Sound(t, own, taken \union {r})
    BY <2>2, <2>3, DataDrop
  <2>6. QED
    BY <2>1, <2>4, <2>5
<1>7. CASE h # 0 /\ s.disk[h].tag = "rows" /\ ~(Len(e) > 1)
  <2> DEFINE a == ivbnodefree(s, h, f)
             r == e[1]
             u == [a.s EXCEPT !.datalist =
                     {m \in @ : a.s.disk[m].tag = "rows"}]
             v == [a.s EXCEPT !.datafree = s.disk[h].next,
                              !.datalist = @ \ {h}]
  <2>1. o = IF a.ret = -1 THEN Refuse(u) ELSE Done(v, r)
    BY <1>7 DEF tvbdataallocate
  <2>2. h \in s.datalist /\ Len(e) <= 1
    BY <1>2, <1>7
  <2>3. \/ a.ret = 0 /\ Sound(v, own, taken \union {r})
        \/ a.ret = -1 /\ Sound(u, own, taken)
    BY <2>2, DataRelease, Zenon
  <2> HIDE DEF a, u, v
  <2>4. r \in Row \ taken
    <3>1. r \in (1..s.datacount) \ taken
      BY <1>1, <2>2, LastEntry
    <3>2. s.datacount \in 0..MaxRow
      BY <1>1, IdxFields
    <3>3. QED
      BY <3>1, <3>2, SpaceAssumption DEF Row
  <2>5. QED
    BY <2>1, <2>3, <2>4 DEF Refuse, Done
<1>8. QED
  BY <1>3, <1>4, <1>5, <1>6, <1>7

(* No pointer of the data free list leads back to its head.                *)
LEMMA NotHead ==
  ASSUME NEW s \in Idx, NEW taken, RowPart(s, taken), ~Lost(s),
         NEW prev \in s.datalist, s.disk[prev].next # 0
  PROVE  s.disk[prev].next # s.datafree
<1>1. /\ s.datalist \subseteq Node
      /\ Linked(s.disk, s.datalist, s.datafree)
  BY RowPartFacts
<1>2. \A n \in s.datalist : s.disk[n].next # 0 =>
                              s.disk[n].next # s.datafree
  <2> DEFINE d == s.disk
             l == s.datalist
             h == s.datafree
  <2>1. Linked(d, l, h) /\ l \in SUBSET Node
    BY <1>1
  <2> HIDE DEF d, l, h
  <2>2. \A n \in l : d[n].next # 0 => d[n].next # h
    BY <2>1, LinkedFacts, Zenon
  <2>3. QED
    BY <2>2 DEF d, l, h
<1>3. QED
  BY <1>2

(* The loop of ivbforcedataallocate, at node n, came from prev: from the   *)
(* dictionary (0), or from a node that points at n.                        *)
Behind(s, prev, n) ==
  \/ prev = 0 /\ n = s.datafree
  \/ prev \in s.datalist /\ s.disk[prev].next = n /\ ~Lost(s)

(* What may come of taking the free row r out of the data free list.       *)
Extracted(own, taken, r, o) ==
  \/ o.ret = -1 /\ Sound(o.s, own, taken)
  \/ /\ o.ret = 0 /\ r \in Row \ taken
     /\ Sound(o.s, own, taken \union {r})

(* ivbforcedataallocate takes the row it has found out of the data free    *)
(* list, wherever the row is, or fails.                                    *)
LEMMA ExtractSound ==
  ASSUME NEW s, NEW own, NEW taken, Sound(s, own, taken), NEW f \in Faults,
         NEW n \in s.datalist, NEW i \in 1..Len(s.disk[n].ents), NEW prev,
         Behind(s, prev, n)
  PROVE  Extracted(own, taken, s.disk[n].ents[i],
                   Extract(s, n, prev, i, f))
<1> USE DEF Extracted, Behind
<1> DEFINE o == Extract(s, n, prev, i, f)
           r == s.disk[n].ents[i]
           next == s.disk[n].next
<1>1. /\ s \in Idx /\ RowPart(s, taken)
      /\ s.datalist \subseteq Node /\ 0 \notin s.datalist
  BY RowPartFacts DEF Sound
<1>2. Len(s.disk[n].ents) \in Nat /\ s.datacount \in 0..MaxRow
  BY <1>1, IdxFields
<1>3. CASE Len(s.disk[n].ents) > 1 /\ f = 1
  <2>1. o.s = [s EXCEPT !.torn = TRUE] /\ o.ret = -1
    BY <1>3 DEF Extract, Fail, Done
  <2>2. Sound(o.s, own, taken)
    BY <2>1, SoundFail
  <2>3. QED
    BY <2>1, <2>2
<1>4. CASE Len(s.disk[n].ents) > 1 /\ f # 1
  <2> DEFINE t == [s EXCEPT !.disk[n].ents = Without(@, i)]
  <2>1. o.s = t /\ o.ret = 0
    BY <1>4 DEF Extract, Done
  <2>2. r \in Row \ taken
    BY <1>4, DataDrop
  <2>3. Sound(t, own, taken \union {r})
    BY <1>4, DataDrop
  <2> HIDE DEF o, t, r
  <2>4. QED
    BY <2>1, <2>2, <2>3 DEF o, r
<1>5. ASSUME Len(s.disk[n].ents) <= 1
      PROVE  /\ r = s.disk[n].ents[1] /\ r \in Row \ taken
             /\ ~(Len(s.disk[n].ents) > 1)
  <2>1. i = 1
    BY <1>2, <1>5
  <2>2. s.disk[n].ents[1] \in (1..s.datacount) \ taken
    BY <1>1, <1>5, LastEntry
  <2>3. QED
    BY <1>2, <1>5, <2>1, <2>2, SpaceAssumption DEF Row
<1>6. CASE Len(s.disk[n].ents) <= 1 /\ prev # 0 /\ f = 1
  <2>1. o.s = [s EXCEPT !.torn = TRUE] /\ o.ret = -1
    BY <1>5, <1>6 DEF Extract, Fail, Done
  <2>2. Sound(o.s, own, taken)
    BY <2>1, SoundFail
  <2>3. QED
    BY <2>1, <2>2
<1>7. CASE Len(s.disk[n].ents) <= 1 /\ prev # 0 /\ f # 1
  <2> DEFINE t == [s EXCEPT !.disk[prev].next = next, !.datalist = @ \ {n}]
  <2>1. o.s = t /\ o.ret = 0
    BY <1>5, <1>7 DEF Extract, Done
  <2>2. s.datafree # n
    <3>1. prev \in s.datalist /\ s.disk[prev].next = n /\ n # 0 /\ ~Lost(s)
      BY <1>1, <1>7
    <3>2. QED
      BY <1>1, <3>1, NotHead
  <2>3. Sound(t, own, taken \union {s.disk[n].ents[1]})
    BY <1>7, <2>2, DataUnlink
  <2> HIDE DEF o, t, r
  <2>4. QED
    BY <1>5, <1>7, <2>1, <2>3 DEF o, r
<1>8. CASE Len(s.disk[n].ents) <= 1 /\ prev = 0
  <2> DEFINE h == s.datafree
             u == [s EXCEPT !.datafree = s.disk[h].next,
                            !.datalist = @ \ {h}]
             x == s.disk[h].ents[1]
  <2>1. n = h /\ h \in s.datalist
    BY <1>1, <1>8
  <2>2. o = ivbnodefree(u, n, f)
    BY <1>5, <1>8, <2>1 DEF Extract
  <2>3. Sound(u, own \union {h}, taken \union {x}) /\ h \notin own
    BY <1>8, <2>1, DataDetach
  <2> HIDE DEF u, x, h, o
  <2>4. \/ o.ret = 0 /\ Sound(o.s, (own \union {h}) \ {n}, taken \union {x})
        \/ /\ o.ret = -1 /\ o.s.torn
           /\ Sound(o.s, own \union {h}, taken \union {x})
    <3> DEFINE more == own \union {h}
               all == taken \union {x}
               q == ivbnodefree(u, n, f)
    <3>1. Sound(u, more, all) /\ n \in more
      BY <2>1, <2>3
    <3> HIDE DEF more, all
    <3>2. \/ /\ q.ret = 0 /\ q.s.torn = u.torn
             /\ Sound(q.s, more \ {n}, all)
          \/ q.ret = -1 /\ q.s.torn /\ Sound(q.s, more, all)
      BY <3>1, FreeSound
    <3> HIDE DEF q
    <3>3. o = q
      BY <2>2 DEF q
    <3>4. QED
      BY <3>2, <3>3 DEF more, all
  <2>5. (own \union {h}) \ {n} = own
    BY <2>1, <2>3
  <2>6. CASE o.ret = 0 /\ Sound(o.s, own, taken \union {x})
    BY <1>5, <1>8, <2>1, <2>6 DEF o, x, h
  <2>7. CASE /\ o.ret = -1 /\ o.s.torn
             /\ Sound(o.s, own \union {h}, taken \union {x})
    <3>1. Sound(o.s, own, taken \union {x})
      BY <2>7, SoundOwnLess
    <3>2. Sound(o.s, own, taken)
      BY <2>7, <3>1, SoundWeaker
    <3>3. QED
      BY <2>7, <3>2 DEF o
  <2>8. QED
    BY <2>4, <2>5, <2>6, <2>7
<1>9. QED
  BY <1>2, <1>3, <1>4, <1>6, <1>7, <1>8

-----------------------------------------------------------------------------
(* Part four: the loops of ivbforcedataallocate.                           *)

(* Rows in use: by callers, and those a loop over a gap has still to free. *)
Taken ==
  live \union (IF force.mode = "gap" THEN force.at..force.row ELSE {})

(* The type of force, as TypeOK states it.                                 *)
ForceType ==
  force \in [mode : {"idle", "gap", "scan"}, row : 0..MaxRow,
             at : 0..(MaxRow + MaxNode), prev : 0..MaxNode]

(* In the loop over a gap, the rows still to free lie below the row count  *)
(* and hold no data, and each has a node for the list it may need.         *)
GapPart ==
  force.mode = "gap" =>
    /\ force.at \in 1..force.row /\ force.row = idx.datacount
    /\ idx.nodecount + (force.row - force.at) <= MaxNode
    /\ live \intersect (force.at..force.row) = {}

(* The row is in a node of the data free list that the loop has not        *)
(* passed: at or behind node `at' in the order of the list.                *)
Ahead(s, at, row) ==
  \E k \in Nat : \E o \in [1..k -> s.datalist] :
    /\ Order(s.disk, s.datalist, s.datafree, k, o)
    /\ \E i \in 1..k : /\ o[i] = at
                       /\ \E j \in i..k : row \in Listed(s, o[j])

(* In the loop over the data free list, the row is free, the loop has come *)
(* by the pointers of the list, and without a failed write the row is      *)
(* still ahead.                                                            *)
ScanPart ==
  force.mode = "scan" =>
    /\ force.row \in (1..idx.datacount) \ live
    /\ Behind(idx, force.prev, force.at)
    /\ ~idx.torn => Ahead(idx, force.at, force.row)

(* The inductive invariant.  The properties say nothing of the rows of a   *)
(* gap, of what the dictionary leads to after a failed write, nor of where *)
(* the loops are; each step needs that.                                    *)
IInv == Sound(idx, owned, Taken) /\ ForceType /\ GapPart /\ ScanPart

-----------------------------------------------------------------------------
(* Outside the loops the rows in use are the callers'.                     *)
LEMMA IdleTaken == force = Idle => Taken = live
BY DEF Idle, Taken

(* Outside the loops a sound state is all the invariant asks.              *)
LEMMA IdleInv == force = Idle /\ Sound(idx, owned, live) => IInv
<1>1. ASSUME force = Idle PROVE ForceType /\ GapPart /\ ScanPart
  BY <1>1, SpaceAssumption DEF Idle, ForceType, GapPart, ScanPart
<1>2. QED
  BY <1>1, IdleTaken DEF IInv

(* The same of the state after a step.                                     *)
LEMMA IdleInvNext ==
  force' = Idle /\ Sound(idx', owned', live') => IInv'
<1>1. (force = Idle /\ Sound(idx, owned, live) => IInv)'
  BY IdleInv, PTL
<1>2. QED
  BY <1>1

(* isbuild leaves the invariant: empty lists, three nodes in use.          *)
LEMMA InvInit == Init => IInv
<1> SUFFICES ASSUME Init PROVE IInv
  OBVIOUS
<1>1. /\ idx.disk = [n \in Node |-> TreeBlock]
      /\ idx.datacount = 0 /\ idx.nodecount = 3
      /\ idx.datafree = 0 /\ idx.nodefree = 0
      /\ idx.datalist = {} /\ idx.nodelist = {} /\ idx.torn = FALSE
  BY DEF Init
<1>2. idx \in Idx
  <2>1. [n \in Node |-> TreeBlock] \in [Node -> Block]
    BY BlockTypes, SpaceAssumption
  <2>2. QED
    BY <2>1, SpaceAssumption DEF Init, Idx
<1>3. Linked(idx.disk, {}, 0)
  BY LinkedEmpty
<1>4. Busy(idx, owned) = Fixed
  BY <1>1 DEF Busy, Init
<1>5. NodePart(idx, Fixed)
  BY <1>1, <1>3 DEF NodePart, OnceEach, AllIn, Fixed
<1>6. RowPart(idx, {})
  BY <1>1, <1>3 DEF RowPart, OnceEach, AllIn
<1>7. owned \intersect (idx.datalist \union {idx.datafree}) = {}
  BY <1>1 DEF Init, Fixed
<1>8. Sound(idx, owned, live)
  BY <1>2, <1>4, <1>5, <1>6, <1>7 DEF Sound, Init
<1>9. QED
  BY <1>8, IdleInv DEF Init

(* iswrite takes a row nobody holds, or fails and takes none.              *)
LEMMA AllocRowStep ==
  ASSUME IInv, AllocRow
  PROVE  IInv' /\ (Space!TakeRow \/ UNCHANGED <<live, owned>>)
<1>1. Sound(idx, owned, live) /\ force' = Idle /\ owned' = owned
  BY IdleTaken DEF IInv, AllocRow
<1>2. idx.datacount < MaxRow \/ idx.datafree # 0
  BY DEF AllocRow, RowRoom
<1>3. PICK f \in Faults :
        LET o == tvbdataallocate(idx, f)
        IN  /\ idx' = o.s
            /\ live' = IF o.ret = -1 THEN live ELSE live \union {o.ret}
  BY DEF AllocRow
<1> DEFINE o == tvbdataallocate(idx, f)
<1>4. \/ o.ret = -1 /\ Sound(o.s, owned, live)
      \/ /\ o.ret \in Row \ live
         /\ Sound(o.s, owned, live \union {o.ret})
  BY <1>1, <1>2, DataAlloc
<1> HIDE DEF o
<1>5. CASE o.ret = -1 /\ Sound(o.s, owned, live)
  <2>1. idx' = o.s /\ live' = live
    BY <1>3, <1>5 DEF o
  <2>2. QED
    BY <1>1, <1>5, <2>1, IdleInvNext
<1>6. CASE o.ret \in Row \ live /\ Sound(o.s, owned, live \union {o.ret})
  <2>1. o.ret # -1
    BY <1>6 DEF Row
  <2>2. idx' = o.s /\ live' = live \union {o.ret}
    BY <1>3, <2>1 DEF o
  <2>3. Space!TakeRow
    BY <1>1, <1>6, <2>2 DEF Space!TakeRow
  <2>4. QED
    BY <1>1, <1>6, <2>2, <2>3, IdleInvNext
<1>7. QED
  BY <1>4, <1>5, <1>6

(* isdelete gives back a row that was held, or fails and keeps it.         *)
LEMMA FreeRowStep ==
  ASSUME IInv, FreeRow
  PROVE  IInv' /\ (Space!GiveRow \/ UNCHANGED <<live, owned>>)
<1>1. /\ Sound(idx, owned, live)
      /\ force' = Idle /\ owned' = owned
      /\ idx.nodecount < MaxNode \/ idx.nodefree # 0
  BY IdleTaken DEF IInv, FreeRow, NodeRoom
<1>2. PICK r \in live : \E f \in Faults :
        LET o == ivbdatafree(idx, r, f)
        IN  /\ idx' = o.s
            /\ live' = IF o.ret = -1 THEN live ELSE live \ {r}
  BY DEF FreeRow
<1>3. PICK f \in Faults :
        LET o == ivbdatafree(idx, r, f)
        IN  /\ idx' = o.s
            /\ live' = IF o.ret = -1 THEN live ELSE live \ {r}
  BY <1>2
<1> DEFINE o == ivbdatafree(idx, r, f)
<1>4. \/ o.ret = 0 /\ Sound(o.s, owned, live \ {r})
      \/ o.ret = -1 /\ Sound(o.s, owned, live)
  BY <1>1, DataFree DEF DataFreed
<1> HIDE DEF o
<1>5. CASE o.ret = 0 /\ Sound(o.s, owned, live \ {r})
  <2>1. idx' = o.s /\ live' = live \ {r}
    BY <1>3, <1>5 DEF o
  <2>2. Space!GiveRow
    BY <1>1, <2>1 DEF Space!GiveRow
  <2>3. QED
    BY <1>1, <1>5, <2>1, <2>2, IdleInvNext
<1>6. CASE o.ret = -1 /\ Sound(o.s, owned, live)
  <2>1. idx' = o.s /\ live' = live
    BY <1>3, <1>6 DEF o
  <2>2. QED
    BY <1>1, <1>6, <2>1, IdleInvNext
<1>7. QED
  BY <1>4, <1>5, <1>6

(* inodesplit takes a node that has no use, or fails and takes none.       *)
LEMMA AllocNodeStep ==
  ASSUME IInv, AllocNode
  PROVE  IInv' /\ (Space!TakeNode \/ UNCHANGED <<live, owned>>)
<1>1. /\ Sound(idx, owned, live)
      /\ force' = Idle /\ live' = live
      /\ idx.nodecount < MaxNode \/ idx.nodefree # 0
  BY IdleTaken DEF IInv, AllocNode, NodeRoom
<1>2. PICK f \in Faults :
        LET o == tvbnodeallocate(idx, f)
        IN  \/ o.ret = -1 /\ idx' = o.s /\ owned' = owned
            \/ /\ o.ret # -1
               /\ idx' = [o.s EXCEPT !.disk[o.ret] = TreeBlock]
               /\ owned' = owned \union {o.ret}
  BY DEF AllocNode
<1> DEFINE o == tvbnodeallocate(idx, f)
<1>3. \/ o.ret = -1 /\ Sound(o.s, owned, live)
      \/ /\ o.ret \in Node \ Busy(idx, owned)
         /\ Sound(o.s, owned \union {o.ret}, live)
  BY <1>1, AllocSound
<1> HIDE DEF o
<1>4. CASE o.ret = -1 /\ Sound(o.s, owned, live)
  <2>1. idx' = o.s /\ owned' = owned
    BY <1>2, <1>4 DEF o
  <2>2. QED
    BY <1>1, <1>4, <2>1, IdleInvNext
<1>5. CASE /\ o.ret \in Node \ Busy(idx, owned)
           /\ Sound(o.s, owned \union {o.ret}, live)
  <2>1. o.ret # -1 /\ o.ret \in Node \ owned
    BY <1>5 DEF Node, Busy
  <2>2. /\ idx' = [o.s EXCEPT !.disk[o.ret] = TreeBlock]
        /\ owned' = owned \union {o.ret}
    BY <1>2, <2>1 DEF o
  <2>3. Sound(idx', owned', live)
    BY <1>5, <2>2, TreeWritten
  <2>4. Space!TakeNode
    BY <1>1, <2>1, <2>2 DEF Space!TakeNode
  <2>5. QED
    BY <1>1, <2>3, <2>4, IdleInvNext
<1>6. QED
  BY <1>3, <1>4, <1>5

(* ivbkeydelete gives back a node, or fails and keeps it.                  *)
LEMMA FreeNodeStep ==
  ASSUME IInv, FreeNode
  PROVE  IInv' /\ (Space!GiveNode \/ UNCHANGED <<live, owned>>)
<1>1. /\ Sound(idx, owned, live)
      /\ force' = Idle /\ live' = live
  BY IdleTaken DEF IInv, FreeNode
<1>2. PICK n \in owned \ Fixed : \E f \in Faults :
        LET o == ivbnodefree(idx, n, f)
        IN  /\ idx' = o.s
            /\ owned' = IF o.ret = -1 THEN owned ELSE owned \ {n}
  BY DEF FreeNode
<1>3. PICK f \in Faults :
        LET o == ivbnodefree(idx, n, f)
        IN  /\ idx' = o.s
            /\ owned' = IF o.ret = -1 THEN owned ELSE owned \ {n}
  BY <1>2
<1> DEFINE o == ivbnodefree(idx, n, f)
<1>4. \/ o.ret = 0 /\ Sound(o.s, owned \ {n}, live)
      \/ o.ret = -1 /\ Sound(o.s, owned, live)
  BY <1>1, FreeSound
<1> HIDE DEF o
<1>5. CASE o.ret = 0 /\ Sound(o.s, owned \ {n}, live)
  <2>1. idx' = o.s /\ owned' = owned \ {n}
    BY <1>3, <1>5 DEF o
  <2>2. Space!GiveNode
    BY <1>1, <2>1 DEF Space!GiveNode
  <2>3. QED
    BY <1>1, <1>5, <2>1, <2>2, IdleInvNext
<1>6. CASE o.ret = -1 /\ Sound(o.s, owned, live)
  <2>1. idx' = o.s /\ owned' = owned
    BY <1>3, <1>6 DEF o
  <2>2. QED
    BY <1>1, <1>6, <2>1, IdleInvNext
<1>7. QED
  BY <1>4, <1>5, <1>6

(* ivbforcedataallocate past the end of the file: the rows it skips are in *)
(* use by its loop.                                                        *)
LEMMA ForceBeyondStep ==
  ASSUME IInv, ForceBeyond
  PROVE  IInv' /\ UNCHANGED <<live, owned>>
<1>1. Sound(idx, owned, live) /\ live' = live /\ owned' = owned
  BY IdleTaken DEF IInv, ForceBeyond
<1>2. PICK r \in Row :
        /\ idx.datacount < r
        /\ idx.nodecount + (r - idx.datacount) <= MaxNode
        /\ idx' = [idx EXCEPT !.datacount = r]
        /\ force' = [mode |-> "gap", row |-> r, at |-> idx.datacount + 1,
                     prev |-> 0]
  BY DEF ForceBeyond
<1> DEFINE c == idx.datacount
           more == (c + 1)..r
<1>3. /\ idx \in Idx /\ c \in 0..MaxRow /\ idx.nodecount \in 0..MaxNode
      /\ live \subseteq 1..c
  BY <1>1, IdxFields DEF Sound, RowPart
<1>4. Sound(idx', owned, live \union more)
  BY <1>1, <1>2, DataCountUp
<1>5. Taken' = live \union more
  BY <1>1, <1>2 DEF Taken
<1>6. idx'.datacount = r /\ idx'.nodecount = idx.nodecount
  BY <1>2, <1>3 DEF Idx
<1>7. r \in Nat /\ r <= MaxRow
  BY <1>2, SpaceAssumption DEF Row
<1>8. ForceType'
  BY <1>2, <1>3, <1>7, SpaceAssumption DEF ForceType
<1>9. GapPart'
  <2>1. live \intersect more = {}
    BY <1>3
  <2>2. idx.nodecount + (r - (c + 1)) <= MaxNode
    BY <1>2, <1>3, <1>7, SpaceAssumption
  <2>3. c + 1 \in 1..r
    BY <1>2, <1>3, <1>7
  <2>4. QED
    BY <1>1, <1>2, <1>6, <2>1, <2>2, <2>3 DEF GapPart
<1>10. ScanPart'
  BY <1>2 DEF ScanPart
<1>11. QED
  BY <1>1, <1>4, <1>5, <1>8, <1>9, <1>10 DEF IInv

(* A turn of the loop over the gap frees one row, or loses it when a write *)
(* fails; ivbforcedataallocate ignores which.                              *)
LEMMA GapRowStep ==
  ASSUME IInv, GapRow
  PROVE  IInv' /\ UNCHANGED <<live, owned>>
<1> DEFINE a == force.at
           r == force.row
<1>1. /\ force.mode = "gap" /\ a < r
      /\ force' = [force EXCEPT !.at = a + 1]
      /\ live' = live /\ owned' = owned
  BY DEF GapRow
<1>2. PICK f \in Faults : idx' = ivbdatafree(idx, a, f).s
  BY DEF GapRow
<1>3. /\ Sound(idx, owned, live \union (a..r))
      /\ a \in 1..r /\ r = idx.datacount
      /\ idx.nodecount + (r - a) <= MaxNode
      /\ live \intersect (a..r) = {}
      /\ ForceType
  BY <1>1 DEF IInv, Taken, GapPart
<1>4. /\ force \in [mode : {"gap"}, row : 0..MaxRow,
                    at : 0..(MaxRow + MaxNode), prev : 0..MaxNode]
      /\ a \in Nat /\ r \in 0..MaxRow
  BY <1>1, <1>3, SpaceAssumption DEF ForceType
<1>5. force'.mode = "gap" /\ force'.at = a + 1 /\ force'.row = r
  BY <1>1, <1>4
<1>6. idx.nodecount \in 0..MaxNode
  BY <1>3, IdxFields DEF Sound
<1>7. idx.nodecount < MaxNode
  BY <1>1, <1>3, <1>4, <1>6, SpaceAssumption
<1> DEFINE taken == live \union (a..r)
           rest == live \union ((a + 1)..r)
           o == ivbdatafree(idx, a, f)
<1>8. taken \ {a} = rest /\ a \in taken /\ rest \subseteq taken
  <2>1. (a..r) \ {a} = (a + 1)..r /\ a \in a..r
    BY <1>1, <1>4
  <2>2. a \notin live
    BY <1>3, <2>1
  <2>3. QED
    BY <2>1, <2>2
<1>9. /\ idx'.nodecount \in {idx.nodecount, idx.nodecount + 1}
      /\ idx'.datacount = r
      /\ Sound(idx', owned, rest)
  <2> HIDE DEF taken, rest
  <2>1. Sound(idx, owned, taken)
    BY <1>3 DEF taken
  <2>2. a \in taken /\ idx.nodecount < MaxNode /\ idx.datacount # a
    BY <1>1, <1>3, <1>4, <1>7, <1>8
  <2> HIDE DEF a
  <2>3. DataFreed(idx, owned, taken, a, o)
    BY <2>1, <2>2, DataFree
  <2> HIDE DEF o
  <2>4. Sound(o.s, owned, rest)
    BY <1>8, <2>3, SoundWeaker DEF DataFreed
  <2>5. QED
    BY <1>2, <1>3, <2>2, <2>3, <2>4 DEF DataFreed, o
<1>10. Taken' = rest
  BY <1>1, <1>5 DEF Taken
<1>11. ForceType'
  <2>1. a + 1 \in 0..(MaxRow + MaxNode)
    BY <1>1, <1>4, SpaceAssumption
  <2>2. QED
    BY <1>1, <1>4, <2>1 DEF ForceType
<1>12. GapPart'
  <2>1. live \intersect ((a + 1)..r) = {}
    BY <1>3, <1>4
  <2>2. idx'.nodecount + (r - (a + 1)) <= MaxNode
    BY <1>3, <1>4, <1>6, <1>9, SpaceAssumption
  <2>3. a + 1 \in 1..r
    BY <1>1, <1>4
  <2>4. QED
    BY <1>1, <1>5, <1>9, <2>1, <2>2, <2>3 DEF GapPart
<1>13. ScanPart'
  BY <1>5 DEF ScanPart
<1>14. QED
  BY <1>1, <1>9, <1>10, <1>11, <1>12, <1>13 DEF IInv

(* The loop over the gap ends with the row it was called for, which nobody *)
(* holds.                                                                  *)
LEMMA GapDoneStep ==
  ASSUME IInv, GapDone
  PROVE  IInv' /\ Space!TakeRow
<1> DEFINE r == force.row
<1>1. /\ force.mode = "gap" /\ force.at = r
      /\ live' = live \union {r}
      /\ force' = Idle /\ idx' = idx /\ owned' = owned
  BY DEF GapDone
<1>2. /\ Sound(idx, owned, live \union (r..r))
      /\ r \in 1..idx.datacount /\ idx.datacount \in 0..MaxRow
      /\ live \intersect (r..r) = {}
  BY <1>1, IdxFields DEF IInv, Taken, GapPart, Sound
<1>3. r \in Row /\ r..r = {r}
  BY <1>2, SpaceAssumption DEF Row
<1>4. Sound(idx', owned', live')
  BY <1>1, <1>2, <1>3
<1>5. Space!TakeRow
  BY <1>1, <1>2, <1>3 DEF Space!TakeRow
<1>6. QED
  BY <1>1, <1>4, <1>5, IdleInvNext

(* At the head of the list a row of the list is ahead.                     *)
LEMMA AheadHead ==
  ASSUME NEW s, Linked(s.disk, s.datalist, s.datafree), NEW row,
         Holds(s.disk, s.datalist, row)
  PROVE  Ahead(s, s.datafree, row)
<1>1. PICK k \in Nat : \E o \in [1..k -> s.datalist] :
                         Order(s.disk, s.datalist, s.datafree, k, o)
  BY DEF Linked
<1>2. PICK o \in [1..k -> s.datalist] :
              Order(s.disk, s.datalist, s.datafree, k, o)
  BY <1>1
<1>3. PICK n \in s.datalist :
              \E i \in 1..Len(s.disk[n].ents) : s.disk[n].ents[i] = row
  BY DEF Holds
<1>4. row \in Listed(s, n)
  BY <1>3 DEF Listed
<1>5. PICK j \in 1..k : o[j] = n
  BY <1>2 DEF Order
<1>6. 1 \in 1..k /\ o[1] = s.datafree
  BY <1>2, <1>5 DEF Order
<1>7. QED
  BY <1>2, <1>4, <1>5, <1>6 DEF Ahead

(* A row that is ahead, and not in the node, is ahead of the next one.     *)
LEMMA AheadNext ==
  ASSUME NEW s, NEW at, NEW row, Ahead(s, at, row), row \notin Listed(s, at)
  PROVE  Ahead(s, s.disk[at].next, row)
<1>1. PICK k \in Nat : \E o \in [1..k -> s.datalist] :
        /\ Order(s.disk, s.datalist, s.datafree, k, o)
        /\ \E i \in 1..k : /\ o[i] = at
                           /\ \E j \in i..k : row \in Listed(s, o[j])
  BY DEF Ahead
<1>2. PICK o \in [1..k -> s.datalist] :
        /\ Order(s.disk, s.datalist, s.datafree, k, o)
        /\ \E i \in 1..k : /\ o[i] = at
                           /\ \E j \in i..k : row \in Listed(s, o[j])
  BY <1>1
<1>3. PICK i \in 1..k : /\ o[i] = at
                        /\ \E j \in i..k : row \in Listed(s, o[j])
  BY <1>2
<1>4. PICK j \in i..k : row \in Listed(s, o[j])
  BY <1>3
<1>5. i # j
  BY <1>3, <1>4
<1>6. i + 1 \in 1..k /\ j \in (i + 1)..k /\ i # k
  BY <1>5
<1>7. s.disk[at].next = o[i + 1]
  BY <1>2, <1>3, <1>6 DEF Order
<1>8. QED
  BY <1>2, <1>4, <1>6, <1>7 DEF Ahead

(* While a row is ahead the loop is at a node of the list.                 *)
LEMMA AheadListed ==
  ASSUME NEW s, NEW at, NEW row, Ahead(s, at, row)
  PROVE  at \in s.datalist
BY DEF Ahead

(* What the steps of the loop over the list need of the invariant.         *)
LEMMA ScanFacts ==
  ASSUME IInv, force.mode = "scan"
  PROVE  /\ Sound(idx, owned, live)
         /\ idx \in Idx /\ RowPart(idx, live)
         /\ force.row \in Row /\ force.row \notin live
         /\ force.at \in idx.datalist \union {0} \/ Lost(idx)
<1>1. Sound(idx, owned, live)
  BY DEF IInv, Taken
<1>2. idx \in Idx /\ RowPart(idx, live)
  BY <1>1 DEF Sound
<1>3. force.row \in Row /\ force.row \notin live
  BY <1>2, IdxFields, SpaceAssumption DEF IInv, ScanPart, Row
<1>4. force.at \in idx.datalist \union {0} \/ Lost(idx)
  BY <1>2, RowPartFacts DEF IInv, ScanPart, Behind
<1>5. QED
  BY <1>1, <1>2, <1>3, <1>4

(* ivbforcedataallocate of a free row below the row count: the row is on   *)
(* the list, ahead of the loop.                                            *)
LEMMA ForceWithinStep ==
  ASSUME IInv, ForceWithin
  PROVE  IInv' /\ UNCHANGED <<live, owned>>
<1>1. /\ Sound(idx, owned, live)
      /\ idx' = idx /\ live' = live /\ owned' = owned
  BY IdleTaken DEF IInv, ForceWithin
<1>2. PICK r \in (1..idx.datacount) \ live :
        force' = [mode |-> "scan", row |-> r, at |-> idx.datafree,
                  prev |-> 0]
  BY DEF ForceWithin
<1>3. /\ idx \in Idx /\ RowPart(idx, live)
      /\ idx.datafree \in 0..MaxNode /\ idx.datacount \in 0..MaxRow
  BY <1>1, IdxFields DEF Sound
<1>4. Taken' = live
  BY <1>1, <1>2 DEF Taken
<1>5. ForceType'
  <2>1. r \in 0..MaxRow
    BY <1>3, SpaceAssumption
  <2>2. idx.datafree \in 0..(MaxRow + MaxNode) /\ 0 \in 0..MaxNode
    BY <1>3, SpaceAssumption
  <2>3. QED
    BY <1>2, <2>1, <2>2 DEF ForceType
<1>6. GapPart'
  BY <1>2 DEF GapPart
<1>7. ~idx.torn => Ahead(idx, idx.datafree, r)
  <2>1. ASSUME ~idx.torn PROVE Ahead(idx, idx.datafree, r)
    <3>1. Linked(idx.disk, idx.datalist, idx.datafree)
      BY <1>3, <2>1, RowPartFacts DEF Lost
    <3>2. Holds(idx.disk, idx.datalist, r)
      BY <1>3, <2>1 DEF RowPart
    <3>3. QED
      BY <3>1, <3>2, AheadHead
  <2>2. QED
    BY <2>1
<1>8. ScanPart'
  BY <1>1, <1>2, <1>7 DEF ScanPart, Behind
<1>9. QED
  BY <1>1, <1>4, <1>5, <1>6, <1>8 DEF IInv

(* The loop ends without the row: nothing has changed.                     *)
LEMMA ScanEndStep ==
  ASSUME IInv, ScanEnd
  PROVE  IInv' /\ UNCHANGED <<live, owned>>
<1>1. Sound(idx, owned, live)
  BY ScanFacts DEF ScanEnd
<1>2. QED
  BY <1>1, IdleInvNext DEF ScanEnd

(* A turn of the loop that does not find the row: the row is still ahead.  *)
LEMMA ScanNextStep ==
  ASSUME IInv, ScanNext
  PROVE  IInv' /\ UNCHANGED <<live, owned>>
<1> DEFINE a == force.at
           r == force.row
           next == idx.disk[a].next
<1>1. /\ force.mode = "scan" /\ a # 0 /\ idx.disk[a].tag = "rows"
      /\ \A i \in 1..Len(idx.disk[a].ents) : idx.disk[a].ents[i] # r
      /\ force' = [force EXCEPT !.prev = a, !.at = next]
      /\ idx' = idx /\ live' = live /\ owned' = owned
  BY DEF ScanNext
<1>2. /\ Sound(idx, owned, live) /\ idx \in Idx /\ RowPart(idx, live)
      /\ a \in idx.datalist \union {0} \/ Lost(idx)
  BY <1>1, ScanFacts
<1>3. ~Lost(idx)
  BY <1>1 DEF IInv, ScanPart, Behind, Lost
<1>4. a \in idx.datalist /\ next \in 0..MaxNode /\ a \in 0..MaxNode
  <2>1. a \in idx.datalist /\ idx.datalist \subseteq Node
    BY <1>1, <1>2, <1>3, IdxFields
  <2>2. QED
    BY <1>2, <2>1, IdxFields, SpaceAssumption DEF Node
<1>5. /\ ForceType /\ r \in (1..idx.datacount) \ live
      /\ ~idx.torn => Ahead(idx, a, r)
  BY <1>1 DEF IInv, ScanPart
<1>6. /\ force'.mode = "scan" /\ force'.row = r
      /\ force'.at = next /\ force'.prev = a
  BY <1>1, <1>5 DEF ForceType
<1>7. ForceType'
  <2>1. next \in 0..(MaxRow + MaxNode)
    BY <1>4, SpaceAssumption
  <2>2. QED
    BY <1>1, <1>4, <1>5, <2>1 DEF ForceType
<1>8. Taken' = live
  BY <1>1, <1>6 DEF Taken
<1>9. GapPart'
  BY <1>6 DEF GapPart
<1>10. ~idx.torn => Ahead(idx, next, r)
  <2>1. r \notin Listed(idx, a)
    BY <1>1 DEF Listed
  <2>2. QED
    BY <1>5, <2>1, AheadNext
<1>11. ScanPart'
  BY <1>1, <1>3, <1>4, <1>5, <1>6, <1>10 DEF ScanPart, Behind
<1>12. QED
  BY <1>1, <1>2, <1>7, <1>8, <1>9, <1>11 DEF IInv

(* The loop takes the row, which nobody holds, or a write fails and the    *)
(* row stays free.                                                         *)
LEMMA ScanFoundStep ==
  ASSUME IInv, ScanFound
  PROVE  IInv' /\ (Space!TakeRow \/ UNCHANGED <<live, owned>>)
<1> DEFINE a == force.at
           p == force.prev
           r == force.row
<1>1. /\ force.mode = "scan" /\ a # 0 /\ idx.disk[a].tag = "rows"
      /\ force' = Idle /\ owned' = owned
  BY DEF ScanFound
<1>2. PICK i \in 1..Len(idx.disk[a].ents) : \E f \in Faults :
        LET o == Extract(idx, a, p, i, f)
        IN  /\ idx.disk[a].ents[i] = r
            /\ idx' = o.s
            /\ live' = IF o.ret = -1 THEN live ELSE live \union {r}
  BY DEF ScanFound
<1>3. PICK f \in Faults :
        LET o == Extract(idx, a, p, i, f)
        IN  /\ idx.disk[a].ents[i] = r
            /\ idx' = o.s
            /\ live' = IF o.ret = -1 THEN live ELSE live \union {r}
  BY <1>2
<1>4. /\ Sound(idx, owned, live) /\ RowPart(idx, live)
      /\ r \in Row /\ r \notin live
      /\ a \in idx.datalist \union {0} \/ Lost(idx)
  BY <1>1, ScanFacts
<1>5. Behind(idx, p, a) /\ a \in idx.datalist
  BY <1>1, <1>4 DEF IInv, ScanPart, Behind, Lost
<1> DEFINE o == Extract(idx, a, p, i, f)
<1>6. \/ o.ret = -1 /\ Sound(o.s, owned, live)
      \/ /\ o.ret = 0
         /\ Sound(o.s, owned, live \union {idx.disk[a].ents[i]})
  <2>1. Extracted(owned, live, idx.disk[a].ents[i], o)
    BY <1>4, <1>5, ExtractSound
  <2> HIDE DEF o
  <2>2. QED
    BY <2>1 DEF Extracted
<1> HIDE DEF o
<1>7. CASE o.ret = -1 /\ Sound(o.s, owned, live)
  <2>1. idx' = o.s /\ live' = live
    BY <1>3, <1>7 DEF o
  <2>2. QED
    BY <1>1, <1>7, <2>1, IdleInvNext
<1>8. CASE /\ o.ret = 0
           /\ Sound(o.s, owned, live \union {idx.disk[a].ents[i]})
  <2>1. /\ idx' = o.s /\ live' = live \union {r}
        /\ r = idx.disk[a].ents[i]
    BY <1>3, <1>8 DEF o
  <2>2. Space!TakeRow
    BY <1>1, <1>4, <2>1 DEF Space!TakeRow
  <2>3. QED
    BY <1>1, <1>8, <2>1, <2>2, IdleInvNext
<1>9. QED
  BY <1>6, <1>7, <1>8

(* Every step keeps the invariant, and is a step of VBSpace or a stutter.  *)
LEMMA InvNext ==
  IInv /\ [Next]_vars => IInv' /\ [Space!Next]_<<live, owned>>
<1> SUFFICES ASSUME IInv, [Next]_vars
             PROVE  IInv' /\ [Space!Next]_<<live, owned>>
  OBVIOUS
<1> USE DEF Space!Next
<1>1. CASE AllocRow
  BY <1>1, AllocRowStep
<1>2. CASE FreeRow
  BY <1>2, FreeRowStep
<1>3. CASE AllocNode
  BY <1>3, AllocNodeStep
<1>4. CASE FreeNode
  BY <1>4, FreeNodeStep
<1>5. CASE ForceBeyond
  BY <1>5, ForceBeyondStep
<1>6. CASE GapRow
  BY <1>6, GapRowStep
<1>7. CASE GapDone
  BY <1>7, GapDoneStep
<1>8. CASE ForceWithin
  BY <1>8, ForceWithinStep
<1>9. CASE ScanEnd
  BY <1>9, ScanEndStep
<1>10. CASE ScanNext
  BY <1>10, ScanNextStep
<1>11. CASE ScanFound
  BY <1>11, ScanFoundStep
<1>12. CASE UNCHANGED vars
  BY <1>12 DEF vars, IInv, Sound, NodePart, RowPart, Busy, Taken, ForceType,
               GapPart, ScanPart
<1>13. QED
  BY <1>1, <1>2, <1>3, <1>4, <1>5, <1>6, <1>7, <1>8, <1>9, <1>10, <1>11,
     <1>12 DEF Next

(* The invariant holds throughout, whichever writes fail.                  *)
THEOREM Inductive == Spec => []IInv
<1>1. IInv /\ [Next]_vars => IInv'
  BY InvNext
<1>2. QED
  BY InvInit, <1>1, PTL DEF Spec

-----------------------------------------------------------------------------
(* Part five: the theorems.                                                *)

(* The invariant implies the types.                                        *)
LEMMA InvTypeOK == IInv => TypeOK
<1> SUFFICES ASSUME IInv PROVE TypeOK
  OBVIOUS
<1>1. /\ idx \in Idx /\ owned \subseteq Node /\ RowPart(idx, Taken)
  BY SoundFacts DEF IInv
<1>2. live \subseteq 1..idx.datacount /\ idx.datacount \in 0..MaxRow
  BY <1>1, IdxFields DEF RowPart, Taken
<1>3. live \subseteq Row
  BY <1>2, SpaceAssumption DEF Row
<1>4. QED
  BY <1>1, <1>3 DEF TypeOK, IInv, ForceType

(* Every value keeps its type: no operation of vbindexio.c leaves a row or *)
(* node number outside the file's.                                         *)
THEOREM TypeCorrect == Spec => []TypeOK
BY Inductive, InvTypeOK, PTL

(* The invariant implies RowsExclusive.                                    *)
LEMMA InvRows == IInv => RowsExclusive
<1> SUFFICES ASSUME IInv PROVE RowsExclusive
  OBVIOUS
<1>1. RowPart(idx, Taken) /\ live \subseteq Taken
  BY DEF IInv, Sound, Taken
<1> DEFINE S == (1..idx.datacount) \ Taken
<1>2. FreeRows(idx) \subseteq S
  BY <1>1 DEF RowPart, AllIn, FreeRows, Listed
<1>3. Taken \subseteq 1..idx.datacount
  BY <1>1 DEF RowPart
<1>4. \A n, m \in idx.datalist :
        \A i \in 1..Len(idx.disk[n].ents), j \in 1..Len(idx.disk[m].ents) :
          idx.disk[n].ents[i] = idx.disk[m].ents[j] => n = m /\ i = j
  BY <1>1 DEF RowPart, OnceEach
<1>5. QED
  BY <1>1, <1>2, <1>3, <1>4 DEF RowsExclusive

(* tvbdataallocate never hands out a row somebody uses, and a free row is  *)
(* listed once, whichever writes of earlier calls have failed.             *)
THEOREM RowsOnce == Spec => []RowsExclusive
BY Inductive, InvRows, PTL

(* The invariant implies NodesExclusive.                                   *)
LEMMA InvNodes == IInv => NodesExclusive
<1> SUFFICES ASSUME IInv PROVE NodesExclusive
  OBVIOUS
<1> DEFINE used == Busy(idx, owned)
           S == (1..idx.nodecount) \ (used \union idx.nodelist)
           inner == UNION {Listed(idx, n) : n \in idx.nodelist}
<1>1. /\ NodePart(idx, used)
      /\ owned \intersect idx.datalist = {}
      /\ owned \union idx.datalist \subseteq used
  BY DEF IInv, Sound, Busy
<1> HIDE DEF used
<1>2. inner \subseteq S
  BY <1>1 DEF NodePart, AllIn, Listed
<1>3. /\ used \union idx.nodelist \subseteq 1..idx.nodecount
      /\ used \intersect idx.nodelist = {}
  BY <1>1 DEF NodePart
<1>4. FreeNodes(idx) \intersect used = {}
  BY <1>2, <1>3 DEF FreeNodes
<1>5. FreeNodes(idx) \union used \subseteq 1..idx.nodecount
  BY <1>2, <1>3 DEF FreeNodes
<1>6. \A n, m \in idx.nodelist :
        \A i \in 1..Len(idx.disk[n].ents), j \in 1..Len(idx.disk[m].ents) :
          /\ idx.disk[n].ents[i] \notin idx.nodelist
          /\ idx.disk[n].ents[i] = idx.disk[m].ents[j] => n = m /\ i = j
  <2>1. \A n \in idx.nodelist : \A i \in 1..Len(idx.disk[n].ents) :
          idx.disk[n].ents[i] \notin idx.nodelist
    BY <1>1 DEF NodePart, AllIn
  <2>2. \A n, m \in idx.nodelist :
          \A i \in 1..Len(idx.disk[n].ents), j \in 1..Len(idx.disk[m].ents) :
            idx.disk[n].ents[i] = idx.disk[m].ents[j] => n = m /\ i = j
    BY <1>1 DEF NodePart, OnceEach
  <2>3. QED
    BY <2>1, <2>2
<1>7. QED
  BY <1>1, <1>4, <1>5, <1>6 DEF NodesExclusive

(* A node has one use at a time, a tree's, a carrier of the data free      *)
(* list, or free, whichever writes of earlier calls have failed.           *)
THEOREM NodesOnce == Spec => []NodesExclusive
BY Inductive, InvNodes, PTL

(* The invariant implies RowsAccounted.                                    *)
LEMMA InvAccounted == IInv => RowsAccounted
<1> SUFFICES ASSUME IInv, ~idx.torn, force.mode # "gap"
             PROVE  live \union FreeRows(idx) = 1..idx.datacount
  BY DEF RowsAccounted
<1>1. RowPart(idx, live)
  BY DEF IInv, Sound, Taken
<1>2. \A r \in (1..idx.datacount) \ live : r \in FreeRows(idx)
  BY <1>1 DEF RowPart, Holds, FreeRows, Listed
<1>3. FreeRows(idx) \subseteq 1..idx.datacount
  BY <1>1 DEF RowPart, AllIn, FreeRows, Listed
<1>4. live \subseteq 1..idx.datacount
  BY <1>1 DEF RowPart
<1>5. QED
  BY <1>2, <1>3, <1>4

(* Without write failures every row below the row count is in use or on    *)
(* the data free list: the space of a deleted row is found again.          *)
THEOREM RowsKept == Spec => []RowsAccounted
BY Inductive, InvAccounted, PTL

(* The invariant implies NoIntegrityError.                                 *)
LEMMA InvIntegrity == IInv => NoIntegrityError
<1> SUFFICES ASSUME IInv, ~idx.torn
             PROVE  /\ \A n \in idx.datalist : idx.disk[n].ents # <<>>
                    /\ force.mode = "scan" =>
                         force.at # 0 /\ idx.disk[force.at].tag = "rows"
  BY DEF NoIntegrityError
<1>1. idx \in Idx /\ RowPart(idx, Taken)
  BY DEF IInv, Sound
<1>2. \A n \in idx.datalist :
        idx.disk[n].tag = "rows" /\ idx.disk[n].ents # <<>> /\ n # 0
  BY <1>1, RowPartFacts DEF RowPart
<1>3. force.mode = "scan" => force.at \in idx.datalist
  BY AheadListed DEF IInv, ScanPart
<1>4. QED
  BY <1>2, <1>3

(* Without write failures neither integrity error of vbindexio.c is        *)
(* reached: ivbforcedataallocate always finds the free row it is told to   *)
(* take.                                                                   *)
THEOREM ScanFinds == Spec => []NoIntegrityError
BY Inductive, InvIntegrity, PTL

(* The invariant implies ListsReachable.                                   *)
LEMMA InvReachable == IInv => ListsReachable
<1> SUFFICES ASSUME IInv, ~idx.torn
             PROVE  /\ Chain(idx, idx.datafree) = idx.datalist
                    /\ Chain(idx, idx.nodefree) = idx.nodelist
  BY DEF ListsReachable
<1>1. /\ idx \in Idx /\ RowPart(idx, Taken)
      /\ idx.datalist \in SUBSET Node /\ idx.nodelist \in SUBSET Node
      /\ Linked(idx.disk, idx.nodelist, idx.nodefree)
  BY SoundFacts DEF IInv, NodePart
<1>2. Linked(idx.disk, idx.datalist, idx.datafree)
  BY <1>1, RowPartFacts DEF Lost
<1>3. Chain(idx, idx.datafree) = idx.datalist
  BY <1>1, <1>2, ChainNodes
<1>4. Chain(idx, idx.nodefree) = idx.nodelist
  BY <1>1, ChainNodes
<1>5. QED
  BY <1>3, <1>4

(* Without write failures the pointers lead to every node of both free     *)
(* lists and end: none is lost, and no list is circular.                   *)
THEOREM ListsFollowed == Spec => []ListsReachable
BY Inductive, InvReachable, PTL

(* The allocator implements VBSpace: it hands out what is free and takes   *)
(* back what was handed out, whatever it keeps on disk and whichever       *)
(* writes fail.                                                            *)
THEOREM ImplementsSpace == Spec => SpaceSpec
<1>1. Init => Space!Init
  BY DEF Init, Space!Init
<1>2. IInv /\ [Next]_vars => [Space!Next]_<<live, owned>>
  BY InvNext
<1>3. QED
  BY Inductive, <1>1, <1>2, PTL DEF Spec, SpaceSpec, Space!Spec
=============================================================================
