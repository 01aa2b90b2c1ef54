---------------------------- MODULE VBTransProofs ----------------------------
(***************************************************************************)
(* Proofs about VBTrans. The first part is about types, keys, the log, the *)
(* row locks and the free list; the second, at the end of the module,      *)
(* about rollbacks and VBAtomic. The first part holds for every number of  *)
(* processes, keys, rows and log records, and whether other processes keep *)
(* a rollback from going on (Busy) or not.                                 *)
(*                                                                         *)
(* The log only grows, and a process adds records of its own only; so the  *)
(* views of a process that the invariants are about (its changes, those    *)
(* its walk has still to come to, the rows they touch) change with its own *)
(* actions alone (OthersKept). What an action of the process does to them  *)
(* is ChangeView for a call that logs a change, SameView where a walk      *)
(* begins and StepView where it goes on.                                   *)
(*                                                                         *)
(* The theorems about locks and the free list are about tables opened with *)
(* ISTRANS; without it TLC refutes the one about the free list             *)
(* (MCVBTransPlain.cfg). That one also supposes process numbers that fit   *)
(* in two bytes (PidsDistinct): a commit finds none of its records         *)
(* otherwise.                                                              *)
(***************************************************************************)
EXTENDS VBTrans, SequencesExt, SequenceTheorems, WellFoundedInduction,
        FiniteSetTheorems, TLAPS

(* A nonempty set of natural numbers has a least member.                   *)
LEMMA LeastNumber ==
  ASSUME NEW T \in SUBSET Nat, T # {}
  PROVE  \E x \in T : \A y \in T : x <= y
<1> DEFINE R == OpToRel(<, Nat)
<1>1. IsWellFoundedOn(R, Nat)
  BY NatLessThanWellFounded
<1>2. \A x, y \in Nat : x < y => <<x, y>> \in R
  BY DEF OpToRel
<1> HIDE DEF R
<1>3. PICK x \in T : \A y \in T : <<y, x>> \notin R
  BY <1>1, WFMin
<1>4. ASSUME NEW y \in T PROVE x <= y
  <2>1. x \in Nat /\ y \in Nat /\ ~(y < x)
    BY <1>2, <1>3
  <2>2. QED
    BY <2>1
<1>5. QED
  BY <1>3, <1>4

(* Min of a nonempty set of natural numbers is its least member.           *)
LEMMA MinNumber ==
  ASSUME NEW T \in SUBSET Nat, T # {}
  PROVE  Min(T) \in T /\ \A y \in T : Min(T) <= y
<1>1. \E x \in T : \A y \in T : x <= y
  BY LeastNumber
<1>2. QED
  BY <1>1 DEF Min

(* Max of a nonempty bounded set of natural numbers is its greatest member.*)
LEMMA MaxNumber ==
  ASSUME NEW T \in SUBSET Nat, T # {}, NEW n \in Nat, \A y \in T : y <= n
  PROVE  Max(T) \in T /\ \A y \in T : y <= Max(T)
<1> DEFINE U == {n - y : y \in T}
<1>1. U \in SUBSET Nat /\ U # {}
  <2>1. ASSUME NEW y \in T PROVE n - y \in Nat
    <3>1. y \in Nat /\ y <= n
      OBVIOUS
    <3>2. QED
      BY <3>1
  <2>2. QED
    BY <2>1
<1>2. PICK u \in U : \A w \in U : u <= w
  <2> HIDE DEF U
  <2>1. QED
    BY <1>1, LeastNumber
<1>3. PICK x \in T : u = n - x
  BY <1>2
<1>4. ASSUME NEW y \in T PROVE x >= y
  <2>1. n - y \in U
    OBVIOUS
  <2>2. n - x <= n - y
    BY <1>2, <1>3, <2>1
  <2>3. QED
    BY <2>2
<1>5. Max(T) \in T /\ \A y \in T : Max(T) >= y
  BY <1>4 DEF Max
<1>6. QED
  BY <1>5

(* Front and Last of a sequence that is not empty.                         *)
LEMMA FrontFacts ==
  ASSUME NEW S, NEW s \in Seq(S), s # <<>>
  PROVE  /\ Front(s) \in Seq(S) /\ Len(Front(s)) = Len(s) - 1
         /\ \A i \in 1..(Len(s) - 1) : Front(s)[i] = s[i]
         /\ Last(s) = s[Len(s)] /\ Len(s) \in 1..Len(s) /\ Last(s) \in S
<1>1. Len(s) \in Nat /\ Len(s) # 0
  BY EmptySeq
<1>2. \A i \in 1..(Len(s) - 1) : s[i] \in S
  BY <1>1, ElementOfSeq
<1>3. /\ SubSeq(s, 1, Len(s) - 1) \in Seq(S)
      /\ Len(SubSeq(s, 1, Len(s) - 1)) = Len(s) - 1
      /\ \A i \in 1..(Len(s) - 1) : SubSeq(s, 1, Len(s) - 1)[i] = s[i]
  <2>1. /\ SubSeq(s, 1, Len(s) - 1) \in Seq(S)
        /\ Len(SubSeq(s, 1, Len(s) - 1)) =
             IF 1 <= Len(s) - 1 THEN (Len(s) - 1) - 1 + 1 ELSE 0
        /\ \A i \in 1..((Len(s) - 1) - 1 + 1) :
             SubSeq(s, 1, Len(s) - 1)[i] = s[1 + i - 1]
    BY <1>1, <1>2, SubSeqProperties
  <2> DEFINE f == SubSeq(s, 1, Len(s) - 1)
             n == Len(s)
  <2> HIDE DEF f, n
  <2>2. /\ f \in Seq(S) /\ n \in Nat /\ n # 0
        /\ Len(f) = IF 1 <= n - 1 THEN (n - 1) - 1 + 1 ELSE 0
        /\ \A i \in 1..((n - 1) - 1 + 1) : f[i] = s[1 + i - 1]
    BY <1>1, <2>1 DEF f, n
  <2>3. Len(f) = n - 1 /\ \A i \in 1..(n - 1) : f[i] = s[i]
    BY <2>2
  <2>4. QED
    BY <2>2, <2>3 DEF f, n
<1>4. QED
  BY <1>1, <1>3, ElementOfSeq DEF Front, Last

-----------------------------------------------------------------------------

(* The types. Space, Rec and Modes are those of TypeOK; the log is in the  *)
(* form the facts about sequences ask for.                                 *)
Space == [count : 0..MaxRow, free : Seq(Row)]

Rec == [proc : Proc, pid : 0..(Word - 1), row : 0..MaxRow, old : Value,
        op : {"BW", "IN", "DE", "UP", "CW", "RW"}]

(* The record of a change has a row of the table.                          *)
RowRec(e) == e.op \in {"IN", "DE", "UP"} => e.row \in Row

LogPart ==
  /\ log \in Seq(Rec)
  /\ \A i \in 1..Len(log) : RowRec(log[i])

Modes == {"none", "begin", "needflush", "commit", "rollback"}
Files == {"open", "shut", "closed", "plain"}

(* TypeOK, made inductive: with the rows of the changes.                   *)
TypeInv ==
  /\ LogPart
  /\ data \in [Row -> Value]
  /\ space \in Space
  /\ ivbintrans \in [Proc -> Modes]
  /\ at \in [Proc -> 0..Len(log)]
  /\ file \in [Proc -> Files]
  /\ rowlock \in [Row -> Proc \union {NoProc}]
  /\ letgo \in [Proc -> SUBSET Row]

(* Rows are positive numbers.                                              *)
LEMMA MaxRowType == MaxRow \in Nat /\ \A r \in Row : r \in Nat /\ r # 0
  BY TransAssumption DEF Row

(* Freeing a row leaves a count and rows.                                  *)
LEMMA FreedType ==
  ASSUME NEW s \in Space, NEW r \in Row
  PROVE  Freed(s, r) \in Space
<1>1. s.free \in Seq(Row) /\ <<r>> \in Seq(Row) /\ s.count \in 0..MaxRow
  BY DEF Space
<1>2. Append(s.free, r) \in Seq(Row)
  BY <1>1
<1>3. CASE s.count = r
  <2>1. r - 1 \in 0..MaxRow
    BY MaxRowType DEF Row
  <2>2. QED
    BY <1>3, <2>1 DEF Freed, Space
<1>4. CASE s.count # r
  BY <1>2, <1>4 DEF Freed, Space
<1>5. QED
  BY <1>3, <1>4

(* Taking a row leaves a count and rows, and the row is one of the table.  *)
LEMMA TakenType ==
  ASSUME NEW s \in Space, NextRow(s) <= MaxRow
  PROVE  Taken(s) \in Space /\ NextRow(s) \in Row
<1>1. s.free \in Seq(Row) /\ s.count \in 0..MaxRow
  BY DEF Space
<1>2. CASE s.free = <<>>
  <2>1. s.count + 1 \in 0..MaxRow /\ s.count + 1 \in Row
    BY <1>1, <1>2, MaxRowType DEF NextRow, Row
  <2>2. QED
    BY <1>2, <2>1 DEF NextRow, Taken, Space
<1>3. CASE s.free # <<>>
  <2>1. Front(s.free) \in Seq(Row) /\ Last(s.free) \in Row
    BY <1>1, <1>3, FrontFacts
  <2>2. QED
    BY <1>3, <2>1 DEF NextRow, Taken, Space
<1>4. QED
  BY <1>2, <1>3

(* Prev is the last record of the process below a place in the log, or 0.  *)
LEMMA PrevFacts ==
  ASSUME NEW p \in Proc, NEW i \in Nat
  PROVE  /\ Prev(p, i) \in Nat
         /\ \/ Prev(p, i) = 0
            \/ Prev(p, i) \in 1..(i - 1) /\ Ours(p, Prev(p, i))
         /\ \A j \in 1..(i - 1) : Ours(p, j) => j <= Prev(p, i)
<1> DEFINE T == {0} \union {j \in 1..(i - 1) : Ours(p, j)}
<1>1. T \in SUBSET Nat /\ T # {} /\ \A j \in T : j <= i
  OBVIOUS
<1>2. \A j \in T : j = 0 \/ (j \in 1..(i - 1) /\ Ours(p, j))
  OBVIOUS
<1>3. Prev(p, i) = Max(T)
  BY DEF Prev
<1>4. \A j \in 1..(i - 1) : Ours(p, j) => j \in T
  OBVIOUS
<1> HIDE DEF T
<1>5. Max(T) \in T /\ \A j \in T : j <= Max(T)
  BY <1>1, MaxNumber
<1>6. QED
  BY <1>1, <1>2, <1>3, <1>4, <1>5

(* Short makes two bytes of any number.                                    *)
LEMMA ShortRange == \A x \in Nat : Short(x) \in 0..(Word - 1)
<1> DEFINE w == Word
<1>1. w \in Nat /\ w # 0
  BY DEF Word
<1> HIDE DEF w
<1>2. \A x \in Nat : x % w \in 0..(w - 1)
  BY <1>1
<1>3. QED
  BY <1>2 DEF Short, w

(* A log record has its type and its fields.                               *)
LEMMA RecordType ==
  ASSUME NEW p \in Proc, NEW op \in {"BW", "IN", "DE", "UP", "CW", "RW"},
         NEW r \in 0..MaxRow, NEW old \in Value
  PROVE  /\ Record(p, op, r, old) \in Rec
         /\ Record(p, op, r, old).proc = p
         /\ Record(p, op, r, old).pid = Short(Pid[p])
         /\ Record(p, op, r, old).op = op
         /\ Record(p, op, r, old).row = r
         /\ Record(p, op, r, old).old = old
<1> DEFINE n == Short(Pid[p])
<1>1. n \in 0..(Word - 1)
  <2>1. Pid[p] \in Nat
    BY TransAssumption
  <2>2. QED
    BY <2>1, ShortRange
<1>2. Record(p, op, r, old) =
        [proc |-> p, pid |-> n, op |-> op, row |-> r, old |-> old]
  BY DEF Record
<1> HIDE DEF n
<1>3. [proc |-> p, pid |-> n, op |-> op, row |-> r, old |-> old] \in Rec
  BY <1>1 DEF Rec
<1> USE DEF n
<1>4. QED
  BY <1>2, <1>3

(* One record more at the end of the log. *)
Added(l, m, e) ==
  /\ m \in Seq(Rec) /\ Len(m) = Len(l) + 1 /\ m[Len(m)] = e
  /\ \A i \in 1..Len(l) : m[i] = l[i]

(* Append and concatenation add a record at the end.                       *)
LEMMA AppendAdds ==
  ASSUME NEW l \in Seq(Rec), NEW e \in Rec
  PROVE  Added(l, Append(l, e), e) /\ Added(l, l \o <<e>>, e)
<1>1. <<e>> \in Seq(Rec) /\ Len(<<e>>) = 1 /\ <<e>>[1] = e /\ Len(l) \in Nat
  OBVIOUS
<1>2. /\ l \o <<e>> \in Seq(Rec) /\ Len(l \o <<e>>) = Len(l) + 1
      /\ \A i \in 1..(Len(l) + 1) :
           (l \o <<e>>)[i] = IF i <= Len(l) THEN l[i] ELSE <<e>>[i - Len(l)]
  <2>1. /\ l \o <<e>> \in Seq(Rec) /\ Len(l \o <<e>>) = Len(l) + Len(<<e>>)
        /\ \A i \in 1..(Len(l) + Len(<<e>>)) : (l \o <<e>>)[i] =
             IF i <= Len(l) THEN l[i] ELSE <<e>>[i - Len(l)]
    BY <1>1, ConcatProperties
  <2>2. QED
    BY <1>1, <2>1
<1>3. Added(l, l \o <<e>>, e)
  BY <1>1, <1>2 DEF Added
<1>4. Added(l, Append(l, e), e)
  BY DEF Added
<1>5. QED
  BY <1>3, <1>4

(* What Logged does to the log: a begin record first if need be.           *)
(* What Logged does: a begin record first if it is the first change.       *)
LoggedAs(p, e) ==
  \/ ivbintrans[p] # "begin" /\ Added(log, log', e)
  \/ /\ ivbintrans[p] = "begin"
     /\ \E l \in Seq(Rec) : /\ Added(log, l, Record(p, "BW", 0, NoKey))
                            /\ Added(l, log', e)

(* A change adds its record, after a begin record where it is the first.   *)
LEMMA LoggedAdds ==
  ASSUME log \in Seq(Rec), NEW p \in Proc, NEW op \in {"IN", "DE", "UP"},
         NEW r \in Row, NEW old \in Value, Logged(p, op, r, old)
  PROVE  LoggedAs(p, Record(p, op, r, old))
<1> DEFINE e == Record(p, op, r, old)
           b == Record(p, "BW", 0, NoKey)
<1>1. e \in Rec /\ b \in Rec
  <2>1. r \in 0..MaxRow /\ 0 \in 0..MaxRow /\ NoKey \in Value
    BY MaxRowType DEF Row, Value
  <2>2. QED
    BY <2>1, RecordType
<1>2. log' = log \o (IF ivbintrans[p] = "begin" THEN <<b>> ELSE <<>>)
                 \o <<e>>
  BY DEF Logged
<1> HIDE DEF e, b
<1>3. CASE ivbintrans[p] = "begin"
  <2>1. Added(log, log \o <<b>>, b)
    BY <1>1, AppendAdds
  <2>2. log \o <<b>> \in Seq(Rec)
    BY <2>1 DEF Added
  <2>3. Added(log \o <<b>>, (log \o <<b>>) \o <<e>>, e)
    BY <1>1, <2>2, AppendAdds
  <2>4. log' = (log \o <<b>>) \o <<e>>
    BY <1>2, <1>3
  <2>5. QED
    BY <1>3, <2>1, <2>2, <2>3, <2>4 DEF LoggedAs, e, b
<1>4. CASE ivbintrans[p] # "begin"
  <2>1. log \o <<>> = log
    BY ConcatEmptySeq
  <2>2. log' = log \o <<e>>
    BY <1>2, <1>4, <2>1
  <2>3. Added(log, log \o <<e>>, e)
    BY <1>1, AppendAdds
  <2>4. QED
    BY <1>4, <2>2, <2>3 DEF LoggedAs, e
<1>5. QED
  BY <1>3, <1>4

(* A log with a record more is still a log.                                *)
LEMMA AddedKeeps ==
  ASSUME NEW l \in Seq(Rec), \A i \in 1..Len(l) : RowRec(l[i]),
         NEW m, NEW e, Added(l, m, e), RowRec(e)
  PROVE  /\ m \in Seq(Rec) /\ \A i \in 1..Len(m) : RowRec(m[i])
         /\ Len(l) \in Nat /\ Len(l) <= Len(m)
<1>1. /\ m \in Seq(Rec) /\ Len(m) = Len(l) + 1 /\ m[Len(m)] = e
      /\ \A i \in 1..Len(l) : m[i] = l[i]
      /\ Len(l) \in Nat
  BY DEF Added
<1>2. ASSUME NEW i \in 1..Len(m) PROVE RowRec(m[i])
  <2>1. i \in 1..Len(l) \/ i = Len(m)
    BY <1>1
  <2>2. QED
    BY <1>1, <2>1
<1>3. QED
  BY <1>1, <1>2

(* Logging a change keeps the types.                                       *)
LEMMA LoggedType ==
  ASSUME TypeInv, NEW p \in Proc, NEW op \in {"IN", "DE", "UP"},
         NEW r \in Row, NEW old \in Value, Logged(p, op, r, old),
         at' = at
  PROVE  /\ LogPart' /\ at' \in [Proc -> 0..Len(log')]
         /\ ivbintrans' \in [Proc -> Modes]
<1> DEFINE e == Record(p, op, r, old)
           b == Record(p, "BW", 0, NoKey)
<1>1. log \in Seq(Rec) /\ \A i \in 1..Len(log) : RowRec(log[i])
  BY DEF TypeInv, LogPart
<1>2. LoggedAs(p, e)
  BY <1>1, LoggedAdds
<1>3. RowRec(e) /\ RowRec(b)
  BY DEF Record, RowRec
<1> HIDE DEF e, b
<1>4. log' \in Seq(Rec) /\ \A i \in 1..Len(log') : RowRec(log'[i])
  <2>1. CASE Added(log, log', e)
    BY <1>1, <1>3, <2>1, AddedKeeps
  <2>2. CASE \E l \in Seq(Rec) : Added(log, l, b) /\ Added(l, log', e)
    <3>1. PICK l \in Seq(Rec) : Added(log, l, b) /\ Added(l, log', e)
      BY <2>2
    <3>2. \A i \in 1..Len(l) : RowRec(l[i])
      BY <1>1, <1>3, <3>1, AddedKeeps
    <3>3. QED
      BY <1>3, <3>1, <3>2, AddedKeeps
  <2>3. QED
    BY <1>2, <2>1, <2>2 DEF LoggedAs, b
<1>5. Len(log) \in Nat /\ Len(log') \in Nat /\ Len(log) <= Len(log')
  <2>1. CASE Added(log, log', e)
    BY <1>1, <2>1 DEF Added
  <2>2. CASE \E l \in Seq(Rec) : Added(log, l, b) /\ Added(l, log', e)
    BY <1>1, <2>2 DEF Added
  <2>3. QED
    BY <1>2, <2>1, <2>2 DEF LoggedAs, b
<1>6. at' \in [Proc -> 0..Len(log')]
  BY <1>5 DEF TypeInv
<1>7. ivbintrans' \in [Proc -> Modes]
  BY DEF Logged, TypeInv, Modes
<1>8. QED
  BY <1>4, <1>6, <1>7 DEF LogPart

(* Logging the end of a transaction keeps the types.                       *)
LEMMA AppendType ==
  ASSUME TypeInv, NEW p \in Proc, NEW op \in {"CW", "RW"},
         log' = Append(log, Record(p, op, 0, NoKey))
  PROVE  /\ LogPart' /\ Len(log) \in Nat /\ Len(log') = Len(log) + 1
         /\ Added(log, log', Record(p, op, 0, NoKey))
<1> DEFINE e == Record(p, op, 0, NoKey)
<1>1. log \in Seq(Rec) /\ \A i \in 1..Len(log) : RowRec(log[i])
  BY DEF TypeInv, LogPart
<1>2. e \in Rec /\ RowRec(e)
  <2>1. 0 \in 0..MaxRow /\ NoKey \in Value
    BY MaxRowType DEF Value
  <2>2. e \in Rec /\ e.op = op
    BY <2>1, RecordType
  <2>3. QED
    BY <2>2 DEF RowRec
<1> HIDE DEF e
<1>3. Added(log, log', e)
  BY <1>1, <1>2, AppendAdds DEF e
<1>4. LogPart'
  BY <1>1, <1>2, <1>3, AddedKeeps DEF LogPart
<1>5. QED
  BY <1>1, <1>3, <1>4 DEF Added, e

(* The record a walk is at, and the one before it, are in the log.         *)
LEMMA WalkRow ==
  ASSUME TypeInv, NEW p \in Proc, at[p] # 0
  PROVE  /\ at[p] \in 1..Len(log) /\ log[at[p]] \in Rec
         /\ log[at[p]].op \in {"IN", "DE", "UP"} => log[at[p]].row \in Row
         /\ log[at[p]].old \in Value
         /\ Prev(p, at[p]) \in 0..Len(log)
<1>1. at[p] \in 1..Len(log) /\ Len(log) \in Nat /\ at[p] \in Nat
  BY DEF TypeInv, LogPart
<1>2. log[at[p]] \in Rec /\ RowRec(log[at[p]])
  BY <1>1, ElementOfSeq DEF TypeInv, LogPart
<1>3. Prev(p, at[p]) \in 0..Len(log)
  <2> DEFINE i == at[p]
  <2> HIDE DEF i
  <2>1. i \in 1..Len(log) /\ i \in Nat /\ Len(log) \in Nat
    BY <1>1 DEF i
  <2>2. Prev(p, i) \in Nat /\ (Prev(p, i) = 0 \/ Prev(p, i) \in 1..(i - 1))
    BY <2>1, PrevFacts
  <2>3. Prev(p, i) \in 0..Len(log)
    BY <2>1, <2>2
  <2>4. QED
    BY <2>3 DEF i
<1>4. QED
  BY <1>1, <1>2, <1>3 DEF RowRec, Rec

(* A walk starts in the log, or at 0.                                      *)
LEMMA StartWalk ==
  ASSUME TypeInv, NEW p \in Proc
  PROVE  Prev(p, Len(log) + 1) \in 0..Len(log)
<1>1. Len(log) \in Nat
  BY DEF TypeInv, LogPart
<1>2. Len(log) + 1 \in Nat /\ (Len(log) + 1) - 1 = Len(log)
  BY <1>1
<1> DEFINE i == Len(log) + 1
<1>3. Prev(p, i) \in Nat /\ (Prev(p, i) = 0 \/ Prev(p, i) \in 1..(i - 1))
  <2> HIDE DEF i
  <2>1. QED
    BY <1>2, PrevFacts DEF i
<1>4. QED
  BY <1>1, <1>3

(* LockRow keeps the type of the locks.                                    *)
LEMMA LockRowType ==
  ASSUME TypeInv, NEW p \in Proc, NEW r \in Row
  PROVE  LockRow(p, r) \in [Row -> Proc \union {NoProc}]
  BY DEF TypeInv, LockRow

(* Unlocked keeps it too.                                                  *)
LEMMA UnlockedType ==
  ASSUME TypeInv, NEW p \in Proc
  PROVE  Unlocked(p) \in [Row -> Proc \union {NoProc}]
  BY DEF TypeInv, Unlocked

(* The end of a walk keeps the types.                                      *)
LEMMA EndType ==
  ASSUME TypeInv, NEW p \in Proc, End(p)
  PROVE  /\ ivbintrans' \in [Proc -> Modes]
         /\ rowlock' \in [Row -> Proc \union {NoProc}]
         /\ at' = [at EXCEPT ![p] = 0]
  BY UnlockedType DEF TypeInv, End, Modes

(* The actions that concern the handle and its locks only.                 *)
OnHandle(p) ==
  isclose(p) \/ isopen(p) \/ isrelrec(p) \/ isunlock(p) \/ Reopen(p)

(* The disjuncts of Next.                                                  *)
ActionOf(p) ==
  \/ iswrite(p) \/ isdelete(p) \/ isrewrite(p)
  \/ OnHandle(p)
  \/ isbegin(p) \/ iscommit(p) \/ isrollback(p)
  \/ CommitStep(p) \/ CommitEnd(p)
  \/ UndoInsert(p) \/ UndoUpdate(p) \/ UndoDelete(p) \/ UndoFails(p)
  \/ RollbackEnd(p)

(* They take no lock and leave the table, the log and the walk alone.      *)
LEMMA HandleKeeps ==
  ASSUME NEW p, OnHandle(p)
  PROVE  /\ UNCHANGED <<data, space, log, ivbintrans, at>>
         /\ \/ rowlock' = rowlock
            \/ rowlock' = Unlocked(p)
            \/ \E r : rowlock[r] = p /\ rowlock' = [rowlock EXCEPT ![r] = NoProc]
  BY DEF OnHandle, isclose, isopen, isrelrec, isunlock, Reopen

(* The rows of the changes of a process are rows of the table.             *)
LEMMA TouchedRows ==
  ASSUME TypeInv, NEW p
  PROVE  Touched(p) \subseteq Row
<1>1. ASSUME NEW i \in Changes(p) PROVE log[i].row \in Row
  <2> DEFINE s == Start(p)
  <2>1. i \in s..Len(log) /\ i > 0 /\ log[i].op \in {"IN", "DE", "UP"}
    BY DEF Changes
  <2> HIDE DEF s
  <2>2. i \in 1..Len(log)
    BY <2>1
  <2>3. QED
    BY <2>1, <2>2 DEF TypeInv, LogPart, RowRec
<1>2. QED
  BY <1>1 DEF Touched

(* No action takes the handle or the rows given up out of their types.     *)
LEMMA HandleType ==
  ASSUME TypeInv, NEW p \in Proc, ActionOf(p)
  PROVE  /\ file' \in [Proc -> Files] /\ letgo' \in [Proc -> SUBSET Row]
         /\ \A q \in Proc \ {p} : letgo'[q] = letgo[q]
<1>1. Touched(p) \subseteq Row
  BY TouchedRows
<1>2. \/ file' = file
      \/ \E f \in Files : file' = [file EXCEPT ![p] = f]
  BY DEF ActionOf, OnHandle, iswrite, isdelete, isrewrite, isclose, isopen,
         isrelrec, isunlock, Reopen, isbegin, iscommit, isrollback,
         CommitStep, CommitEnd, UndoInsert, UndoUpdate, UndoDelete, UndoFails,
         RollbackEnd, End, Files
<1>3. \/ letgo' = letgo
      \/ \E R \in SUBSET Row : letgo' = [letgo EXCEPT ![p] = R]
  <2>1. CASE isrelrec(p)
    <3>1. PICK r \in Touched(p) :
            letgo' = [letgo EXCEPT ![p] = letgo[p] \union {r}]
      BY <2>1 DEF isrelrec, TypeInv
    <3>2. letgo[p] \union {r} \in SUBSET Row
      BY <1>1 DEF TypeInv
    <3>3. QED
      BY <3>1, <3>2
  <2>2. CASE isunlock(p) \/ isrollback(p)
    BY <1>1, <2>2 DEF isunlock, isrollback
  <2>3. CASE CommitEnd(p) \/ UndoFails(p) \/ RollbackEnd(p)
    BY <2>3 DEF CommitEnd, UndoFails, RollbackEnd, End
  <2>4. QED
    BY <2>1, <2>2, <2>3
       DEF ActionOf, OnHandle, iswrite, isdelete, isrewrite, isclose, isopen,
           Reopen, isbegin, iscommit, CommitStep, UndoInsert, UndoUpdate,
           UndoDelete
<1>4. QED
  BY <1>2, <1>3 DEF TypeInv

(* A change keeps the types.                                               *)
LEMMA TypeChange ==
  ASSUME TypeInv, NEW p \in Proc, iswrite(p) \/ isdelete(p) \/ isrewrite(p)
  PROVE  TypeInv'
<1>0. /\ data \in [Row -> Value] /\ space \in Space /\ NoKey \in Value
      /\ KeyOf[p] \subseteq Value /\ KeyOf[p] \subseteq Key
      /\ file' \in [Proc -> Files] /\ letgo' \in [Proc -> SUBSET Row]
  BY TransAssumption, HandleType DEF TypeInv, Value, ActionOf
<1>1. CASE iswrite(p)
  <2> DEFINE r == NextRow(space)
  <2>1. r \in Row /\ Taken(space) \in Space
    BY <1>0, <1>1, TakenType DEF iswrite
  <2> HIDE DEF r
  <2>2. /\ rowlock' = LockRow(p, r) /\ at' = at
        /\ \E k \in KeyOf[p] :
             \/ /\ data' = [data EXCEPT ![r] = k] /\ space' = Taken(space)
                /\ Logged(p, "IN", r, NoKey)
             \/ /\ space' = Freed(Taken(space), r)
                /\ UNCHANGED <<data, log, ivbintrans>>
    BY <1>1 DEF iswrite, r
  <2>3. rowlock' \in [Row -> Proc \union {NoProc}]
    BY <2>1, <2>2, LockRowType
  <2>4. CASE \E k \in KeyOf[p] :
               /\ data' = [data EXCEPT ![r] = k] /\ space' = Taken(space)
               /\ Logged(p, "IN", r, NoKey)
    <3>1. data' \in [Row -> Value] /\ space' \in Space
      BY <1>0, <2>1, <2>4
    <3>2. /\ LogPart' /\ at' \in [Proc -> 0..Len(log')]
          /\ ivbintrans' \in [Proc -> Modes]
      BY <1>0, <2>1, <2>2, <2>4, LoggedType
    <3>3. QED
      BY <1>0, <2>3, <3>1, <3>2 DEF TypeInv
  <2>5. CASE /\ space' = Freed(Taken(space), r)
             /\ UNCHANGED <<data, log, ivbintrans>>
    <3>1. space' \in Space
      BY <2>1, <2>5, FreedType
    <3>2. QED
      BY <1>0, <2>2, <2>3, <2>5, <3>1 DEF TypeInv, LogPart
  <2>6. QED
    BY <2>2, <2>4, <2>5
<1>2. CASE isdelete(p)
  <2>1. PICK r \in Row : /\ data[r] \in KeyOf[p]
                         /\ rowlock' = LockRow(p, r)
                         /\ data' = [data EXCEPT ![r] = NoKey]
                         /\ \/ space' = space
                            \/ space' = Freed(space, r)
                         /\ Logged(p, "DE", r, data[r])
                         /\ at' = at
    BY <1>2 DEF isdelete
  <2>2. data' \in [Row -> Value] /\ space' \in Space /\ data[r] \in Value
    BY <1>0, <2>1, FreedType
  <2>3. rowlock' \in [Row -> Proc \union {NoProc}]
    BY <2>1, LockRowType
  <2>4. /\ LogPart' /\ at' \in [Proc -> 0..Len(log')]
        /\ ivbintrans' \in [Proc -> Modes]
    BY <2>1, <2>2, LoggedType
  <2>5. QED
    BY <1>0, <2>2, <2>3, <2>4 DEF TypeInv
<1>3. CASE isrewrite(p)
  <2>1. PICK r \in Row, k \in KeyOf[p] :
               /\ rowlock' = LockRow(p, r)
               /\ data' = [data EXCEPT ![r] = k]
               /\ Logged(p, "UP", r, data[r])
               /\ space' = space /\ at' = at
    BY <1>3 DEF isrewrite
  <2>2. data' \in [Row -> Value] /\ space' \in Space /\ data[r] \in Value
    BY <1>0, <2>1
  <2>3. rowlock' \in [Row -> Proc \union {NoProc}]
    BY <2>1, LockRowType
  <2>4. /\ LogPart' /\ at' \in [Proc -> 0..Len(log')]
        /\ ivbintrans' \in [Proc -> Modes]
    BY <2>1, <2>2, LoggedType
  <2>5. QED
    BY <1>0, <2>2, <2>3, <2>4 DEF TypeInv
<1>4. QED
  BY <1>1, <1>2, <1>3

(* The calls that begin and end transactions keep the types.               *)
LEMMA TypeTrans ==
  ASSUME TypeInv, NEW p \in Proc,
         \/ isbegin(p) \/ iscommit(p) \/ isrollback(p) \/ CommitEnd(p)
         \/ OnHandle(p)
  PROVE  TypeInv'
<1>0. file' \in [Proc -> Files] /\ letgo' \in [Proc -> SUBSET Row]
  BY HandleType DEF ActionOf
<1>1. CASE isbegin(p)
  BY <1>0, <1>1 DEF isbegin, TypeInv, LogPart, Modes
<1>2. CASE iscommit(p)
  <2>1. /\ UNCHANGED <<data, space, log, rowlock>>
        /\ \E v \in Modes : ivbintrans' = [ivbintrans EXCEPT ![p] = v]
        /\ \/ at' = at
           \/ at' = [at EXCEPT ![p] = Prev(p, Len(log) + 1)]
    BY <1>2 DEF iscommit, Modes
  <2>2. ivbintrans' \in [Proc -> Modes]
    BY <2>1 DEF TypeInv
  <2>3. at' \in [Proc -> 0..Len(log)]
    BY <2>1, StartWalk DEF TypeInv
  <2>4. QED
    BY <1>0, <2>1, <2>2, <2>3 DEF TypeInv, LogPart
<1>3. CASE isrollback(p)
  <2>1. /\ UNCHANGED <<data, space>>
        /\ rowlock' = rowlock \/ rowlock' = Unlocked(p)
        /\ ivbintrans' = [ivbintrans EXCEPT ![p] = "rollback"]
        /\ at' = [at EXCEPT ![p] = Prev(p, Len(log) + 1)]
        /\ log' = Append(log, Record(p, "RW", 0, NoKey))
    BY <1>3 DEF isrollback
  <2>2. LogPart' /\ Len(log) \in Nat /\ Len(log') = Len(log) + 1
    BY <2>1, AppendType
  <2>3. at' \in [Proc -> 0..Len(log')]
    <3>1. at' \in [Proc -> 0..Len(log)]
      BY <2>1, StartWalk DEF TypeInv
    <3>2. QED
      BY <2>2, <3>1
  <2>4. ivbintrans' \in [Proc -> Modes]
    BY <2>1 DEF TypeInv, Modes
  <2>5. rowlock' \in [Row -> Proc \union {NoProc}]
    BY <2>1, UnlockedType DEF TypeInv
  <2>6. QED
    BY <1>0, <2>1, <2>2, <2>3, <2>4, <2>5 DEF TypeInv
<1>4. CASE CommitEnd(p)
  <2>1. /\ UNCHANGED <<data, space>> /\ End(p)
        /\ log' = Append(log, Record(p, "CW", 0, NoKey))
    BY <1>4 DEF CommitEnd
  <2>2. LogPart' /\ Len(log) \in Nat /\ Len(log') = Len(log) + 1
    BY <2>1, AppendType
  <2>3. /\ ivbintrans' \in [Proc -> Modes]
        /\ rowlock' \in [Row -> Proc \union {NoProc}]
        /\ at' = [at EXCEPT ![p] = 0]
    BY <2>1, EndType
  <2>4. at' \in [Proc -> 0..Len(log')]
    BY <2>2, <2>3 DEF TypeInv
  <2>5. QED
    BY <1>0, <2>1, <2>2, <2>3, <2>4 DEF TypeInv
<1>5. CASE OnHandle(p)
  <2>1. /\ UNCHANGED <<data, space, log, ivbintrans, at>>
        /\ rowlock' \in [Row -> Proc \union {NoProc}]
    BY <1>5, HandleKeeps, UnlockedType DEF TypeInv
  <2>2. QED
    BY <1>0, <2>1 DEF TypeInv, LogPart
<1>6. QED
  BY <1>1, <1>2, <1>3, <1>4, <1>5

(* A step of a walk keeps the types.                                       *)
LEMMA TypeWalk ==
  ASSUME TypeInv, NEW p \in Proc,
         \/ CommitStep(p) \/ UndoInsert(p) \/ UndoUpdate(p) \/ UndoDelete(p)
         \/ UndoFails(p) \/ RollbackEnd(p)
  PROVE  TypeInv'
<1> DEFINE e == log[at[p]]
<1>0. /\ data \in [Row -> Value] /\ space \in Space /\ NoKey \in Value
      /\ file' \in [Proc -> Files] /\ letgo' \in [Proc -> SUBSET Row]
  BY HandleType DEF TypeInv, Value, ActionOf
<1>1. CASE UndoFails(p) \/ RollbackEnd(p)
  <2>1. UNCHANGED <<data, space, log>> /\ End(p)
    BY <1>1 DEF UndoFails, RollbackEnd
  <2>2. /\ ivbintrans' \in [Proc -> Modes]
        /\ rowlock' \in [Row -> Proc \union {NoProc}]
        /\ at' = [at EXCEPT ![p] = 0]
    BY <2>1, EndType
  <2>3. at' \in [Proc -> 0..Len(log)]
    BY <2>2 DEF TypeInv, LogPart
  <2>4. QED
    BY <1>0, <2>1, <2>2, <2>3 DEF TypeInv, LogPart
<1>2. CASE CommitStep(p) \/ UndoInsert(p) \/ UndoUpdate(p) \/ UndoDelete(p)
  <2>1. /\ at[p] # 0 /\ Step(p) /\ UNCHANGED <<log, ivbintrans>>
        /\ \/ rowlock' = rowlock
           \/ /\ rowlock' = LockRow(p, e.row)
              /\ e.op \in {"IN", "DE", "UP"}
        /\ \/ data' = data
           \/ /\ \/ data' = [data EXCEPT ![e.row] = e.old]
                 \/ data' = [data EXCEPT ![e.row] = NoKey]
              /\ e.op \in {"IN", "DE", "UP"}
        /\ \/ space' = space
           \/ /\ space' = Freed(space, e.row)
              /\ e.op \in {"IN", "DE", "UP"}
    BY <1>2
       DEF CommitStep, UndoInsert, UndoUpdate, UndoDelete, Undoing, Walking
  <2>2. /\ e.op \in {"IN", "DE", "UP"} => e.row \in Row
        /\ e.old \in Value
        /\ Prev(p, at[p]) \in 0..Len(log)
    BY <2>1, WalkRow
  <2> HIDE DEF e
  <2>3. rowlock' \in [Row -> Proc \union {NoProc}]
    BY <2>1, <2>2, LockRowType DEF TypeInv
  <2>4. data' \in [Row -> Value]
    BY <1>0, <2>1, <2>2
  <2>5. space' \in Space
    BY <1>0, <2>1, <2>2, FreedType
  <2>6. at' \in [Proc -> 0..Len(log)]
    BY <2>1, <2>2 DEF Step, TypeInv
  <2>7. QED
    BY <1>0, <2>1, <2>3, <2>4, <2>5, <2>6 DEF TypeInv, LogPart
<1>3. QED
  BY <1>1, <1>2

(* Next, by the name the proofs have for it.                               *)
LEMMA NextIs == Next => \E p \in Proc : ActionOf(p)
  BY DEF Next, ActionOf, OnHandle

(* The types hold in every state.                                          *)
LEMMA TypeInvariant == Spec => []TypeInv
<1>1. Init => TypeInv
  <2> SUFFICES ASSUME Init PROVE TypeInv
    OBVIOUS
  <2>1. log \in Seq(Rec) /\ Len(log) = 0
    BY DEF Init
  <2>2. space \in Space
    BY MaxRowType DEF Init, Space
  <2>3. QED
    BY <2>1, <2>2 DEF Init, TypeInv, LogPart, Value, Modes, Files
<1>2. TypeInv /\ [Next]_vars => TypeInv'
  <2> SUFFICES ASSUME TypeInv, [Next]_vars PROVE TypeInv'
    OBVIOUS
  <2>1. CASE UNCHANGED vars
    BY <2>1 DEF vars, TypeInv, LogPart
  <2>2. CASE Next
    BY <2>2, NextIs, TypeChange, TypeTrans, TypeWalk DEF ActionOf
  <2>3. QED
    BY <2>1, <2>2
<1>3. QED
  BY <1>1, <1>2, PTL DEF Spec

(* TypeOK: every value has its type in every state; no row number leaves the*)
(* table, and a walk never leaves the log, whatever it undoes.             *)
THEOREM TypeCorrect == Spec => []TypeOK
<1>1. TypeInv => TypeOK
  <2> SUFFICES ASSUME TypeInv PROVE TypeOK
    OBVIOUS
  <2>1. \A i \in 1..Len(log) : log[i] \in Rec
    BY ElementOfSeq DEF TypeInv, LogPart
  <2>2. QED
    BY <2>1 DEF TypeInv, TypeOK, Rec, Space, Modes, Files
<1>2. QED
  BY <1>1, TypeInvariant, PTL

(* KeysUnique: two rows never have the same key, whatever rollbacks put back*)
(* in whatever order and wherever they fail. It holds for all values of the*)
(* constants: the undo of a delete and of an update look for the key first.*)
THEOREM PrimaryKeysUnique == Spec => []KeysUnique
<1>1. Init => KeysUnique
  BY DEF Init, KeysUnique
<1>2. TypeInv /\ KeysUnique /\ [Next]_vars => KeysUnique'
  <2> SUFFICES ASSUME TypeInv, KeysUnique, [Next]_vars PROVE KeysUnique'
    OBVIOUS
  <2>1. ASSUME NEW r \in Row, NEW k \in Value,
               data' = [data EXCEPT ![r] = k],
               k = NoKey \/ ~Duplicate(k, r)
        PROVE  KeysUnique'
    <3>1. \A s \in Row : data'[s] = IF s = r THEN k ELSE data[s]
      BY <2>1 DEF TypeInv
    <3>2. k # NoKey => \A s \in Row \ {r} : data[s] # k
      BY <2>1 DEF Duplicate
    <3>3. QED
      BY <3>1, <3>2 DEF KeysUnique
  <2>2. ASSUME data' = data PROVE KeysUnique'
    BY <2>2 DEF KeysUnique
  <2>3. NoKey \in Value /\ \A p \in Proc : KeyOf[p] \subseteq Value
    BY TransAssumption DEF Value
  <2>4. ASSUME NEW p \in Proc, iswrite(p) PROVE KeysUnique'
    <3>1. NextRow(space) \in Row
      BY <2>4, TakenType DEF iswrite, TypeInv
    <3> DEFINE n == NextRow(space)
    <3>2. \/ data' = data
          \/ \E k \in KeyOf[p] : ~Duplicate(k, n)
                                 /\ data' = [data EXCEPT ![n] = k]
      BY <2>4 DEF iswrite
    <3> HIDE DEF n
    <3>3. QED
      BY <2>1, <2>2, <2>3, <3>1, <3>2 DEF n
  <2>5. ASSUME NEW p \in Proc, isdelete(p) PROVE KeysUnique'
    <3>1. PICK r \in Row : data' = [data EXCEPT ![r] = NoKey]
      BY <2>5 DEF isdelete
    <3>2. QED
      BY <2>1, <2>3, <3>1
  <2>6. ASSUME NEW p \in Proc, isrewrite(p) PROVE KeysUnique'
    <3>1. PICK r \in Row, k \in KeyOf[p] :
                 ~Duplicate(k, r) /\ data' = [data EXCEPT ![r] = k]
      BY <2>6 DEF isrewrite
    <3>2. QED
      BY <2>1, <2>3, <3>1
  <2>7. ASSUME NEW p \in Proc,
               UndoInsert(p) \/ UndoUpdate(p) \/ UndoDelete(p)
        PROVE  KeysUnique'
    <3> DEFINE e == log[at[p]]
    <3>1. /\ at[p] # 0 /\ e.op \in {"IN", "DE", "UP"}
          /\ \/ data' = data
             \/ data' = [data EXCEPT ![e.row] = NoKey]
             \/ ~Duplicate(e.old, e.row)
                /\ data' = [data EXCEPT ![e.row] = e.old]
      BY <2>7 DEF UndoInsert, UndoUpdate, UndoDelete, Undoing, Walking
    <3>2. e.row \in Row /\ e.old \in Value
      BY <3>1, WalkRow
    <3> HIDE DEF e
    <3>3. QED
      BY <2>1, <2>2, <2>3, <3>1, <3>2
  <2>8. ASSUME NEW p \in Proc,
               \/ isbegin(p) \/ iscommit(p) \/ isrollback(p)
               \/ CommitStep(p) \/ CommitEnd(p) \/ UndoFails(p)
               \/ RollbackEnd(p) \/ OnHandle(p)
        PROVE  KeysUnique'
    <3>1. data' = data
      BY <2>8, HandleKeeps DEF isbegin, iscommit, isrollback, CommitStep,
                               CommitEnd, UndoFails, RollbackEnd
    <3>2. QED
      BY <2>2, <3>1
  <2>9. CASE UNCHANGED vars
    BY <2>2, <2>9 DEF vars
  <2>10. QED
    BY <2>4, <2>5, <2>6, <2>7, <2>8, <2>9, NextIs DEF ActionOf
<1>3. QED
  BY <1>1, <1>2, TypeInvariant, PTL DEF Spec

-----------------------------------------------------------------------------
(* The transaction a log shows p in, as functions of the log.              *)
(* Start and Changes, of any log.                                          *)
StartOf(l, p) ==
  Max({0} \union {i \in 1..Len(l) : l[i].proc = p /\ l[i].op = "BW"})

ChangesOf(l, p) ==
  {i \in StartOf(l, p)..Len(l) :
     i > 0 /\ l[i].proc = p /\ l[i].op \in {"IN", "DE", "UP"}}

(* Numbers up to a and up to a + 1.                                        *)
LEMMA OneMore ==
  ASSUME NEW a \in Nat, NEW b, b = a + 1, NEW i \in Nat
  PROVE  /\ i <= b => i <= a \/ i = b
         /\ i <= a => i <= b
         /\ i <= a /\ i > 0 => i \in 1..a
         /\ i \in 1..b => i = b \/ i \in 1..a
  OBVIOUS

(* Start is the last begin record of a process, or 0.                      *)
LEMMA StartFacts ==
  ASSUME NEW l \in Seq(Rec), NEW p
  PROVE  /\ StartOf(l, p) \in 0..Len(l)
         /\ StartOf(l, p) # 0 => /\ l[StartOf(l, p)].proc = p
                                 /\ l[StartOf(l, p)].op = "BW"
         /\ \A i \in 1..Len(l) :
              l[i].proc = p /\ l[i].op = "BW" => i <= StartOf(l, p)
<1> DEFINE T == {0} \union {i \in 1..Len(l) : l[i].proc = p /\ l[i].op = "BW"}
<1>1. /\ T \in SUBSET Nat /\ T # {} /\ Len(l) \in Nat
      /\ \A i \in T : i <= Len(l)
  OBVIOUS
<1>2. StartOf(l, p) = Max(T)
  BY DEF StartOf
<1>3. Max(T) \in T /\ \A i \in T : i <= Max(T)
  <2> HIDE DEF T
  <2>1. QED
    BY <1>1, MaxNumber
<1>4. QED
  BY <1>1, <1>2, <1>3

(* Nothing else is.                                                        *)
LEMMA StartUnique ==
  ASSUME NEW l \in Seq(Rec), NEW p, NEW s \in 0..Len(l),
         s # 0 => l[s].proc = p /\ l[s].op = "BW",
         \A i \in 1..Len(l) : l[i].proc = p /\ l[i].op = "BW" => i <= s
  PROVE  StartOf(l, p) = s
<1> DEFINE t == StartOf(l, p)
<1>1. /\ t \in 0..Len(l) /\ Len(l) \in Nat
      /\ t # 0 => l[t].proc = p /\ l[t].op = "BW"
      /\ \A i \in 1..Len(l) : l[i].proc = p /\ l[i].op = "BW" => i <= t
  BY StartFacts
<1> HIDE DEF t
<1>2. t <= s
  BY <1>1
<1>3. s <= t
  BY <1>1
<1>4. t = s
  BY <1>1, <1>2, <1>3
<1>5. QED
  BY <1>4 DEF t

(* More of a log.                                                          *)
Grown(l, m) ==
  /\ m \in Seq(Rec) /\ Len(l) <= Len(m)
  /\ \A i \in 1..Len(l) : m[i] = l[i]

(* Records of others, or the end of a transaction, leave the changes of a  *)
(* transaction alone.                                                      *)
LEMMA GrownOther ==
  ASSUME NEW l \in Seq(Rec), NEW p, NEW m, Grown(l, m),
         \A i \in 1..Len(m) : i > Len(l) => \/ m[i].proc # p
                                            \/ m[i].op \in {"CW", "RW"}
  PROVE  StartOf(m, p) = StartOf(l, p) /\ ChangesOf(m, p) = ChangesOf(l, p)
<1> DEFINE s == StartOf(l, p)
<1>1. /\ m \in Seq(Rec) /\ Len(m) \in Nat /\ Len(l) \in Nat
      /\ Len(l) <= Len(m) /\ \A i \in 1..Len(l) : m[i] = l[i]
  BY DEF Grown
<1>2. /\ s \in 0..Len(l)
      /\ s # 0 => l[s].proc = p /\ l[s].op = "BW"
      /\ \A i \in 1..Len(l) : l[i].proc = p /\ l[i].op = "BW" => i <= s
  BY StartFacts
<1> HIDE DEF s
<1>3. ASSUME NEW i \in 1..Len(m), m[i].proc = p,
             m[i].op \in {"BW", "IN", "DE", "UP"}
      PROVE  i \in 1..Len(l) /\ m[i] = l[i]
  <2>1. ~(i > Len(l))
    BY <1>3
  <2>2. i \in 1..Len(l)
    BY <1>1, <2>1
  <2>3. QED
    BY <1>1, <2>2
<1>4. StartOf(m, p) = s
  <2>1. s \in 0..Len(m) /\ (s # 0 => m[s].proc = p /\ m[s].op = "BW")
    BY <1>1, <1>2
  <2>2. ASSUME NEW i \in 1..Len(m), m[i].proc = p, m[i].op = "BW"
        PROVE  i <= s
    BY <1>2, <1>3, <2>2
  <2>3. QED
    BY <1>1, <2>1, <2>2, StartUnique
<1>5. ChangesOf(m, p) = ChangesOf(l, p)
  <2>1. /\ ChangesOf(m, p) = {i \in s..Len(m) : i > 0 /\ m[i].proc = p
                                /\ m[i].op \in {"IN", "DE", "UP"}}
        /\ ChangesOf(l, p) = {i \in s..Len(l) : i > 0 /\ l[i].proc = p
                                /\ l[i].op \in {"IN", "DE", "UP"}}
    BY <1>4 DEF ChangesOf, s
  <2>2. s \in Nat
    BY <1>1, <1>2
  <2>3. ASSUME NEW i \in ChangesOf(m, p) PROVE i \in ChangesOf(l, p)
    <3>1. i \in 1..Len(m) /\ i >= s /\ m[i].proc = p
          /\ m[i].op \in {"IN", "DE", "UP"}
      BY <1>1, <2>1, <2>2
    <3>2. i \in 1..Len(l) /\ m[i] = l[i]
      BY <1>3, <3>1
    <3>3. QED
      BY <1>1, <2>1, <2>2, <3>1, <3>2
  <2>4. ASSUME NEW i \in ChangesOf(l, p) PROVE i \in ChangesOf(m, p)
    <3>1. i \in 1..Len(l) /\ i >= s /\ l[i].proc = p
          /\ l[i].op \in {"IN", "DE", "UP"}
      BY <1>1, <2>1, <2>2
    <3>2. i \in 1..Len(m) /\ m[i] = l[i]
      BY <1>1, <3>1
    <3>3. QED
      BY <1>1, <2>1, <2>2, <3>1, <3>2
  <2>5. QED
    BY <2>3, <2>4
<1>6. QED
  BY <1>4, <1>5 DEF s

(* The record of a change adds to the changes of its process.              *)
LEMMA AddedChange ==
  ASSUME NEW l \in Seq(Rec), NEW p, NEW m, NEW e, Added(l, m, e),
         e.proc = p, e.op \in {"IN", "DE", "UP"}
  PROVE  /\ StartOf(m, p) = StartOf(l, p)
         /\ ChangesOf(m, p) = ChangesOf(l, p) \union {Len(m)}
<1> DEFINE s == StartOf(l, p)
<1>1. /\ m \in Seq(Rec) /\ Len(m) = Len(l) + 1 /\ m[Len(m)] = e
      /\ \A i \in 1..Len(l) : m[i] = l[i]
      /\ Len(l) \in Nat
  BY DEF Added
<1>2. /\ s \in 0..Len(l)
      /\ s # 0 => l[s].proc = p /\ l[s].op = "BW"
      /\ \A i \in 1..Len(l) : l[i].proc = p /\ l[i].op = "BW" => i <= s
  BY StartFacts
<1> HIDE DEF s
<1>3. StartOf(m, p) = s
  <2>1. s \in 0..Len(m) /\ (s # 0 => m[s].proc = p /\ m[s].op = "BW")
    BY <1>1, <1>2
  <2>2. ASSUME NEW i \in 1..Len(m), m[i].proc = p, m[i].op = "BW"
        PROVE  i <= s
    <3>1. i # Len(m)
      BY <1>1, <2>2
    <3>2. i \in 1..Len(l)
      BY <1>1, <3>1
    <3>3. QED
      BY <1>1, <1>2, <2>2, <3>2
  <2>3. QED
    BY <1>1, <2>1, <2>2, StartUnique
<1>4. ChangesOf(m, p) = ChangesOf(l, p) \union {Len(m)}
  <2>1. ASSUME NEW i \in Nat, i > 0
        PROVE  /\ i <= Len(m) => i <= Len(l) \/ i = Len(m)
               /\ i <= Len(l) => m[i] = l[i] /\ i <= Len(m)
    <3>1. /\ i <= Len(m) => i <= Len(l) \/ i = Len(m)
          /\ i <= Len(l) => i <= Len(m) /\ i \in 1..Len(l)
      BY <1>1, <2>1, OneMore
    <3>2. QED
      BY <1>1, <3>1
  <2>2. /\ ChangesOf(m, p) = {i \in s..Len(m) : i > 0 /\ m[i].proc = p
                                /\ m[i].op \in {"IN", "DE", "UP"}}
        /\ ChangesOf(l, p) = {i \in s..Len(l) : i > 0 /\ l[i].proc = p
                                /\ l[i].op \in {"IN", "DE", "UP"}}
    BY <1>3 DEF ChangesOf, s
  <2>3. s \in Nat /\ Len(m) \in Nat /\ Len(l) \in Nat
    BY <1>1, <1>2
  <2>4. ASSUME NEW i \in ChangesOf(m, p), i # Len(m)
        PROVE  i \in ChangesOf(l, p)
    <3>1. i \in Nat /\ i > 0 /\ i >= s /\ i <= Len(m) /\ m[i].proc = p
          /\ m[i].op \in {"IN", "DE", "UP"}
      BY <2>2, <2>3
    <3>2. i <= Len(l) /\ m[i] = l[i]
      BY <2>1, <2>4, <3>1
    <3>3. QED
      BY <2>2, <2>3, <3>1, <3>2
  <2>5. ASSUME NEW i \in ChangesOf(l, p) PROVE i \in ChangesOf(m, p)
    <3>1. i \in Nat /\ i > 0 /\ i >= s /\ i <= Len(l) /\ l[i].proc = p
          /\ l[i].op \in {"IN", "DE", "UP"}
      BY <2>2, <2>3
    <3>2. i <= Len(m) /\ m[i] = l[i]
      BY <2>1, <3>1
    <3>3. QED
      BY <2>2, <2>3, <3>1, <3>2
  <2>6. Len(m) \in ChangesOf(m, p)
    BY <1>1, <1>2, <2>2
  <2>7. QED
    BY <2>4, <2>5, <2>6
<1>5. QED
  BY <1>3, <1>4 DEF s

(* After a begin record there are no changes yet.                          *)
LEMMA AddedBegin ==
  ASSUME NEW l \in Seq(Rec), NEW p, NEW m, NEW e, Added(l, m, e),
         e.proc = p, e.op = "BW"
  PROVE  StartOf(m, p) = Len(m) /\ ChangesOf(m, p) = {}
<1>1. m \in Seq(Rec) /\ Len(m) = Len(l) + 1 /\ m[Len(m)] = e /\ Len(l) \in Nat
  BY DEF Added
<1>2. StartOf(m, p) = Len(m)
  <2> DEFINE n == Len(m)
  <2>1. n \in 0..Len(m) /\ m[n].proc = p /\ m[n].op = "BW"
    BY <1>1
  <2>2. \A i \in 1..Len(m) : i <= n
    BY <1>1
  <2> HIDE DEF n
  <2>3. StartOf(m, p) = n
    BY <1>1, <2>1, <2>2, StartUnique
  <2>4. QED
    BY <2>3 DEF n
<1>3. ASSUME NEW i \in ChangesOf(m, p) PROVE FALSE
  <2>1. i \in Len(m)..Len(m) /\ m[i].op \in {"IN", "DE", "UP"}
    BY <1>2 DEF ChangesOf
  <2>2. i = Len(m)
    BY <1>1, <2>1
  <2>3. QED
    BY <1>1, <2>1, <2>2
<1>4. QED
  BY <1>2, <1>3

(* A log with a record more has grown by that record.                      *)
LEMMA AddedGrown ==
  ASSUME NEW l \in Seq(Rec), NEW m, NEW e, Added(l, m, e)
  PROVE  /\ Grown(l, m)
         /\ \A i \in 1..Len(m) : i > Len(l) => m[i] = e
<1>1. Len(m) = Len(l) + 1 /\ m[Len(m)] = e /\ Len(l) \in Nat
  BY DEF Added
<1>2. ASSUME NEW i \in 1..Len(m), i > Len(l) PROVE i = Len(m)
  BY <1>1, <1>2
<1>3. QED
  BY <1>1, <1>2 DEF Added, Grown

(* A record of p.                                                          *)
Mine(e, p) == e.proc = p /\ e.pid = Short(Pid[p])

(* Logging a change makes the log grow by records of the process.          *)
LEMMA LoggedGrown ==
  ASSUME NEW p \in Proc, NEW e, log \in Seq(Rec), LoggedAs(p, e), Mine(e, p)
  PROVE  /\ Grown(log, log')
         /\ \A i \in 1..Len(log') : i > Len(log) => Mine(log'[i], p)
<1> DEFINE b == Record(p, "BW", 0, NoKey)
<1>0. Mine(b, p)
  BY DEF Record, Mine
<1> HIDE DEF b
<1>1. CASE Added(log, log', e)
  BY <1>1, AddedGrown
<1>2. CASE \E l \in Seq(Rec) : Added(log, l, b) /\ Added(l, log', e)
  <2>1. PICK l \in Seq(Rec) : Added(log, l, b) /\ Added(l, log', e)
    BY <1>2
  <2>2. /\ Grown(log, l) /\ \A i \in 1..Len(l) : i > Len(log) => l[i] = b
        /\ Grown(l, log')
        /\ \A i \in 1..Len(log') : i > Len(l) => log'[i] = e
    BY <2>1, AddedGrown
  <2>3. Len(log) \in Nat /\ Len(l) \in Nat /\ Len(log') \in Nat
    BY <2>2 DEF Grown
  <2>4. Grown(log, log')
    <3>1. Len(log) <= Len(l) /\ Len(l) <= Len(log')
      BY <2>2 DEF Grown
    <3>2. ASSUME NEW i \in 1..Len(log) PROVE log'[i] = log[i]
      <4>1. i \in 1..Len(l)
        BY <2>3, <3>1
      <4>2. QED
        BY <2>2, <4>1 DEF Grown
    <3>3. QED
      BY <2>2, <2>3, <3>1, <3>2 DEF Grown
  <2>5. ASSUME NEW i \in 1..Len(log'), i > Len(log)
        PROVE  Mine(log'[i], p)
    <3>1. CASE i > Len(l)
      BY <2>2, <3>1
    <3>2. CASE ~(i > Len(l))
      <4>1. i \in 1..Len(l)
        BY <2>3, <3>2
      <4>2. log'[i] = l[i]
        BY <2>2, <4>1 DEF Grown
      <4>3. l[i] = b
        BY <2>2, <2>5, <4>1
      <4>4. QED
        BY <1>0, <4>2, <4>3
    <3>3. QED
      BY <3>1, <3>2
  <2>6. QED
    BY <2>4, <2>5
<1>3. QED
  BY <1>1, <1>2 DEF LoggedAs, b

(* Start and Changes are StartOf and ChangesOf the log.                    *)
LEMMA StartIs ==
  ASSUME NEW p
  PROVE  /\ Start(p) = StartOf(log, p) /\ Changes(p) = ChangesOf(log, p)
         /\ Start(p)' = StartOf(log', p) /\ Changes(p)' = ChangesOf(log', p)
  BY DEF Start, Changes, StartOf, ChangesOf

-----------------------------------------------------------------------------
(* What a process still has to give account of.                            *)

(* A transaction with changes in the log.                                  *)
Active(p) == ivbintrans[p] \in {"needflush", "commit", "rollback"}

(* The record up to which a walk has still to go, the last one before.     *)
Top(p) == IF ivbintrans[p] = "needflush" THEN Len(log) ELSE at[p]

(* The changes that a walk has not come to, and the rows they delete.      *)
ToGo(p) == IF Active(p) THEN {i \in Changes(p) : i <= Top(p)} ELSE {}
Deleted(p) == {log[i].row : i \in {j \in ToGo(p) : log[j].op = "DE"}}

(* The rows of all its changes.                                            *)
Held(p) == IF Active(p) THEN Touched(p) ELSE {}

(* The changes of a transaction are records of its process, behind its begin*)
(* record, with rows of the table.                                         *)
LEMMA ChangesFacts ==
  ASSUME TypeInv, NEW p, NEW i \in Changes(p)
  PROVE  /\ i \in 1..Len(log) /\ log[i] \in Rec /\ log[i].proc = p
         /\ log[i].op \in {"IN", "DE", "UP"} /\ log[i].row \in Row
         /\ log[i].old \in Value /\ i > Start(p)
<1>1. log \in Seq(Rec) /\ Len(log) \in Nat
  BY DEF TypeInv, LogPart
<1>2. /\ i \in StartOf(log, p)..Len(log) /\ i > 0 /\ log[i].proc = p
      /\ log[i].op \in {"IN", "DE", "UP"}
  BY StartIs DEF ChangesOf
<1>3. /\ StartOf(log, p) \in 0..Len(log)
      /\ StartOf(log, p) # 0 => log[StartOf(log, p)].op = "BW"
  BY <1>1, StartFacts
<1> DEFINE s == StartOf(log, p)
<1> HIDE DEF s
<1>4. s \in 0..Len(log) /\ (s # 0 => log[s].op = "BW") /\ i \in s..Len(log)
  BY <1>2, <1>3 DEF s
<1>5. i \in 1..Len(log) /\ i > s
  <2>1. i # s
    BY <1>2, <1>4
  <2>2. QED
    BY <1>1, <1>2, <1>4, <2>1
<1>6. log[i] \in Rec /\ RowRec(log[i])
  BY <1>1, <1>5, ElementOfSeq DEF TypeInv, LogPart
<1>7. Start(p) = s
  BY StartIs DEF s
<1>8. QED
  BY <1>2, <1>5, <1>6, <1>7 DEF RowRec, Rec

(* An action of a process makes the log grow by records of that process, if*)
(* at all.                                                                 *)
LEMMA LogOfAction ==
  ASSUME TypeInv, NEW p \in Proc, ActionOf(p)
  PROVE  /\ Grown(log, log')
         /\ \A i \in 1..Len(log') : i > Len(log) => Mine(log'[i], p)
<1>0. log \in Seq(Rec) /\ Len(log) \in Nat
  BY DEF TypeInv, LogPart
<1>1. ASSUME NEW op \in {"IN", "DE", "UP"}, NEW r \in Row, NEW old \in Value,
             Logged(p, op, r, old)
      PROVE  /\ Grown(log, log')
             /\ \A i \in 1..Len(log') : i > Len(log) => Mine(log'[i], p)
  <2> DEFINE e == Record(p, op, r, old)
  <2>1. LoggedAs(p, e) /\ Mine(e, p)
    <3>1. Mine(e, p)
      BY DEF Record, Mine
    <3>2. QED
      BY <1>0, <1>1, <3>1, LoggedAdds
  <2> HIDE DEF e
  <2>2. QED
    BY <1>0, <2>1, LoggedGrown
<1>2. ASSUME log' = log
      PROVE  /\ Grown(log, log')
             /\ \A i \in 1..Len(log') : i > Len(log) => Mine(log'[i], p)
  BY <1>0, <1>2 DEF Grown
<1>3. ASSUME NEW op \in {"CW", "RW"},
             log' = Append(log, Record(p, op, 0, NoKey))
      PROVE  /\ Grown(log, log')
             /\ \A i \in 1..Len(log') : i > Len(log) => Mine(log'[i], p)
  <2> DEFINE e == Record(p, op, 0, NoKey)
  <2>1. Added(log, log', e) /\ Mine(e, p)
    <3>1. Mine(e, p)
      BY DEF Record, Mine
    <3>2. QED
      BY <1>3, <3>1, AppendType
  <2> HIDE DEF e
  <2>2. QED
    BY <1>0, <2>1, AddedGrown
<1>4. CASE iswrite(p)
  <2>1. NextRow(space) \in Row /\ NoKey \in Value
    BY <1>4, TakenType DEF iswrite, TypeInv, Value
  <2>2. \/ log' = log
        \/ Logged(p, "IN", NextRow(space), NoKey)
    BY <1>4 DEF iswrite
  <2>3. QED
    BY <1>1, <1>2, <2>1, <2>2
<1>5. CASE isdelete(p) \/ isrewrite(p)
  <2>1. \E r \in Row, op \in {"DE", "UP"} : Logged(p, op, r, data[r])
    BY <1>5 DEF isdelete, isrewrite
  <2>2. \A r \in Row : data[r] \in Value
    BY DEF TypeInv
  <2>3. QED
    BY <1>1, <2>1, <2>2
<1>6. CASE isrollback(p) \/ CommitEnd(p)
  BY <1>3, <1>6 DEF isrollback, CommitEnd
<1>7. CASE \/ isbegin(p) \/ iscommit(p) \/ CommitStep(p) \/ UndoInsert(p)
           \/ UndoUpdate(p) \/ UndoDelete(p) \/ UndoFails(p)
           \/ RollbackEnd(p) \/ OnHandle(p)
  <2>1. log' = log
    BY <1>7, HandleKeeps DEF isbegin, iscommit, CommitStep, UndoInsert,
                UndoUpdate, UndoDelete, UndoFails, RollbackEnd
  <2>2. QED
    BY <1>2, <2>1
<1>8. QED
  BY <1>4, <1>5, <1>6, <1>7 DEF ActionOf

(* Nothing of another process changes in the views.                        *)
KeptFor(q) ==
  /\ ivbintrans'[q] = ivbintrans[q] /\ at'[q] = at[q]
  /\ Start(q)' = Start(q) /\ Changes(q)' = Changes(q)
  /\ \A i \in Changes(q) : log'[i] = log[i]
  /\ ToGo(q)' = ToGo(q) /\ Held(q)' = Held(q) /\ Deleted(q)' = Deleted(q)
  /\ Touched(q)' = Touched(q)

(* Where the changes of a process are the same, its rows are.              *)
LEMMA SameRows ==
  ASSUME NEW q, NEW C, NEW l, NEW m, \A i \in C : m[i] = l[i]
  PROVE  /\ {m[i].row : i \in C} = {l[i].row : i \in C}
         /\ \A D \in SUBSET C :
              {m[i].row : i \in {j \in D : m[j].op = "DE"}} =
              {l[i].row : i \in {j \in D : l[j].op = "DE"}}
  OBVIOUS

(* An action of one process leaves the mode, the walk, the changes, the    *)
(* changes to go and the rows of every other process as they were.         *)
LEMMA OthersKept ==
  ASSUME TypeInv, NEW p \in Proc, ActionOf(p), NEW q \in Proc, q # p
  PROVE  KeptFor(q)
<1>1. /\ Grown(log, log') /\ log \in Seq(Rec) /\ Len(log) \in Nat
      /\ \A i \in 1..Len(log') : i > Len(log) => log'[i].proc = p
  BY LogOfAction DEF TypeInv, LogPart, Mine
<1>2. /\ Start(q)' = Start(q) /\ Changes(q)' = Changes(q)
  <2>1. \A i \in 1..Len(log') : i > Len(log) => log'[i].proc # q
    BY <1>1
  <2>2. StartOf(log', q) = StartOf(log, q)
        /\ ChangesOf(log', q) = ChangesOf(log, q)
    BY <1>1, <2>1, GrownOther
  <2>3. QED
    BY <2>2, StartIs
<1>3. ivbintrans'[q] = ivbintrans[q] /\ at'[q] = at[q]
  <2>1. CASE iswrite(p) \/ isdelete(p) \/ isrewrite(p)
    BY <2>1 DEF iswrite, isdelete, isrewrite, Logged, TypeInv
  <2>2. CASE isbegin(p) \/ iscommit(p) \/ isrollback(p)
    BY <2>2 DEF isbegin, iscommit, isrollback, TypeInv
  <2>3. CASE \/ CommitStep(p) \/ UndoInsert(p) \/ UndoUpdate(p)
             \/ UndoDelete(p)
    BY <2>3 DEF CommitStep, UndoInsert, UndoUpdate, UndoDelete, Step, TypeInv
  <2>4. CASE CommitEnd(p) \/ UndoFails(p) \/ RollbackEnd(p)
    BY <2>4 DEF CommitEnd, UndoFails, RollbackEnd, End, TypeInv
  <2>5. CASE OnHandle(p)
    BY <2>5, HandleKeeps
  <2>6. QED
    BY <2>1, <2>2, <2>3, <2>4, <2>5 DEF ActionOf
<1>4. \A i \in Changes(q) : i \in 1..Len(log) /\ log'[i] = log[i]
  BY <1>1, ChangesFacts DEF Grown
<1>5. Active(q)' = Active(q)
  BY <1>3 DEF Active
<1>6. ToGo(q)' = ToGo(q)
  <2>1. ToGo(q)' = IF Active(q)' THEN {i \in Changes(q)' : i <= Top(q)'}
                   ELSE {}
    BY DEF ToGo
  <2>2. \A i \in Changes(q) : i <= Top(q)' <=> i <= Top(q)
    <3>1. CASE ivbintrans[q] = "needflush"
      <4>1. Top(q) = Len(log) /\ Top(q)' = Len(log')
        BY <1>3, <3>1 DEF Top
      <4>2. Len(log) <= Len(log') /\ Len(log') \in Nat
        BY <1>1 DEF Grown
      <4>3. ASSUME NEW i \in Changes(q)
            PROVE  i <= Len(log) /\ i <= Len(log')
        BY <1>1, <1>4, <4>2
      <4>4. QED
        BY <4>1, <4>3
    <3>2. CASE ivbintrans[q] # "needflush"
      BY <1>3, <3>2 DEF Top
    <3>3. QED
      BY <3>1, <3>2
  <2>3. QED
    BY <1>2, <1>5, <2>1, <2>2 DEF ToGo
<1>7. Touched(q)' = Touched(q)
  BY <1>2, <1>4, SameRows DEF Touched
<1>8. Held(q)' = Held(q)
  BY <1>5, <1>7 DEF Held
<1>9. Deleted(q)' = Deleted(q)
  <2>1. ToGo(q) \in SUBSET Changes(q)
    BY DEF ToGo
  <2> DEFINE C == Changes(q)
             D == ToGo(q)
             l == log
             m == log'
  <2>2. D \in SUBSET C /\ \A i \in C : m[i] = l[i]
    BY <1>4, <2>1
  <2> HIDE DEF C, D, l, m
  <2>3. {m[i].row : i \in {j \in D : m[j].op = "DE"}} =
        {l[i].row : i \in {j \in D : l[j].op = "DE"}}
    BY <2>2
  <2>4. QED
    BY <1>6, <2>3 DEF Deleted, l, m, D
<1>10. QED
  BY <1>2, <1>3, <1>4, <1>6, <1>7, <1>8, <1>9 DEF KeptFor

(* What the invariant knows of the log: records carry the process number   *)
(* of their process, and between the begin record of a transaction and the *)
(* place its walk has come to there are only changes of it.                *)
PidPart == \A i \in 1..Len(log) : log[i].pid = Short(Pid[log[i].proc])

(* Between the begin record of a transaction and its last record to go there*)
(* are only changes of it, and a walk is at a record of its own.           *)
Own(p) ==
  Active(p) =>
    /\ Start(p) # 0 /\ Start(p) <= Top(p)
    /\ \A i \in 1..Len(log) :
         i > Start(p) /\ i <= Top(p) /\ log[i].proc = p
           => log[i].op \in {"IN", "DE", "UP"}
    /\ ivbintrans[p] # "needflush" => at[p] # 0 /\ log[at[p]].proc = p

(* A change adds one record to the account.                                *)
ChangeView(p, op, r, old) ==
  /\ ivbintrans'[p] = "needflush"
  /\ Len(log') \in Nat /\ Len(log') # 0
  /\ Changes(p)' = ToGo(p) \union {Len(log')}
  /\ ToGo(p)' = ToGo(p) \union {Len(log')}
  /\ \A i \in ToGo(p) : i \in Nat /\ i < Len(log') /\ log'[i] = log[i]
  /\ log'[Len(log')].op = op /\ log'[Len(log')].row = r
  /\ log'[Len(log')].old = old /\ log'[Len(log')].proc = p
  /\ Held(p)' = Held(p) \union {r}
  /\ Deleted(p)' = Deleted(p) \union (IF op = "DE" THEN {r} ELSE {})

(* What a call that logs a change does to the views of its process.        *)
LEMMA ChangeFacts ==
  ASSUME TypeInv, Istrans, NEW p \in Proc, CanChange(p),
         NEW op \in {"IN", "DE", "UP"}, NEW r \in Row, NEW old \in Value,
         Logged(p, op, r, old)
  PROVE  ChangeView(p, op, r, old) /\ (Own(p) => Own(p)')
<1> DEFINE e == Record(p, op, r, old)
           b == Record(p, "BW", 0, NoKey)
           n == Len(log')
<1>0. /\ log \in Seq(Rec) /\ Len(log) \in Nat
      /\ ivbintrans \in [Proc -> Modes]
  BY DEF TypeInv, LogPart
<1>1. /\ e.proc = p /\ e.op = op /\ e.row = r /\ e.old = old
      /\ b.proc = p /\ b.op = "BW"
  BY DEF Record
<1>2. LoggedAs(p, e)
  BY <1>0, LoggedAdds
<1>3. /\ ivbintrans'[p] = "needflush"
      /\ ivbintrans[p] \in {"begin", "needflush"}
  BY <1>0 DEF CanChange, Logged
<1>4. /\ Active(p)' /\ Top(p)' = n
  BY <1>3 DEF Active, Top
<1> HIDE DEF e, b, n
<1>5. /\ n \in Nat /\ n \in 1..n /\ log'[n] = e
      /\ Changes(p)' = ToGo(p) \union {n}
      /\ \A i \in ToGo(p) : i \in Nat /\ i < n /\ log'[i] = log[i]
      /\ Own(p) => Own(p)'
  <2>1. CASE ivbintrans[p] = "begin"
    <3>1. PICK l \in Seq(Rec) : Added(log, l, b) /\ Added(l, log', e)
      BY <1>2, <2>1 DEF LoggedAs, b
    <3>2. StartOf(l, p) = Len(l) /\ ChangesOf(l, p) = {}
      BY <1>0, <1>1, <3>1, AddedBegin
    <3>3. /\ StartOf(log', p) = Len(l)
          /\ ChangesOf(log', p) = {n}
      BY <1>1, <3>1, <3>2, AddedChange DEF n
    <3>4. ToGo(p) = {}
      BY <2>1 DEF ToGo, Active
    <3>5. n \in Nat /\ n \in 1..n /\ log'[n] = e
      <4>1. Len(l) \in Nat /\ n = Len(l) + 1 /\ log'[n] = e
        BY <3>1 DEF Added, n
      <4>2. QED
        BY <4>1
    <3>6. Own(p)'
      <4>1. Start(p)' = Len(l) /\ Len(l) \in Nat /\ n = Len(l) + 1
            /\ Len(l) # 0
        <5>1. Len(l) = Len(log) + 1
          BY <3>1 DEF Added
        <5>2. QED
          BY <1>0, <3>1, <3>3, <5>1, StartIs DEF Added, n
      <4>2. \A i \in 1..n : i > Len(l) => i = n
        BY <4>1
      <4>3. QED
        BY <1>1, <1>3, <1>4, <3>5, <4>1, <4>2 DEF Own, n
    <3>7. QED
      BY <3>3, <3>4, <3>5, <3>6, StartIs
  <2>2. CASE ivbintrans[p] = "needflush"
    <3>1. Added(log, log', e)
      BY <1>2, <2>2 DEF LoggedAs
    <3>2. n = Len(log) + 1 /\ log'[n] = e
          /\ \A i \in 1..Len(log) : log'[i] = log[i]
      BY <3>1 DEF Added, n
    <3>3. /\ StartOf(log', p) = StartOf(log, p)
          /\ ChangesOf(log', p) = ChangesOf(log, p) \union {n}
      BY <1>0, <1>1, <3>1, AddedChange DEF n
    <3>4. \A i \in Changes(p) : i \in 1..Len(log)
      BY ChangesFacts
    <3>5. ToGo(p) = Changes(p)
      <4>1. Active(p) /\ Top(p) = Len(log)
        BY <2>2 DEF Active, Top
      <4>2. QED
        BY <1>0, <3>4, <4>1 DEF ToGo
    <3>6. Own(p) => Own(p)'
      <4> SUFFICES ASSUME Own(p) PROVE Own(p)'
        OBVIOUS
      <4>1. /\ Start(p)' = Start(p) /\ Start(p) \in 0..Len(log)
        BY <1>0, <3>3, StartIs, StartFacts
      <4>2. /\ Start(p) # 0
            /\ \A i \in 1..Len(log) : i > Start(p) /\ log[i].proc = p
                                        => log[i].op \in {"IN", "DE", "UP"}
        BY <1>0, <2>2 DEF Own, Active, Top
      <4>3. \A i \in 1..n : i > Start(p) /\ log'[i].proc = p
                              => log'[i].op \in {"IN", "DE", "UP"}
        <5>1. \A i \in 1..n : i \in 1..Len(log) \/ i = n
          BY <1>0, <3>2
        <5>2. QED
          BY <1>1, <3>2, <4>2, <5>1
      <4>4. QED
        BY <1>0, <1>3, <1>4, <3>2, <4>1, <4>2, <4>3 DEF Own, n
    <3>7. QED
      BY <1>0, <3>2, <3>3, <3>4, <3>5, <3>6, StartIs
  <2>3. QED
    BY <1>3, <2>1, <2>2
<1>6. ToGo(p)' = ToGo(p) \union {n}
  <2>1. ToGo(p)' = {i \in Changes(p)' : i <= n}
    BY <1>4 DEF ToGo
  <2>2. QED
    BY <1>5, <2>1
<1>7. Held(p)' = Held(p) \union {r}
  <2>1. Held(p)' = {log'[i].row : i \in Changes(p)'}
    BY <1>4 DEF Held, Touched
  <2>2. Held(p) = {log[i].row : i \in ToGo(p)}
    <3>1. CASE ivbintrans[p] = "begin"
      BY <3>1 DEF Held, ToGo, Active
    <3>2. CASE ivbintrans[p] = "needflush"
      <4>1. Active(p) /\ Top(p) = Len(log)
        BY <3>2 DEF Active, Top
      <4>2. ToGo(p) = Changes(p)
        <5>1. \A i \in Changes(p) : i <= Len(log)
          BY <1>0, ChangesFacts
        <5>2. QED
          BY <4>1, <5>1 DEF ToGo
      <4>3. QED
        BY <4>1, <4>2 DEF Held, Touched
    <3>3. QED
      BY <1>3, <3>1, <3>2
  <2>3. {log'[i].row : i \in ToGo(p) \union {n}} =
          {log[i].row : i \in ToGo(p)} \union {r}
    BY <1>1, <1>5
  <2>4. QED
    BY <1>5, <2>1, <2>2, <2>3
<1>8. Deleted(p)' = Deleted(p) \union (IF op = "DE" THEN {r} ELSE {})
  <2>1. Deleted(p)' = {log'[i].row :
                         i \in {j \in ToGo(p)' : log'[j].op = "DE"}}
    BY DEF Deleted
  <2> DEFINE T == ToGo(p)
             m == log'
             l == log
  <2>2. m[n].op = op /\ m[n].row = r /\ \A i \in T : m[i] = l[i]
    BY <1>1, <1>5
  <2> HIDE DEF T, m, l
  <2>3. {m[i].row : i \in {j \in T \union {n} : m[j].op = "DE"}} =
        {l[i].row : i \in {j \in T : l[j].op = "DE"}}
          \union (IF op = "DE" THEN {r} ELSE {})
    BY <2>2
  <2>4. QED
    BY <1>6, <2>1, <2>3 DEF Deleted, T, m, l
<1>9. QED
  BY <1>1, <1>3, <1>5, <1>6, <1>7, <1>8 DEF ChangeView, n

(* A call that logs no change.                                             *)
RestOf(p) ==
  \/ iswrite(p) /\ UNCHANGED <<data, log, ivbintrans>>
  \/ OnHandle(p)
  \/ isbegin(p) \/ iscommit(p) \/ isrollback(p)
  \/ CommitStep(p) \/ CommitEnd(p)
  \/ UndoInsert(p) \/ UndoUpdate(p) \/ UndoDelete(p) \/ UndoFails(p)
  \/ RollbackEnd(p)

(* The log a call leaves that logs no change shows the same transaction.   *)
LEMMA RestLog ==
  ASSUME TypeInv, NEW p \in Proc, RestOf(p)
  PROVE  /\ Start(p)' = Start(p) /\ Changes(p)' = Changes(p)
         /\ Touched(p)' = Touched(p)
         /\ Len(log) \in Nat /\ Len(log') \in Nat /\ Len(log) <= Len(log')
         /\ \A i \in 1..Len(log) : log'[i] = log[i]
<1>0. log \in Seq(Rec) /\ Len(log) \in Nat
  BY DEF TypeInv, LogPart
<1>1. CASE log' = log
  BY <1>0, <1>1 DEF Start, Changes, Touched
<1>2. ASSUME NEW op \in {"CW", "RW"},
             log' = Append(log, Record(p, op, 0, NoKey))
      PROVE  /\ Start(p)' = Start(p) /\ Changes(p)' = Changes(p)
             /\ Touched(p)' = Touched(p)
             /\ Len(log') \in Nat /\ Len(log) <= Len(log')
             /\ \A i \in 1..Len(log) : log'[i] = log[i]
  <2> DEFINE e == Record(p, op, 0, NoKey)
  <2>1. e.op \in {"CW", "RW"}
    BY DEF Record
  <2>2. Added(log, log', e)
    BY <1>2, AppendType
  <2> HIDE DEF e
  <2>3. /\ Grown(log, log')
        /\ \A i \in 1..Len(log') : i > Len(log) => log'[i] = e
    BY <1>0, <2>2, AddedGrown
  <2>4. StartOf(log', p) = StartOf(log, p)
        /\ ChangesOf(log', p) = ChangesOf(log, p)
    BY <1>0, <2>1, <2>3, GrownOther
  <2>5. Start(p)' = Start(p) /\ Changes(p)' = Changes(p)
    BY <2>4, StartIs
  <2>6. \A i \in Changes(p) : log'[i] = log[i]
    BY <2>3, ChangesFacts DEF Grown
  <2>7. Touched(p)' = Touched(p)
    BY <2>5, <2>6, SameRows DEF Touched
  <2>8. QED
    BY <2>3, <2>5, <2>7 DEF Grown
<1>3. \/ log' = log
      \/ \E op \in {"CW", "RW"} : log' = Append(log, Record(p, op, 0, NoKey))
  BY HandleKeeps DEF RestOf, isbegin, iscommit, isrollback, CommitStep,
     CommitEnd, UndoInsert, UndoUpdate, UndoDelete, UndoFails, RollbackEnd
<1>4. QED
  BY <1>0, <1>1, <1>2, <1>3

(* A call that logs no change adds no row to those of the transaction.     *)
LEMMA RestHeld ==
  ASSUME TypeInv, Istrans, NEW p \in Proc, RestOf(p)
  PROVE  Held(p)' \subseteq Held(p)
<1>1. Touched(p)' = Touched(p)
  BY RestLog
<1>2. Active(p)' => Active(p)
  <2>1. CASE \/ iswrite(p) /\ UNCHANGED <<data, log, ivbintrans>>
             \/ CommitStep(p) \/ UndoInsert(p)
             \/ UndoUpdate(p) \/ UndoDelete(p)
    BY <2>1 DEF CommitStep, UndoInsert, UndoUpdate, UndoDelete, Active
  <2>2. CASE isbegin(p) \/ iscommit(p) \/ isrollback(p)
    BY <2>2 DEF isbegin, iscommit, isrollback, Active, TypeInv
  <2>3. CASE CommitEnd(p) \/ UndoFails(p) \/ RollbackEnd(p)
    BY <2>3 DEF CommitEnd, UndoFails, RollbackEnd, Walking, End, Active,
                TypeInv
  <2>4. CASE OnHandle(p)
    BY <2>4, HandleKeeps DEF Active
  <2>5. QED
    BY <2>1, <2>2, <2>3, <2>4 DEF RestOf
<1>3. QED
  BY <1>1, <1>2 DEF Held

(* A call logs a change of a row it has locked, or it logs none.           *)
LEMMA ChangeOrRest ==
  ASSUME TypeInv, NEW p \in Proc, ActionOf(p)
  PROVE  \/ RestOf(p)
         \/ /\ CanChange(p) /\ at' = at /\ letgo' = letgo
            /\ \E op \in {"IN", "DE", "UP"}, r \in Row, old \in Value :
                 /\ Logged(p, op, r, old) /\ CanLock(p, r)
                 /\ rowlock' = LockRow(p, r)
<1>1. CASE iswrite(p)
  <2>1. NextRow(space) \in Row /\ NoKey \in Value
    BY <1>1, TakenType DEF iswrite, TypeInv, Value
  <2>2. QED
    BY <1>1, <2>1 DEF iswrite, RestOf
<1>2. CASE isdelete(p) \/ isrewrite(p)
  <2>1. \A r \in Row : data[r] \in Value
    BY DEF TypeInv
  <2>2. QED
    BY <1>2, <2>1 DEF isdelete, isrewrite
<1>3. QED
  BY <1>1, <1>2 DEF ActionOf, RestOf

(* A process locks free rows, unlocks its own and leaves the other locks   *)
(* alone; a lock it gives up without the end of the transaction is noted.  *)
LEMMA LocksMove ==
  ASSUME TypeInv, NEW p \in Proc, ActionOf(p)
  PROVE  /\ \A x \in Row : \/ rowlock'[x] = rowlock[x]
                           \/ /\ rowlock[x] \in {p, NoProc}
                              /\ rowlock'[x] \in {p, NoProc}
         /\ \/ /\ letgo' = letgo
               /\ \A x \in Row : rowlock[x] = p => rowlock'[x] = p
            \/ \E r \in Row : /\ letgo'[p] = letgo[p] \union {r}
                              /\ \A x \in Row \ {r} : rowlock'[x] = rowlock[x]
            \/ letgo'[p] = Touched(p)
            \/ ivbintrans'[p] = "none"
<1>1. ASSUME NEW r \in Row, CanLock(p, r), rowlock' = LockRow(p, r)
      PROVE  \A x \in Row : /\ \/ rowlock'[x] = rowlock[x]
                               \/ /\ rowlock[x] \in {p, NoProc}
                                  /\ rowlock'[x] \in {p, NoProc}
                            /\ rowlock[x] = p => rowlock'[x] = p
  BY <1>1 DEF CanLock, LockRow, TypeInv
<1>2. ASSUME rowlock' = Unlocked(p)
      PROVE  \A x \in Row : \/ rowlock'[x] = rowlock[x]
                            \/ /\ rowlock[x] \in {p, NoProc}
                               /\ rowlock'[x] \in {p, NoProc}
  BY <1>2 DEF Unlocked
<1>3. CASE iswrite(p)
  <2>1. NextRow(space) \in Row
    BY <1>3, TakenType DEF iswrite, TypeInv
  <2>2. /\ CanLock(p, NextRow(space)) /\ letgo' = letgo
        /\ rowlock' = LockRow(p, NextRow(space))
    BY <1>3 DEF iswrite
  <2>3. QED
    BY <1>1, <2>1, <2>2
<1>4. CASE isdelete(p) \/ isrewrite(p)
  <2>1. PICK r \in Row : CanLock(p, r) /\ rowlock' = LockRow(p, r)
    BY <1>4 DEF isdelete, isrewrite
  <2>2. letgo' = letgo
    BY <1>4 DEF isdelete, isrewrite
  <2>3. QED
    BY <1>1, <2>1, <2>2
<1>5. CASE UndoInsert(p) \/ UndoUpdate(p) \/ UndoDelete(p)
  <2> DEFINE r == log[at[p]].row
  <2>1. /\ at[p] # 0 /\ log[at[p]].op \in {"IN", "DE", "UP"}
        /\ letgo' = letgo
        /\ \/ rowlock' = rowlock
           \/ CanLock(p, r) /\ rowlock' = LockRow(p, r)
    BY <1>5 DEF UndoInsert, UndoUpdate, UndoDelete, Undoing, Walking
  <2>2. r \in Row
    BY <2>1, WalkRow
  <2> HIDE DEF r
  <2>3. QED
    BY <1>1, <2>1, <2>2
<1>6. CASE \/ isbegin(p) \/ iscommit(p) \/ CommitStep(p)
           \/ isclose(p) \/ isopen(p) \/ Reopen(p)
  <2>1. rowlock' = rowlock /\ letgo' = letgo
    BY <1>6 DEF isbegin, iscommit, CommitStep, isclose, isopen, Reopen
  <2>2. QED
    BY <2>1
<1>7. CASE isrelrec(p)
  <2>1. PICK r \in Touched(p) :
               /\ rowlock[r] = p /\ rowlock' = [rowlock EXCEPT ![r] = NoProc]
               /\ letgo' = [letgo EXCEPT ![p] = letgo[p] \union {r}]
    BY <1>7 DEF isrelrec, TypeInv
  <2>2. r \in Row
    BY TouchedRows
  <2>3. /\ letgo'[p] = letgo[p] \union {r}
        /\ \A x \in Row : rowlock'[x] = IF x = r THEN NoProc ELSE rowlock[x]
    BY <2>1, <2>2 DEF TypeInv
  <2>4. QED
    BY <2>1, <2>2, <2>3
<1>8. CASE isunlock(p) \/ isrollback(p)
  <2>1. \/ rowlock' = rowlock /\ letgo' = letgo
        \/ rowlock' = Unlocked(p) /\ letgo'[p] = Touched(p)
    BY <1>8 DEF isunlock, isrollback, TypeInv
  <2>2. QED
    BY <1>2, <2>1
<1>9. CASE CommitEnd(p) \/ UndoFails(p) \/ RollbackEnd(p)
  <2>1. rowlock' = Unlocked(p) /\ ivbintrans'[p] = "none"
    BY <1>9 DEF CommitEnd, UndoFails, RollbackEnd, End, TypeInv
  <2>2. QED
    BY <1>2, <2>1
<1>10. QED
  BY <1>3, <1>4, <1>5, <1>6, <1>7, <1>8, <1>9 DEF ActionOf, OnHandle

(* The rows of a transaction are locked by its process, but for those it   *)
(* has given up.                                                           *)
LockPart ==
  \A p \in Proc : \A r \in Held(p) \ letgo[p] : rowlock[r] = p

(* Every action keeps them locked: a row is locked before its change is    *)
(* logged.                                                                 *)
LEMMA LockStep ==
  ASSUME TypeInv, Istrans, LockPart, NEW p \in Proc, ActionOf(p)
  PROVE  LockPart'
<1>1. \A q \in Proc : Held(q) \subseteq Row
  BY TouchedRows DEF Held
<1>2. \A q \in Proc \ {p} : Held(q)' = Held(q) /\ letgo'[q] = letgo[q]
  BY OthersKept, HandleType DEF KeptFor
<1>3. \A x \in Row : \/ rowlock'[x] = rowlock[x]
                     \/ rowlock[x] \in {p, NoProc}
  BY LocksMove
<1>4. ASSUME NEW q \in Proc \ {p}, NEW x \in Held(q)' \ letgo'[q]
      PROVE  rowlock'[x] = q
  <2>1. x \in Row /\ rowlock[x] = q
    BY <1>1, <1>2, <1>4 DEF LockPart
  <2>2. QED
    BY <1>3, <1>4, <2>1, TransAssumption
<1>5. ASSUME NEW x \in Held(p)' \ letgo'[p] PROVE rowlock'[x] = p
  <2>1. CASE RestOf(p)
    <3>1. x \in Held(p) /\ x \in Row
      BY <1>1, <1>5, <2>1, RestHeld
    <3>2. x \in Touched(p) /\ ivbintrans'[p] # "none"
      BY <1>5, <3>1 DEF Held, Active
    <3>3. CASE /\ letgo' = letgo
               /\ \A y \in Row : rowlock[y] = p => rowlock'[y] = p
      BY <1>5, <3>1, <3>3 DEF LockPart
    <3>4. CASE \E r \in Row :
                 /\ letgo'[p] = letgo[p] \union {r}
                 /\ \A y \in Row \ {r} : rowlock'[y] = rowlock[y]
      BY <1>5, <3>1, <3>4 DEF LockPart
    <3>5. CASE letgo'[p] = Touched(p)
      BY <1>5, <3>2, <3>5
    <3>6. QED
      BY <3>2, <3>3, <3>4, <3>5, LocksMove
  <2>2. CASE /\ CanChange(p) /\ at' = at /\ letgo' = letgo
             /\ \E op \in {"IN", "DE", "UP"}, r \in Row, old \in Value :
                  /\ Logged(p, op, r, old) /\ CanLock(p, r)
                  /\ rowlock' = LockRow(p, r)
    <3>1. PICK op \in {"IN", "DE", "UP"}, r \in Row, old \in Value :
                 /\ Logged(p, op, r, old) /\ CanLock(p, r)
                 /\ rowlock' = LockRow(p, r)
      BY <2>2
    <3>2. Held(p)' = Held(p) \union {r}
      BY <2>2, <3>1, ChangeFacts DEF ChangeView
    <3>3. \A y \in Row : rowlock'[y] = IF y = r THEN p ELSE rowlock[y]
      BY <2>2, <3>1 DEF CanChange, Locks, LockRow, TypeInv
    <3>4. QED
      BY <1>1, <1>5, <2>2, <3>2, <3>3 DEF LockPart
  <2>3. QED
    BY <2>1, <2>2, ChangeOrRest
<1>6. QED
  BY <1>4, <1>5 DEF LockPart

(* ChangedIsLocked: in a table opened with ISTRANS a row that an open      *)
(* transaction changed is locked by its process, during the rollback too:  *)
(* no other process takes the lock or drops it. The process itself may, by *)
(* isrelrec and isunlock and, where the table was closed in the            *)
(* transaction, by the rollback before it undoes anything (letgo).         *)
THEOREM RowsHeld ==
  ASSUME Istrans PROVE Spec => []ChangedIsLocked
<1>1. Init => LockPart
  BY DEF Init, LockPart, Held, Active
<1>2. TypeInv /\ LockPart /\ [Next]_vars => LockPart'
  <2> SUFFICES ASSUME TypeInv, LockPart, [Next]_vars PROVE LockPart'
    OBVIOUS
  <2>1. CASE UNCHANGED vars
    BY <2>1 DEF vars, LockPart, Held, Active, Touched, Changes, Start
  <2>2. CASE Next
    <3>1. \E p \in Proc : ActionOf(p)
      BY <2>2, NextIs
    <3>2. QED
      BY <3>1, LockStep
  <2>3. QED
    BY <2>1, <2>2
<1>3. LockPart => ChangedIsLocked
  BY DEF LockPart, ChangedIsLocked, Held, Active, InTrans
<1>4. QED
  BY <1>1, <1>2, <1>3, TypeInvariant, PTL DEF Spec
-----------------------------------------------------------------------------

(* The rows in use: d are the rows' keys, K the rows that are deleted and  *)
(* not yet given back.                                                     *)
OnFree(s, r) == \E i \in 1..Len(s.free) : s.free[i] = r

(* A row is on the free list once, in use or kept, and below the count.    *)
Good(s, d, K) ==
  /\ \A r \in Row : OnFree(s, r) => /\ d[r] = NoKey /\ r <= s.count
                                    /\ r \notin K
  /\ \A i, j \in 1..Len(s.free) : s.free[i] = s.free[j] => i = j
  /\ \A r \in Row : d[r] # NoKey => r <= s.count
  /\ \A r \in K : r <= s.count /\ d[r] = NoKey

(* No row below the count is lost.                                         *)
Covered(s, d, K) ==
  \A r \in 1..s.count : d[r] # NoKey \/ OnFree(s, r) \/ r \in K

(* The types of the count and of the free list.                            *)
LEMMA SpaceFacts ==
  ASSUME NEW s \in Space
  PROVE  /\ s.free \in Seq(Row) /\ Len(s.free) \in Nat
         /\ s.count \in Nat /\ s.count <= MaxRow
         /\ \A i \in 1..Len(s.free) : s.free[i] \in Row
         /\ \A r \in 1..s.count : r \in Row
         /\ \A r : OnFree(s, r) => r \in Row
<1>1. s.free \in Seq(Row) /\ s.count \in 0..MaxRow /\ Len(s.free) \in Nat
  BY DEF Space
<1>2. \A i \in 1..Len(s.free) : s.free[i] \in Row
  BY <1>1, ElementOfSeq
<1>3. QED
  BY <1>1, <1>2, MaxRowType DEF Row, OnFree

(* tvbdataallocate: the row it takes held no data, is off the free list,   *)
(* below the count and kept by nobody.                                     *)
LEMMA GoodTaken ==
  ASSUME NEW s \in Space, NEW d \in [Row -> Value], NEW K \in SUBSET Row,
         Good(s, d, K), NextRow(s) \in Row
  PROVE  /\ Good(Taken(s), d, K)
         /\ NextRow(s) <= Taken(s).count /\ ~OnFree(Taken(s), NextRow(s))
         /\ d[NextRow(s)] = NoKey /\ NextRow(s) \notin K
         /\ Covered(s, d, K)
              => Covered(Taken(s), d, K \union {NextRow(s)})
<1> DEFINE t == Taken(s)
           n == NextRow(s)
           c == s.count
<1>1. /\ s.free \in Seq(Row) /\ c \in Nat /\ \A r \in Row : r \in Nat
      /\ \A i \in 1..Len(s.free) : s.free[i] \in Row
  BY SpaceFacts, MaxRowType
<1>2. CASE s.free = <<>>
  <2>1. t.free = s.free /\ t.count = c + 1 /\ n = c + 1
    BY <1>2 DEF Taken, NextRow, Space
  <2> HIDE DEF t, n, c
  <2>2. \A r : OnFree(t, r) <=> OnFree(s, r)
    BY <2>1 DEF OnFree
  <2>3. \A r \in Row : ~OnFree(s, r)
    BY <1>2 DEF OnFree
  <2>4. /\ \A r \in Row : d[r] # NoKey => r <= c
        /\ \A r \in K : r <= c /\ d[r] = NoKey
    BY DEF Good, c
  <2>5. n <= t.count /\ ~(n <= c) /\ n \in Row
    BY <1>1, <2>1 DEF n
  <2>6. Good(t, d, K)
    <3>1. \A r \in Row : r <= c => r <= t.count
      BY <1>1, <2>1
    <3>2. QED
      BY <2>1, <2>2, <2>3, <2>4, <3>1 DEF Good
  <2>7. Covered(s, d, K) => Covered(t, d, K \union {n})
    <3>1. \A r \in 1..t.count : r \in 1..c \/ r = n
      BY <1>1, <2>1
    <3>2. QED
      BY <2>2, <3>1 DEF Covered, c
  <2>8. QED
    BY <2>2, <2>3, <2>4, <2>5, <2>6, <2>7 DEF t, n
<1>3. CASE s.free # <<>>
  <2> DEFINE f == s.free
             g == Front(f)
  <2>1. t.free = g /\ t.count = c /\ n = Last(f)
    BY <1>3 DEF Taken, NextRow, Space
  <2>2. /\ Len(g) = Len(f) - 1 /\ Len(f) \in Nat /\ Len(f) \in 1..Len(f)
        /\ \A i \in 1..(Len(f) - 1) : g[i] = f[i]
        /\ Last(f) = f[Len(f)]
    <3>1. f \in Seq(Row) /\ f # <<>> /\ Len(f) \in Nat
      BY <1>1, <1>3
    <3> HIDE DEF f
    <3>2. /\ Len(Front(f)) = Len(f) - 1 /\ Len(f) \in 1..Len(f)
          /\ \A i \in 1..(Len(f) - 1) : Front(f)[i] = f[i]
          /\ Last(f) = f[Len(f)]
      BY <3>1, FrontFacts
    <3>3. QED
      BY <3>1, <3>2
  <2> HIDE DEF t, n, c, f, g
  <2>3. OnFree(s, n) /\ n \in Row
    BY <2>1, <2>2 DEF OnFree, f, n
  <2>4. d[n] = NoKey /\ n <= c /\ n \notin K
    BY <2>3 DEF Good, c
  <2>5. \A i, j \in 1..Len(f) : f[i] = f[j] => i = j
    BY DEF Good, f
  <2>6. ASSUME NEW r PROVE OnFree(t, r) <=> OnFree(s, r) /\ r # n
    <3>1. ASSUME NEW i \in 1..Len(g), g[i] = r
          PROVE  OnFree(s, r) /\ r # n
      <4>1. i \in 1..Len(f) /\ i # Len(f) /\ i \in 1..(Len(f) - 1)
        BY <2>2
      <4>2. QED
        BY <2>1, <2>2, <2>5, <3>1, <4>1 DEF OnFree, f
    <3>2. ASSUME NEW i \in 1..Len(f), f[i] = r, r # n
          PROVE  OnFree(t, r)
      <4>1. i # Len(f)
        BY <2>1, <2>2, <3>2
      <4>2. i \in 1..(Len(f) - 1)
        BY <2>2, <4>1
      <4>3. QED
        BY <2>1, <2>2, <3>2, <4>2 DEF OnFree
    <3>3. QED
      BY <2>1, <3>1, <3>2 DEF OnFree, f
  <2>7. \A i, j \in 1..Len(g) : g[i] = g[j] => i = j
    <3>1. \A i \in 1..Len(g) : i \in 1..Len(f) /\ g[i] = f[i]
      BY <2>2
    <3>2. QED
      BY <2>5, <3>1
  <2>8. Good(t, d, K)
    BY <2>1, <2>6, <2>7 DEF Good, c
  <2>9. Covered(s, d, K) => Covered(t, d, K \union {n})
    BY <2>1, <2>6 DEF Covered, c
  <2>10. QED
    BY <2>1, <2>4, <2>6, <2>8, <2>9 DEF t, n
<1>4. QED
  BY <1>2, <1>3

(* ivbdatafree of a row without data that is not on the free list.         *)
LEMMA GoodFreed ==
  ASSUME NEW s \in Space, NEW d \in [Row -> Value], NEW K \in SUBSET Row,
         Good(s, d, K), NEW r \in Row, r <= s.count, d[r] = NoKey,
         ~OnFree(s, r)
  PROVE  Good(Freed(s, r), d, K \ {r})
<1> DEFINE t == Freed(s, r)
           c == s.count
           f == s.free
<1>1. /\ f \in Seq(Row) /\ c \in Nat /\ \A x \in Row : x \in Nat
      /\ Len(f) \in Nat
  BY SpaceFacts, MaxRowType
<1>2. CASE c = r
  <2>1. t.free = f /\ t.count = r - 1
    BY <1>2 DEF Freed, Space
  <2> HIDE DEF t, c, f
  <2>2. \A x : OnFree(t, x) <=> OnFree(s, x)
    BY <2>1 DEF OnFree, f
  <2>3. \A x \in Row : x <= c /\ x # r => x <= t.count
    BY <1>1, <1>2, <2>1
  <2>4. /\ \A x \in Row : d[x] # NoKey => x <= c /\ x # r
        /\ \A x \in K \ {r} : x \in Row /\ x <= c /\ x # r /\ d[x] = NoKey
        /\ \A x \in Row : OnFree(s, x) =>
             d[x] = NoKey /\ x <= c /\ x # r /\ x \notin K
        /\ \A i, j \in 1..Len(f) : f[i] = f[j] => i = j
    BY DEF Good, c, f
  <2>5. Good(t, d, K \ {r})
    BY <2>1, <2>2, <2>3, <2>4 DEF Good
  <2>6. QED
    BY <2>5 DEF t
<1>3. CASE c # r
  <2> DEFINE g == Append(f, r)
  <2>1. t.free = g /\ t.count = c
    BY <1>3 DEF Freed, Space
  <2>2. /\ Len(g) = Len(f) + 1 /\ g[Len(f) + 1] = r
        /\ \A i \in 1..Len(f) : g[i] = f[i]
    BY <1>1
  <2>3. /\ \A x \in Row : OnFree(s, x) => x # r
        /\ \A i, j \in 1..Len(f) : f[i] = f[j] => i = j
        /\ \A i \in 1..Len(f) : f[i] # r
    BY DEF Good, OnFree
  <2> HIDE DEF t, c, f, g
  <2>4. \A i \in 1..Len(g) : i \in 1..Len(f) \/ i = Len(f) + 1
    BY <1>1, <2>2
  <2>5. \A x : OnFree(t, x) <=> OnFree(s, x) \/ x = r
    <3>1. ASSUME NEW x, OnFree(t, x) PROVE OnFree(s, x) \/ x = r
      BY <2>1, <2>2, <2>4, <3>1 DEF OnFree, f
    <3>2. ASSUME NEW x, OnFree(s, x) \/ x = r PROVE OnFree(t, x)
      <4>1. /\ \A i \in 1..Len(f) : i \in 1..Len(g)
            /\ Len(f) + 1 \in 1..Len(g)
        BY <1>1, <2>2
      <4>2. QED
        BY <2>1, <2>2, <3>2, <4>1 DEF OnFree, f
    <3>3. QED
      BY <3>1, <3>2
  <2>6. \A i, j \in 1..Len(g) : g[i] = g[j] => i = j
    BY <2>2, <2>3, <2>4
  <2>7. Good(t, d, K \ {r})
    BY <2>1, <2>5, <2>6 DEF Good, c
  <2>8. QED
    BY <2>7 DEF t
<1>4. QED
  BY <1>2, <1>3

(* A row that is freed is not lost.                                        *)
LEMMA FreedCovers ==
  ASSUME NEW s \in Space, NEW d, NEW K, NEW r \in Row,
         Covered(s, d, K \union {r})
  PROVE  Covered(Freed(s, r), d, K)
<1>1. /\ s.count \in Nat /\ r \in Nat
      /\ s.free \in Seq(Row) /\ Len(s.free) \in Nat
  BY SpaceFacts, MaxRowType
<1>2. CASE s.count = r
  <2>1. /\ Freed(s, r).count = r - 1 /\ Freed(s, r).free = s.free
    BY <1>2 DEF Freed, Space
  <2>2. \A x \in 1..(r - 1) : x \in 1..s.count /\ x # r
    BY <1>1, <1>2
  <2>3. QED
    BY <2>1, <2>2 DEF Covered, OnFree
<1>3. CASE s.count # r
  <2>1. /\ Freed(s, r).count = s.count
        /\ Freed(s, r).free = Append(s.free, r)
    BY <1>3 DEF Freed, Space
  <2>2. /\ \A i \in 1..Len(s.free) : i \in 1..Len(Append(s.free, r))
             /\ Append(s.free, r)[i] = s.free[i]
        /\ Len(s.free) + 1 \in 1..Len(Append(s.free, r))
        /\ Append(s.free, r)[Len(s.free) + 1] = r
    BY <1>1
  <2>3. /\ \A x : OnFree(s, x) => OnFree(Freed(s, r), x)
        /\ OnFree(Freed(s, r), r)
    BY <2>1, <2>2 DEF OnFree
  <2>4. QED
    BY <2>1, <2>3 DEF Covered
<1>4. QED
  BY <1>2, <1>3

(* A row below the count that nobody else has gets data.                   *)
LEMMA GoodPut ==
  ASSUME NEW s \in Space, NEW d \in [Row -> Value], NEW K \in SUBSET Row,
         Good(s, d, K), NEW r \in Row, r <= s.count, ~OnFree(s, r),
         r \notin K, NEW k \in Value
  PROVE  /\ Good(s, [d EXCEPT ![r] = k], K)
         /\ k # NoKey /\ Covered(s, d, K \union {r})
              => Covered(s, [d EXCEPT ![r] = k], K)
<1> DEFINE e == [d EXCEPT ![r] = k]
<1>1. \A x \in Row : e[x] = IF x = r THEN k ELSE d[x]
  OBVIOUS
<1> HIDE DEF e
<1>2. Good(s, e, K)
  BY <1>1 DEF Good
<1>3. k # NoKey /\ Covered(s, d, K \union {r}) => Covered(s, e, K)
  BY <1>1, SpaceFacts DEF Covered
<1>4. QED
  BY <1>2, <1>3 DEF e

(* A row with data loses it, and is kept.                                  *)
LEMMA GoodDrop ==
  ASSUME NEW s \in Space, NEW d \in [Row -> Value], NEW K \in SUBSET Row,
         Good(s, d, K), NEW r \in Row, d[r] # NoKey
  PROVE  /\ Good(s, [d EXCEPT ![r] = NoKey], K \union {r})
         /\ Good(s, [d EXCEPT ![r] = NoKey], K)
         /\ r <= s.count /\ ~OnFree(s, r) /\ r \notin K
         /\ Covered(s, d, K)
              => Covered(s, [d EXCEPT ![r] = NoKey], K \union {r})
<1> DEFINE e == [d EXCEPT ![r] = NoKey]
<1>1. \A x \in Row : e[x] = IF x = r THEN NoKey ELSE d[x]
  OBVIOUS
<1> HIDE DEF e
<1>2. r <= s.count /\ ~OnFree(s, r) /\ r \notin K
  BY DEF Good
<1>3. Good(s, e, K \union {r}) /\ Good(s, e, K)
  BY <1>1, <1>2 DEF Good
<1>4. Covered(s, d, K) => Covered(s, e, K \union {r})
  BY <1>1, SpaceFacts DEF Covered
<1>5. QED
  BY <1>2, <1>3, <1>4 DEF e

(* What is kept no longer makes nothing worse.                             *)
LEMMA GoodLess ==
  ASSUME NEW s, NEW d, NEW K, NEW L \in SUBSET K, Good(s, d, K)
  PROVE  Good(s, d, L)
  BY DEF Good

-----------------------------------------------------------------------------
(* Walks.                                                                  *)

(* The process numbers the log is made for: of two bytes, no two the same. *)
PidsDistinct ==
  /\ \A p \in Proc : Pid[p] < Word
  /\ \A p, q \in Proc : Pid[p] = Pid[q] => p = q

(* A process number of two bytes is logged as it is.                       *)
LEMMA ShortIs ==
  ASSUME PidsDistinct, NEW p \in Proc
  PROVE  Short(Pid[p]) = Pid[p]
<1> DEFINE w == Word
           x == Pid[p]
<1>1. w \in Nat /\ x \in Nat /\ x < w
  BY TransAssumption DEF PidsDistinct, Word
<1> HIDE DEF w, x
<1>2. x % w = x
  BY <1>1
<1>3. QED
  BY <1>2 DEF Short, w, x

(* Then the records a walk takes for its own are those of its process.     *)
LEMMA OursIs ==
  ASSUME TypeInv, PidPart, PidsDistinct, NEW p \in Proc, NEW i \in 1..Len(log)
  PROVE  Ours(p, i) <=> log[i].proc = p
<1>1. log[i] \in Rec
  BY ElementOfSeq DEF TypeInv, LogPart
<1>2. log[i].proc \in Proc
  BY <1>1 DEF Rec
<1>3. log[i].pid = Pid[log[i].proc]
  BY <1>2, ShortIs DEF PidPart
<1>4. QED
  BY <1>2, <1>3 DEF Ours, PidsDistinct

(* Then, within a transaction, Prev is the last record of the process, not *)
(* before the begin record.                                                *)
LEMMA PrevIs ==
  ASSUME TypeInv, PidPart, PidsDistinct, NEW p \in Proc, Start(p) # 0,
         NEW i \in Nat, Start(p) < i, i <= Len(log) + 1
  PROVE  /\ Prev(p, i) \in 1..(i - 1) /\ log[Prev(p, i)].proc = p
         /\ Start(p) <= Prev(p, i)
         /\ \A j \in 1..(i - 1) : log[j].proc = p => j <= Prev(p, i)
<1> DEFINE v == Prev(p, i)
           s == Start(p)
<1>1. /\ v \in Nat /\ (v = 0 \/ (v \in 1..(i - 1) /\ Ours(p, v)))
      /\ \A j \in 1..(i - 1) : Ours(p, j) => j <= v
  BY PrevFacts
<1>2. s \in 0..Len(log) /\ Len(log) \in Nat /\ log[s].proc = p
  BY StartIs, StartFacts DEF TypeInv, LogPart
<1>3. \A j \in 1..(i - 1) : j \in 1..Len(log)
  BY <1>2
<1>4. \A j \in 1..(i - 1) : Ours(p, j) <=> log[j].proc = p
  BY <1>3, OursIs
<1> HIDE DEF v, s
<1>5. s \in 1..(i - 1)
  BY <1>2 DEF s
<1>6. s <= v
  BY <1>1, <1>2, <1>4, <1>5
<1>7. v \in 1..(i - 1)
  BY <1>1, <1>5, <1>6
<1>8. QED
  BY <1>1, <1>4, <1>6, <1>7 DEF v, s

(* The changes to go and what they are, as before.                         *)
SameView(p) ==
  /\ ToGo(p)' = ToGo(p) /\ Deleted(p)' = Deleted(p)
  /\ \A i \in ToGo(p) : log'[i] = log[i]
  /\ Own(p)'

(* A rollback or a commit begins with all the changes of the transaction.  *)
LEMMA WalkBegins ==
  ASSUME TypeInv, PidPart, PidsDistinct, NEW p \in Proc, Own(p),
         ivbintrans[p] = "needflush",
         ivbintrans'[p] \in {"commit", "rollback"}, RestOf(p),
         at'[p] = Prev(p, Len(log) + 1)
  PROVE  SameView(p) /\ ToGo(p) = Changes(p)
<1>1. /\ Start(p)' = Start(p) /\ Changes(p)' = Changes(p)
      /\ Len(log) \in Nat /\ Len(log') \in Nat /\ Len(log) <= Len(log')
      /\ \A i \in 1..Len(log) : log'[i] = log[i]
  BY RestLog
<1>2. /\ Active(p) /\ Top(p) = Len(log) /\ Active(p)' /\ Top(p)' = at'[p]
  BY DEF Active, Top
<1> DEFINE v == at'[p]
           n == Len(log)
           s == Start(p)
<1>3. s # 0 /\ s <= n /\ s \in 0..n /\ n \in Nat
  BY <1>1, <1>2, StartIs, StartFacts DEF Own, TypeInv, LogPart
<1>4. /\ v \in 1..n /\ log[v].proc = p /\ s <= v
      /\ \A j \in 1..n : log[j].proc = p => j <= v
  <2>1. n + 1 \in Nat /\ s < n + 1 /\ n + 1 <= n + 1 /\ (n + 1) - 1 = n
    BY <1>3
  <2> DEFINE m == n + 1
  <2>2. m \in Nat /\ s < m /\ m <= n + 1
    BY <2>1
  <2> HIDE DEF m
  <2>3. /\ Prev(p, m) \in 1..(m - 1) /\ log[Prev(p, m)].proc = p
        /\ s <= Prev(p, m)
        /\ \A j \in 1..(m - 1) : log[j].proc = p => j <= Prev(p, m)
    BY <1>3, <2>2, PrevIs
  <2>4. m - 1 = n /\ Prev(p, m) = v
    BY <2>1 DEF m
  <2>5. QED
    BY <2>3, <2>4
<1>5. \A i \in Changes(p) : i \in 1..n /\ log[i].proc = p
  BY ChangesFacts
<1>6. \A i \in Changes(p) : i <= n /\ i <= v
  BY <1>3, <1>4, <1>5
<1>7. ToGo(p) = Changes(p) /\ ToGo(p)' = Changes(p)
  <2>1. ToGo(p)' = {i \in Changes(p)' : i <= v}
    BY <1>2 DEF ToGo
  <2>2. ToGo(p) = {i \in Changes(p) : i <= n}
    BY <1>2 DEF ToGo
  <2>3. QED
    BY <1>1, <1>6, <2>1, <2>2
<1>8. \A i \in ToGo(p) : log'[i] = log[i]
  BY <1>1, <1>5, <1>7
<1>9. Deleted(p)' = Deleted(p)
  <2>1. \A j \in Changes(p) : log'[j] = log[j]
    BY <1>7, <1>8
  <2>2. QED
    BY <1>7, <2>1, SameRows DEF Deleted
<1>10. Own(p)'
  <2>1. \A i \in 1..n : i > s /\ log[i].proc = p
                          => log[i].op \in {"IN", "DE", "UP"}
    BY <1>2, <1>3 DEF Own
  <2>2. \A i \in 1..Len(log') : i <= v => i \in 1..n
    BY <1>3, <1>4
  <2>3. \A i \in 1..Len(log') : i > s /\ i <= v /\ log'[i].proc = p
                          => log'[i].op \in {"IN", "DE", "UP"}
    BY <1>1, <2>1, <2>2
  <2>4. v # 0 /\ log'[v].proc = p
    BY <1>1, <1>4
  <2>5. QED
    BY <1>1, <1>2, <1>3, <1>4, <2>3, <2>4 DEF Own
<1>11. QED
  BY <1>7, <1>8, <1>9, <1>10 DEF SameView

(* A step of a walk is done with the last change to go.                    *)
StepView(p) ==
  /\ at[p] \in ToGo(p) /\ \A i \in ToGo(p) : i <= at[p]
  /\ ToGo(p)' = ToGo(p) \ {at[p]}
  /\ Own(p)'

(* A step of a walk is done with the last change to go, and comes to the one*)
(* before.                                                                 *)
LEMMA WalkSteps ==
  ASSUME TypeInv, PidPart, PidsDistinct, NEW p \in Proc, Own(p),
         NEW how \in {"commit", "rollback"}, Walking(p, how), Step(p),
         UNCHANGED <<log, ivbintrans>>
  PROVE  StepView(p)
<1> DEFINE a == at[p]
           v == Prev(p, a)
           s == Start(p)
           n == Len(log)
<1>1. /\ ivbintrans[p] = how /\ a # 0 /\ log[a].op # "BW"
      /\ at' = [at EXCEPT ![p] = v] /\ log' = log
      /\ ivbintrans' = ivbintrans
  BY DEF Walking, Step
<1>2. at'[p] = v /\ a \in 1..n /\ n \in Nat
  BY <1>1, WalkRow DEF TypeInv, LogPart
<1>3. /\ Active(p) /\ Top(p) = a /\ Active(p)' /\ Top(p)' = v
  BY <1>1, <1>2 DEF Active, Top
<1>4. s \in 0..n /\ s # 0 /\ s <= a /\ log[s].op = "BW" /\ log[a].proc = p
      /\ \A i \in 1..n : i > s /\ i <= a /\ log[i].proc = p
                            => log[i].op \in {"IN", "DE", "UP"}
  <2>1. /\ s # 0 /\ s <= a /\ log[a].proc = p
        /\ \A i \in 1..n : i > s /\ i <= a /\ log[i].proc = p
                              => log[i].op \in {"IN", "DE", "UP"}
    BY <1>1, <1>3 DEF Own
  <2>2. s \in 0..n /\ (s # 0 => log[s].op = "BW")
    BY StartIs, StartFacts DEF TypeInv, LogPart
  <2>3. QED
    BY <2>1, <2>2
<1>5. a \in Nat /\ s < a /\ a <= n + 1
  <2>1. s # a
    BY <1>1, <1>4
  <2> HIDE DEF s, a, n
  <2>2. QED
    BY <1>2, <1>4, <2>1
<1>6. /\ v \in 1..(a - 1) /\ log[v].proc = p /\ s <= v
      /\ \A j \in 1..(a - 1) : log[j].proc = p => j <= v
  <2> HIDE DEF a
  <2>1. QED
    BY <1>4, <1>5, PrevIs
<1>7. Start(p)' = s /\ Changes(p)' = Changes(p)
  BY <1>1 DEF Start, Changes
<1>8. /\ ToGo(p) = {i \in Changes(p) : i <= a}
      /\ ToGo(p)' = {i \in Changes(p) : i <= v}
  BY <1>3, <1>7 DEF ToGo
<1>9. \A i \in Changes(p) : i \in 1..n /\ log[i].proc = p
  BY ChangesFacts
<1>10. a \in Changes(p)
  <2>1. a > 0 /\ a \in s..n /\ log[a].op \in {"IN", "DE", "UP"}
    <3> HIDE DEF a, s, n
    <3>1. QED
      BY <1>2, <1>4, <1>5
  <2>2. QED
    BY <1>4, <2>1 DEF Changes
<1> HIDE DEF a, v, s, n
<1>11. ASSUME NEW i \in Changes(p)
       PROVE  /\ i \in Nat
              /\ i <= v => i <= a /\ i # a
              /\ i <= a /\ i # a => i <= v
  <2>1. i \in Nat /\ i >= 1 /\ v \in Nat /\ v < a
    BY <1>2, <1>5, <1>6, <1>9
  <2>2. i <= a /\ i # a => i \in 1..(a - 1)
    BY <1>5, <2>1
  <2>3. QED
    BY <1>5, <1>6, <1>9, <2>1, <2>2
<1>12. ToGo(p)' = ToGo(p) \ {a} /\ a \in ToGo(p) /\ \A i \in ToGo(p) : i <= a
  <2> DEFINE C == Changes(p)
             T == ToGo(p)
             U == ToGo(p)'
  <2>1. /\ T = {i \in C : i <= a} /\ U = {i \in C : i <= v} /\ a \in C
        /\ a <= a
        /\ \A i \in C : (i <= v <=> i <= a /\ i # a)
    BY <1>5, <1>8, <1>10, <1>11
  <2> HIDE DEF C, T, U
  <2>2. U = T \ {a} /\ a \in T /\ \A i \in T : i <= a
    BY <2>1
  <2>3. QED
    BY <2>2 DEF T, U
<1>13. Own(p)'
  <2>1. \A i \in 1..n : i <= v => i <= a
    BY <1>2, <1>5, <1>6
  <2>2. v # 0 /\ log'[v].proc = p
    BY <1>1, <1>5, <1>6
  <2>3. \A i \in 1..Len(log') : i > s /\ i <= v /\ log'[i].proc = p
                          => log'[i].op \in {"IN", "DE", "UP"}
    BY <1>1, <1>4, <2>1 DEF n
  <2>4. QED
    BY <1>2, <1>3, <1>4, <1>6, <1>7, <2>2, <2>3 DEF Own
<1>14. QED
  BY <1>12, <1>13 DEF StepView, a

(* Where a walk ends of itself nothing is left to go.                      *)
LEMMA WalkEnds ==
  ASSUME TypeInv, NEW p \in Proc, Own(p),
         NEW how \in {"commit", "rollback"}, ivbintrans[p] = how,
         ~Walking(p, how)
  PROVE  ToGo(p) = {} /\ Deleted(p) = {}
<1>1. Active(p) /\ Top(p) = at[p]
  BY DEF Active, Top
<1>2. /\ at[p] # 0 /\ log[at[p]].proc = p /\ Start(p) <= at[p]
      /\ \A i \in 1..Len(log) : i > Start(p) /\ i <= at[p] /\ log[i].proc = p
           => log[i].op \in {"IN", "DE", "UP"}
  BY <1>1 DEF Own
<1>3. log[at[p]].op = "BW"
  BY <1>2 DEF Walking
<1> DEFINE a == at[p]
           s == Start(p)
<1>4. a \in 1..Len(log) /\ Len(log) \in Nat /\ s \in Nat
  BY <1>2, WalkRow, StartIs, StartFacts DEF TypeInv, LogPart
<1> HIDE DEF a, s
<1>5. ~(a > s)
  BY <1>2, <1>3, <1>4 DEF a, s
<1>6. \A i \in Changes(p) : i \in Nat /\ i > s
  BY ChangesFacts DEF s
<1>7. ASSUME NEW i \in Changes(p) PROVE ~(i <= a)
  BY <1>4, <1>5, <1>6
<1>8. ToGo(p) = {}
  BY <1>1, <1>7 DEF ToGo, a
<1>9. QED
  BY <1>8 DEF Deleted

-----------------------------------------------------------------------------
(* Rows in use, rows on the free list and rows kept for a transaction.     *)

(* The rows deleted and not given back, by any transaction.                *)
AllDeleted == UNION {Deleted(p) : p \in Proc}

(* A delete is the last change of its row: the row is not taken again before*)
(* the transaction is over.                                                *)
LastPart(p) ==
  \A i, j \in ToGo(p) :
    log[i].op = "DE" /\ log[j].row = log[i].row => j <= i

(* The log keeps the keys of rows that are rewritten or deleted.           *)
OldKeys ==
  \A i \in 1..Len(log) : log[i].op \in {"UP", "DE"} => log[i].old # NoKey

(* No two transactions have deleted the same row.                          *)
ApartPart ==
  \A p, q \in Proc : p # q => Deleted(p) \cap Deleted(q) = {}

(* The inductive invariant of the free list, whether a rollback fails or   *)
(* not.                                                                    *)
SafeInv ==
  /\ PidPart /\ ApartPart
  /\ \A p \in Proc : Own(p) /\ LastPart(p)
  /\ Good(space, data, AllDeleted)

CoverInv == Covered(space, data, AllDeleted)

(* What an action of p does to all this.                                   *)
Accounted(p) ==
  /\ Own(p)' /\ LastPart(p)'
  /\ \A r \in Deleted(p)' : r \in Deleted(p) \/ data[r] # NoKey
  /\ Good(space', data', AllDeleted')
  /\ CoverInv /\ OldKeys /\ ~UndoFails(p) => CoverInv'

(* What a transaction deleted is among its rows.                           *)
LEMMA DeletedFacts ==
  ASSUME TypeInv
  PROVE  /\ AllDeleted \in SUBSET Row
         /\ \A p \in Proc : Deleted(p) \subseteq Held(p)
<1>1. ASSUME NEW p \in Proc
      PROVE  Deleted(p) \subseteq Held(p) /\ Deleted(p) \subseteq Row
  <2>1. ToGo(p) \subseteq Changes(p) /\ (ToGo(p) # {} => Active(p))
    BY DEF ToGo
  <2>2. \A i \in ToGo(p) : log[i].row \in Row
    BY <2>1, ChangesFacts
  <2>3. QED
    BY <2>1, <2>2 DEF Deleted, Held, Touched
<1>2. QED
  BY <1>1 DEF AllDeleted

(* How what is deleted altogether changes with what one process has deleted.*)
LEMMA AllDeletedStep ==
  ASSUME TypeInv, ApartPart, NEW p \in Proc, ActionOf(p)
  PROVE  /\ \A X : Deleted(p)' = Deleted(p) \union X
                     => AllDeleted' = AllDeleted \union X
         /\ Deleted(p)' = Deleted(p) => AllDeleted' = AllDeleted
         /\ \A r \in Deleted(p) : Deleted(p)' = Deleted(p) \ {r}
                     => AllDeleted' = AllDeleted \ {r}
         /\ Deleted(p)' = {} => AllDeleted' \subseteq AllDeleted
<1> DEFINE O == UNION {Deleted(q) : q \in Proc \ {p}}
           D == Deleted(p)
           E == Deleted(p)'
<1>1. \A q \in Proc \ {p} : Deleted(q)' = Deleted(q)
  BY OthersKept DEF KeptFor
<1>2. AllDeleted = O \union D
  BY DEF AllDeleted
<1>3. AllDeleted' = O \union E
  BY <1>1 DEF AllDeleted
<1>4. D \cap O = {}
  BY DEF ApartPart
<1> HIDE DEF O, D, E
<1>5. /\ \A X : E = D \union X => AllDeleted' = AllDeleted \union X
      /\ E = D => AllDeleted' = AllDeleted
      /\ \A r \in D : E = D \ {r} => AllDeleted' = AllDeleted \ {r}
      /\ E = {} => AllDeleted' \subseteq AllDeleted
  BY <1>2, <1>3, <1>4
<1>6. QED
  BY <1>5 DEF D, E

(* A change of a row that the transaction has not deleted keeps LastPart.  *)
LEMMA ChangeLast ==
  ASSUME NEW p \in Proc, NEW op, NEW r, NEW old, ChangeView(p, op, r, old),
         LastPart(p), r \notin Deleted(p)
  PROVE  LastPart(p)'
<1> DEFINE T == ToGo(p)
           l == log
           m == log'
           n == Len(log')
<1>1. /\ ToGo(p)' = T \union {n} /\ n \in Nat
      /\ \A i \in T : i \in Nat /\ i < n /\ m[i] = l[i]
      /\ m[n].row = r
  BY DEF ChangeView
<1>2. \A i \in T : l[i].op = "DE" => l[i].row # r
  BY DEF Deleted
<1>3. \A i, j \in T : l[i].op = "DE" /\ l[j].row = l[i].row => j <= i
  BY DEF LastPart
<1> HIDE DEF T, l, m, n
<1>4. ASSUME NEW i \in T \union {n}, NEW j \in T \union {n},
             m[i].op = "DE", m[j].row = m[i].row
      PROVE  j <= i
  <2>1. CASE i = n
    BY <1>1, <2>1
  <2>2. CASE i \in T /\ j = n
    BY <1>1, <1>2, <1>4, <2>2
  <2>3. CASE i \in T /\ j \in T
    BY <1>1, <1>3, <1>4, <2>3
  <2>4. QED
    BY <2>1, <2>2, <2>3
<1>5. QED
  BY <1>1, <1>4 DEF LastPart, m

(* A step of a walk keeps LastPart; past a delete the row is not kept any  *)
(* more.                                                                   *)
LEMMA StepLast ==
  ASSUME NEW p \in Proc, StepView(p), LastPart(p), log' = log
  PROVE  /\ LastPart(p)'
         /\ log[at[p]].op = "DE" =>
              /\ log[at[p]].row \in Deleted(p)
              /\ Deleted(p)' = Deleted(p) \ {log[at[p]].row}
         /\ log[at[p]].op # "DE" => Deleted(p)' = Deleted(p)
<1> DEFINE T == ToGo(p)
           l == log
           a == at[p]
<1>1. /\ a \in T /\ ToGo(p)' = T \ {a} /\ \A i \in T : i <= a
  BY DEF StepView
<1>2. \A i, j \in T : l[i].op = "DE" /\ l[j].row = l[i].row => j <= i
  BY DEF LastPart
<1>3. /\ Deleted(p) = {l[i].row : i \in {j \in T : l[j].op = "DE"}}
      /\ Deleted(p)' = {l[i].row : i \in {j \in T \ {a} : l[j].op = "DE"}}
  BY <1>1 DEF Deleted
<1>4. LastPart(p)'
  BY <1>1, <1>2 DEF LastPart
<1>5. T \subseteq Nat
  BY DEF ToGo, Changes, Start
<1> HIDE DEF T, l, a
<1>6. ASSUME l[a].op = "DE"
      PROVE  l[a].row \in Deleted(p) /\ Deleted(p)' = Deleted(p) \ {l[a].row}
  <2>1. \A i \in T : l[i].op = "DE" /\ l[i].row = l[a].row => i = a
    BY <1>1, <1>2, <1>5
  <2>2. QED
    BY <1>1, <1>3, <1>6, <2>1
<1>7. ASSUME l[a].op # "DE" PROVE Deleted(p)' = Deleted(p)
  BY <1>1, <1>3, <1>7
<1>8. QED
  BY <1>4, <1>6, <1>7 DEF l, a

-----------------------------------------------------------------------------
(* A call that logs a change accounts for the row: a written row comes from*)
(* the free list or the end, a deleted one is kept, not freed.             *)
LEMMA AccountChange ==
  ASSUME TypeInv, SafeInv, Istrans, NEW p \in Proc,
         iswrite(p) \/ isdelete(p) \/ isrewrite(p), ~RestOf(p)
  PROVE  Accounted(p)
<1>0. /\ space \in Space /\ data \in [Row -> Value] /\ ActionOf(p)
      /\ AllDeleted \in SUBSET Row /\ ApartPart /\ Own(p) /\ LastPart(p)
      /\ Good(space, data, AllDeleted) /\ NoKey \in Value
      /\ \A x \in Row : x \notin AllDeleted => x \notin Deleted(p)
      /\ \A k \in KeyOf[p] : k \in Value /\ k # NoKey
  BY DeletedFacts, TransAssumption
  DEF TypeInv, SafeInv, ActionOf, AllDeleted, Value
<1> DEFINE K == AllDeleted
<1>1. CASE iswrite(p)
  <2> DEFINE r == NextRow(space)
             t == Taken(space)
  <2>1. PICK k \in KeyOf[p] : /\ data' = [data EXCEPT ![r] = k]
                              /\ space' = t /\ CanChange(p)
                              /\ Logged(p, "IN", r, NoKey)
    BY <1>1 DEF iswrite, RestOf
  <2>2. r \in Row /\ t \in Space
    BY <1>0, <1>1, TakenType DEF iswrite
  <2>3. /\ Good(t, data, K) /\ r <= t.count /\ ~OnFree(t, r)
        /\ data[r] = NoKey /\ r \notin K
        /\ CoverInv => Covered(t, data, K \union {r})
    BY <1>0, <2>2, GoodTaken DEF CoverInv
  <2>4. ChangeView(p, "IN", r, NoKey) /\ Own(p)'
    BY <1>0, <2>1, <2>2, ChangeFacts
  <2> HIDE DEF r, t
  <2>5. LastPart(p)'
    BY <1>0, <2>2, <2>3, <2>4, ChangeLast
  <2>6. AllDeleted' = K
    <3>1. Deleted(p)' = Deleted(p)
      BY <2>4 DEF ChangeView
    <3>2. QED
      BY <1>0, <3>1, AllDeletedStep
  <2>7. /\ Good(space', data', K)
        /\ CoverInv => Covered(space', data', K)
    <3> HIDE DEF K
    <3>1. /\ Good(t, [data EXCEPT ![r] = k], K)
          /\ k # NoKey /\ Covered(t, data, K \union {r})
              => Covered(t, [data EXCEPT ![r] = k], K)
      BY <1>0, <2>2, <2>3, GoodPut DEF K
    <3>2. QED
      BY <1>0, <2>1, <2>3, <3>1
  <2>8. Deleted(p)' = Deleted(p)
    BY <2>4 DEF ChangeView
  <2>9. QED
    BY <2>4, <2>5, <2>6, <2>7, <2>8 DEF Accounted, CoverInv
<1>2. CASE isdelete(p)
  <2>1. PICK r \in Row : /\ data' = [data EXCEPT ![r] = NoKey]
                         /\ space' = space /\ CanChange(p)
                         /\ data[r] \in KeyOf[p]
                         /\ Logged(p, "DE", r, data[r])
    BY <1>2 DEF isdelete
  <2>2. data[r] # NoKey /\ data[r] \in Value
    BY <1>0, <2>1
  <2>3. /\ Good(space, data', K \union {r}) /\ r \notin K
        /\ CoverInv => Covered(space, data', K \union {r})
    BY <1>0, <2>1, <2>2, GoodDrop DEF CoverInv
  <2>4. ChangeView(p, "DE", r, data[r]) /\ Own(p)'
    BY <1>0, <2>1, <2>2, ChangeFacts
  <2>5. LastPart(p)'
    BY <1>0, <2>3, <2>4, ChangeLast
  <2>6. AllDeleted' = K \union {r}
    <3>1. Deleted(p)' = Deleted(p) \union {r}
      BY <2>4 DEF ChangeView
    <3>2. QED
      BY <1>0, <3>1, AllDeletedStep
  <2>7. Deleted(p)' = Deleted(p) \union {r}
    BY <2>4 DEF ChangeView
  <2>8. QED
    BY <2>1, <2>2, <2>3, <2>4, <2>5, <2>6, <2>7 DEF Accounted, CoverInv
<1>3. CASE isrewrite(p)
  <2>1. PICK r \in Row, k \in KeyOf[p] :
               /\ data' = [data EXCEPT ![r] = k]
               /\ space' = space /\ CanChange(p)
               /\ data[r] \in KeyOf[p]
               /\ Logged(p, "UP", r, data[r])
    BY <1>3 DEF isrewrite
  <2>2. data[r] # NoKey /\ data[r] \in Value /\ k # NoKey /\ k \in Value
    BY <1>0, <2>1
  <2>3. r \notin K /\ r <= space.count /\ ~OnFree(space, r)
    BY <1>0, <2>1, <2>2, GoodDrop
  <2>4. ChangeView(p, "UP", r, data[r]) /\ Own(p)'
    BY <1>0, <2>1, <2>2, ChangeFacts
  <2>5. LastPart(p)'
    BY <1>0, <2>3, <2>4, ChangeLast
  <2>6. AllDeleted' = K
    <3>1. Deleted(p)' = Deleted(p)
      BY <2>4 DEF ChangeView
    <3>2. QED
      BY <1>0, <3>1, AllDeletedStep
  <2>7. /\ Good(space, data', K)
        /\ CoverInv => Covered(space, data', K)
    <3> HIDE DEF K
    <3>1. /\ Good(space, [data EXCEPT ![r] = k], K)
          /\ k # NoKey /\ Covered(space, data, K \union {r})
              => Covered(space, [data EXCEPT ![r] = k], K)
      BY <1>0, <2>1, <2>2, <2>3, GoodPut DEF K
    <3>2. CoverInv => Covered(space, data, K \union {r})
      BY DEF CoverInv, Covered, K
    <3>3. QED
      BY <2>1, <2>2, <3>1, <3>2
  <2>8. Deleted(p)' = Deleted(p)
    BY <2>4 DEF ChangeView
  <2>9. QED
    BY <2>1, <2>4, <2>5, <2>6, <2>7, <2>8 DEF Accounted, CoverInv
<1>4. QED
  BY <1>1, <1>2, <1>3

(* Calls that leave a walk and its changes alone account for the rows: a   *)
(* write that fails gives its row back.                                    *)
LEMMA AccountSame ==
  ASSUME TypeInv, SafeInv, PidsDistinct, NEW p \in Proc,
         \/ iswrite(p) /\ UNCHANGED <<data, log, ivbintrans>>
         \/ isbegin(p) \/ iscommit(p) \/ isrollback(p) \/ OnHandle(p)
  PROVE  Accounted(p)
<1>0. /\ space \in Space /\ data \in [Row -> Value] /\ ActionOf(p)
      /\ AllDeleted \in SUBSET Row /\ ApartPart /\ Own(p) /\ LastPart(p)
      /\ Good(space, data, AllDeleted) /\ PidPart /\ RestOf(p)
  BY DeletedFacts DEF TypeInv, SafeInv, ActionOf, RestOf
<1>1. /\ Good(space', data', AllDeleted)
      /\ CoverInv => Covered(space', data', AllDeleted)
  <2>1. CASE iswrite(p) /\ UNCHANGED <<data, log, ivbintrans>>
    <3> DEFINE r == NextRow(space)
               t == Taken(space)
               K == AllDeleted
    <3>1. \/ space' = Freed(t, r)
          \/ space' = t /\ Logged(p, "IN", r, NoKey)
      BY <2>1 DEF iswrite
    <3>2. r \in Row /\ t \in Space
      BY <1>0, <2>1, TakenType DEF iswrite
    <3>3. /\ Good(t, data, K) /\ r <= t.count /\ ~OnFree(t, r)
          /\ data[r] = NoKey /\ r \notin K
          /\ CoverInv => Covered(t, data, K \union {r})
      BY <1>0, <3>2, GoodTaken DEF CoverInv
    <3>4. space' = Freed(t, r)
      <4>1. CASE Logged(p, "IN", r, NoKey)
        <5>1. Len(log) \in Nat /\ log \in Seq(Rec) /\ NoKey \in Value
          BY DEF TypeInv, LogPart, Value
        <5>2. LoggedAs(p, Record(p, "IN", r, NoKey))
          BY <3>2, <4>1, <5>1, LoggedAdds
        <5>3. log' = log
          BY <2>1
        <5>4. FALSE
          <6>1. ASSUME NEW l \in Seq(Rec), NEW b, NEW e,
                       Added(log, l, b), Added(l, log, e)
                PROVE  FALSE
            BY <5>1, <6>1 DEF Added
          <6>2. ASSUME NEW e, Added(log, log, e) PROVE FALSE
            BY <5>1, <6>2 DEF Added
          <6>3. QED
            BY <5>2, <5>3, <6>1, <6>2 DEF LoggedAs
        <5>5. QED
          BY <5>4
      <4>2. QED
        BY <3>1, <4>1
    <3> HIDE DEF K, r, t
    <3>5. /\ Good(Freed(t, r), data, K \ {r})
          /\ CoverInv => Covered(Freed(t, r), data, K)
      <4>1. K \in SUBSET Row
        BY <1>0 DEF K
      <4>2. QED
        BY <1>0, <3>2, <3>3, <4>1, GoodFreed, FreedCovers
    <3>6. K \ {r} = K
      BY <3>3
    <3>7. QED
      BY <2>1, <3>4, <3>5, <3>6 DEF K
  <2>2. CASE isbegin(p) \/ iscommit(p) \/ isrollback(p) \/ OnHandle(p)
    BY <1>0, <2>2, HandleKeeps DEF isbegin, iscommit, isrollback, CoverInv
  <2>3. QED
    BY <2>1, <2>2
<1>2. \/ SameView(p)
      \/ ToGo(p) = {} /\ ToGo(p)' = {} /\ Own(p)'
  <2>1. CASE \/ iswrite(p) /\ UNCHANGED <<data, log, ivbintrans>>
             \/ OnHandle(p)
    <3>1. log' = log /\ ivbintrans' = ivbintrans /\ at' = at
      BY <2>1, HandleKeeps DEF iswrite
    <3>2. QED
      BY <1>0, <3>1 DEF SameView, ToGo, Active, Top, Changes, Start,
                        Deleted, Own
  <2>2. CASE \/ isbegin(p) \/ (iscommit(p) /\ ivbintrans[p] = "begin")
    BY <2>2 DEF isbegin, iscommit, ToGo, Active, Own, TypeInv
  <2>3. CASE \/ isrollback(p)
             \/ (iscommit(p) /\ ivbintrans[p] # "begin")
    <3>1. /\ ivbintrans[p] = "needflush"
          /\ ivbintrans'[p] \in {"commit", "rollback"}
          /\ at'[p] = Prev(p, Len(log) + 1)
      BY <2>3 DEF isrollback, iscommit, TypeInv
    <3>2. QED
      BY <1>0, <3>1, WalkBegins
  <2>4. QED
    BY <2>1, <2>2, <2>3
<1>3. LastPart(p)' /\ Own(p)' /\ Deleted(p)' = Deleted(p)
  <2>1. CASE SameView(p)
    BY <1>0, <2>1 DEF SameView, LastPart
  <2>2. CASE ToGo(p) = {} /\ ToGo(p)' = {} /\ Own(p)'
    BY <2>2 DEF LastPart, Deleted
  <2>3. QED
    BY <1>2, <2>1, <2>2
<1>4. AllDeleted' = AllDeleted
  BY <1>0, <1>3, AllDeletedStep
<1>5. QED
  BY <1>1, <1>3, <1>4 DEF Accounted, CoverInv

(* A step of a commit frees a row its transaction kept; a step of a rollback*)
(* gives it its data back, or frees it where it cannot.                    *)
LEMMA AccountStep ==
  ASSUME TypeInv, SafeInv, PidsDistinct, NEW p \in Proc,
         CommitStep(p) \/ UndoInsert(p) \/ UndoUpdate(p) \/ UndoDelete(p)
  PROVE  Accounted(p)
<1> DEFINE a == at[p]
           r == log[a].row
           o == log[a].old
           K == AllDeleted
<1>0. /\ space \in Space /\ data \in [Row -> Value] /\ ActionOf(p)
      /\ K \in SUBSET Row /\ ApartPart /\ Own(p) /\ LastPart(p)
      /\ Good(space, data, K) /\ PidPart
  BY DeletedFacts DEF TypeInv, SafeInv, ActionOf
<1>1. /\ StepView(p) /\ log' = log /\ a # 0
      /\ log[a].op # "BW"
  <2>1. \E how \in {"commit", "rollback"} : Walking(p, how)
    BY DEF CommitStep, UndoInsert, UndoUpdate, UndoDelete,
           Undoing
  <2>2. Step(p) /\ UNCHANGED <<log, ivbintrans>>
    BY DEF CommitStep, UndoInsert, UndoUpdate, UndoDelete
  <2>3. QED
    BY <1>0, <2>1, <2>2, WalkSteps DEF Walking
<1>2. /\ a \in Changes(p) /\ r \in Row /\ o \in Value
      /\ log[a].op \in {"IN", "DE", "UP"}
      /\ OldKeys /\ log[a].op \in {"UP", "DE"} => o # NoKey
  <2>1. a \in Changes(p)
    BY <1>1 DEF StepView, ToGo
  <2>2. QED
    BY <2>1, ChangesFacts DEF OldKeys
<1>3. /\ LastPart(p)' /\ Own(p)'
      /\ log[a].op = "DE" => r \in Deleted(p) /\ Deleted(p)' = Deleted(p) \ {r}
      /\ log[a].op # "DE" => Deleted(p)' = Deleted(p)
  BY <1>0, <1>1, StepLast DEF StepView
<1>4. /\ log[a].op = "DE" => r \in K /\ AllDeleted' = K \ {r}
      /\ log[a].op # "DE" => AllDeleted' = K
  <2>1. \A x \in Deleted(p) : x \in K
    BY DEF AllDeleted
  <2>2. QED
    BY <1>0, <1>3, <2>1, AllDeletedStep
<1> SUFFICES /\ Good(space', data', AllDeleted')
             /\ CoverInv /\ OldKeys => Covered(space', data', AllDeleted')
  <2>1. \A x \in Deleted(p)' : x \in Deleted(p)
    BY <1>2, <1>3
  <2>2. QED
    BY <1>3, <2>1 DEF Accounted, CoverInv
<1> HIDE DEF a, r, o, K
<1>5. ASSUME log[a].op = "DE", space' = Freed(space, r), data' = data
      PROVE  /\ Good(space', data', AllDeleted')
             /\ CoverInv => Covered(space', data', AllDeleted')
  <2>1. r \in K /\ AllDeleted' = K \ {r}
    BY <1>4, <1>5
  <2>2. r <= space.count /\ data[r] = NoKey /\ ~OnFree(space, r)
    BY <1>0, <1>2, <2>1 DEF Good
  <2>3. Good(Freed(space, r), data, K \ {r})
    BY <1>0, <1>2, <2>2, GoodFreed
  <2>4. Covered(space, data, K) => Covered(Freed(space, r), data, K \ {r})
    <3>1. (K \ {r}) \union {r} = K
      BY <2>1
    <3>2. QED
      BY <1>0, <1>2, <3>1, FreedCovers
  <2>5. QED
    BY <1>5, <2>1, <2>3, <2>4 DEF CoverInv, K
<1>6. CASE CommitStep(p)
  <2>1. /\ data' = data
        /\ log[a].op = "DE" => space' = Freed(space, r)
        /\ log[a].op # "DE" => space' = space
    BY <1>6 DEF CommitStep, a, r
  <2>2. CASE log[a].op = "DE"
    BY <1>5, <2>1, <2>2
  <2>3. CASE log[a].op # "DE"
    BY <1>0, <1>4, <2>1, <2>3 DEF CoverInv, K
  <2>4. QED
    BY <2>2, <2>3
<1>7. CASE UndoInsert(p)
  <2>1. /\ data' = [data EXCEPT ![r] = NoKey] /\ space' = Freed(space, r)
        /\ data[r] # NoKey /\ log[a].op = "IN"
    BY <1>7 DEF UndoInsert, a, r
  <2>2. AllDeleted' = K
    BY <1>4, <2>1
  <2>3. /\ Good(space, data', K) /\ r \notin K
        /\ r <= space.count /\ ~OnFree(space, r)
        /\ Covered(space, data, K) => Covered(space, data', K \union {r})
    BY <1>0, <1>2, <2>1, GoodDrop
  <2>4. data' \in [Row -> Value] /\ data'[r] = NoKey
    BY <1>0, <1>2, <2>1 DEF Value
  <2>5. Good(Freed(space, r), data', K \ {r})
    BY <1>0, <1>2, <2>3, <2>4, GoodFreed
  <2>6. Covered(space, data, K) => Covered(Freed(space, r), data', K)
    BY <1>0, <1>2, <2>3, FreedCovers
  <2>7. K \ {r} = K
    BY <2>3
  <2>8. QED
    BY <2>1, <2>2, <2>5, <2>6, <2>7 DEF CoverInv, K
<1>8. CASE UndoUpdate(p)
  <2>1. /\ data' = [data EXCEPT ![r] = o] /\ space' = space
        /\ data[r] # NoKey /\ log[a].op = "UP"
    BY <1>8 DEF UndoUpdate, a, r, o
  <2>2. AllDeleted' = K
    BY <1>4, <2>1
  <2>3. r \notin K /\ r <= space.count /\ ~OnFree(space, r)
    BY <1>0, <1>2, <2>1, GoodDrop
  <2>4. /\ Good(space, data', K)
        /\ o # NoKey /\ Covered(space, data, K \union {r})
             => Covered(space, data', K)
    BY <1>0, <1>2, <2>1, <2>3, GoodPut
  <2>5. Covered(space, data, K) => Covered(space, data, K \union {r})
    BY DEF Covered
  <2>6. QED
    BY <1>2, <2>1, <2>2, <2>4, <2>5 DEF CoverInv, K
<1>9. CASE UndoDelete(p)
  <2>1. /\ log[a].op = "DE"
        /\ \/ data' = data /\ space' = Freed(space, r)
           \/ data' = [data EXCEPT ![r] = o] /\ space' = space
    BY <1>9 DEF UndoDelete, a, r, o
  <2>2. CASE data' = data /\ space' = Freed(space, r)
    BY <1>5, <2>1, <2>2
  <2>3. CASE data' = [data EXCEPT ![r] = o] /\ space' = space
    <3>1. r \in K /\ AllDeleted' = K \ {r}
      BY <1>4, <2>1
    <3>2. r <= space.count /\ ~OnFree(space, r)
      BY <1>0, <1>2, <3>1 DEF Good
    <3> DEFINE L == K \ {r}
    <3>3. L \in SUBSET Row /\ r \notin L /\ L \in SUBSET K
          /\ L \union {r} = K
      BY <1>0, <3>1
    <3> HIDE DEF L
    <3>4. Good(space, data, L)
      BY <1>0, <3>3, GoodLess
    <3>5. /\ Good(space, [data EXCEPT ![r] = o], L)
          /\ o # NoKey /\ Covered(space, data, L \union {r})
               => Covered(space, [data EXCEPT ![r] = o], L)
      BY <1>0, <1>2, <3>2, <3>3, <3>4, GoodPut
    <3>6. AllDeleted' = L
      BY <3>1 DEF L
    <3>7. QED
      BY <1>2, <2>1, <2>3, <3>3, <3>5, <3>6 DEF CoverInv, K
  <2>4. QED
    BY <2>1, <2>2, <2>3
<1>10. QED
  BY <1>6, <1>7, <1>8, <1>9

(* Where a walk ends nothing is left to account for; rows are lost only    *)
(* where it fails.                                                         *)
LEMMA AccountEnd ==
  ASSUME TypeInv, SafeInv, NEW p \in Proc,
         CommitEnd(p) \/ RollbackEnd(p) \/ UndoFails(p)
  PROVE  Accounted(p)
<1>0. /\ ActionOf(p) /\ ApartPart /\ Own(p)
      /\ Good(space, data, AllDeleted)
  BY DEF SafeInv, ActionOf
<1>1. /\ ivbintrans'[p] = "none" /\ data' = data /\ space' = space
  BY DEF CommitEnd, RollbackEnd, UndoFails, End, TypeInv
<1>2. ToGo(p)' = {} /\ Deleted(p)' = {} /\ Own(p)'
  BY <1>1 DEF ToGo, Deleted, Own, Active
<1>3. LastPart(p)'
  BY <1>2 DEF LastPart
<1>4. AllDeleted' \subseteq AllDeleted
  BY <1>0, <1>2, AllDeletedStep
<1>5. Good(space', data', AllDeleted')
  BY <1>0, <1>1, <1>4, GoodLess
<1>6. CoverInv /\ ~UndoFails(p) => CoverInv'
  <2> SUFFICES ASSUME CoverInv, CommitEnd(p) \/ RollbackEnd(p)
               PROVE  CoverInv'
    OBVIOUS
  <2>1. Deleted(p) = {}
    BY <1>0, WalkEnds DEF CommitEnd, RollbackEnd
  <2>2. AllDeleted' = AllDeleted
    BY <1>0, <1>2, <2>1, AllDeletedStep
  <2>3. QED
    BY <1>1, <2>2 DEF CoverInv
<1>7. QED
  BY <1>2, <1>3, <1>5, <1>6 DEF Accounted

(* The other processes' walks are not disturbed.                           *)
LEMMA OthersOwn ==
  ASSUME TypeInv, NEW p \in Proc, ActionOf(p), NEW q \in Proc, q # p
  PROVE  (Own(q) => Own(q)') /\ (LastPart(q) => LastPart(q)')
<1>1. KeptFor(q)
  BY OthersKept
<1>2. LastPart(q) => LastPart(q)'
  <2>1. \A i \in ToGo(q) : log'[i] = log[i]
    BY <1>1 DEF KeptFor, ToGo
  <2>2. QED
    BY <1>1, <2>1 DEF KeptFor, LastPart
<1>3. ASSUME Own(q), Active(q)' PROVE Own(q)'
  <2>1. /\ Grown(log, log') /\ log \in Seq(Rec) /\ Len(log) \in Nat
        /\ \A i \in 1..Len(log') : i > Len(log) => log'[i].proc = p
    BY LogOfAction DEF TypeInv, LogPart, Mine
  <2>2. Active(q) /\ Start(q)' = Start(q) /\ at'[q] = at[q]
        /\ ivbintrans'[q] = ivbintrans[q]
    BY <1>1, <1>3 DEF KeptFor, Active
  <2>3. /\ Start(q) # 0 /\ Start(q) <= Top(q) /\ Start(q) \in Nat
        /\ \A i \in 1..Len(log) :
             i > Start(q) /\ i <= Top(q) /\ log[i].proc = q
               => log[i].op \in {"IN", "DE", "UP"}
        /\ ivbintrans[q] # "needflush" => at[q] # 0 /\ log[at[q]].proc = q
    <3>1. Start(q) \in Nat
      BY StartIs, StartFacts DEF TypeInv, LogPart
    <3>2. QED
      BY <1>3, <2>2, <3>1 DEF Own
  <2>4. CASE ivbintrans[q] = "needflush"
    <3>1. Top(q) = Len(log) /\ Top(q)' = Len(log')
      BY <2>2, <2>4 DEF Top
    <3>2. Len(log) <= Len(log') /\ Len(log') \in Nat
      BY <2>1 DEF Grown
    <3>3. Start(q) <= Len(log')
      BY <2>1, <2>3, <3>1, <3>2
    <3>4. ASSUME NEW i \in 1..Len(log'), i > Start(q), log'[i].proc = q
          PROVE  log'[i].op \in {"IN", "DE", "UP"}
      <4>1. ~(i > Len(log))
        BY <2>1, <3>4
      <4>2. i \in 1..Len(log) /\ i <= Len(log)
        BY <2>1, <4>1
      <4>3. log'[i] = log[i]
        BY <2>1, <4>2 DEF Grown
      <4>4. QED
        BY <2>3, <3>1, <3>4, <4>2, <4>3
    <3>5. QED
      BY <2>2, <2>3, <2>4, <3>1, <3>3, <3>4 DEF Own
  <2>5. CASE ivbintrans[q] # "needflush"
    <3>1. Top(q) = at[q] /\ Top(q)' = at[q] /\ at[q] \in 1..Len(log)
      BY <2>2, <2>3, <2>5, WalkRow DEF Top
    <3>2. \A i \in 1..Len(log') : i <= at[q] => i \in 1..Len(log)
      BY <2>1, <3>1
    <3>3. \A i \in 1..Len(log) : log'[i] = log[i]
      BY <2>1 DEF Grown
    <3>4. QED
      BY <2>2, <2>3, <2>5, <3>1, <3>2, <3>3 DEF Own
  <2>6. QED
    BY <2>4, <2>5
<1>4. QED
  BY <1>2, <1>3 DEF Own

(* Every action keeps SafeInv, and accounts for its rows.                  *)
LEMMA SafeStep ==
  ASSUME TypeInv, SafeInv, Istrans, PidsDistinct, NEW p \in Proc, ActionOf(p)
  PROVE  SafeInv' /\ Accounted(p)
<1>1. Accounted(p)
  BY AccountChange, AccountSame, AccountStep, AccountEnd DEF ActionOf, RestOf
<1>2. ApartPart'
  <2>1. \A q \in Proc \ {p} : Deleted(q)' = Deleted(q)
    BY OthersKept DEF KeptFor
  <2>2. ASSUME NEW q \in Proc \ {p}, NEW r \in Deleted(q),
               r \in Deleted(p)'
        PROVE  FALSE
    <3>1. data[r] = NoKey
      BY DEF SafeInv, Good, AllDeleted
    <3>2. r \in Deleted(p)
      BY <1>1, <2>2, <3>1 DEF Accounted
    <3>3. QED
      BY <2>2, <3>2 DEF SafeInv, ApartPart
  <2>3. QED
    BY <2>1, <2>2 DEF SafeInv, ApartPart
<1>3. \A q \in Proc : Own(q)' /\ LastPart(q)'
  BY <1>1, OthersOwn DEF SafeInv, Accounted
<1>4. PidPart'
  <2>1. /\ Grown(log, log') /\ log \in Seq(Rec) /\ Len(log) \in Nat
        /\ \A i \in 1..Len(log') : i > Len(log) => Mine(log'[i], p)
    BY LogOfAction DEF TypeInv, LogPart
  <2>2. ASSUME NEW i \in 1..Len(log')
        PROVE  log'[i].pid = Short(Pid[log'[i].proc])
    <3>1. CASE i > Len(log)
      BY <2>1, <3>1 DEF Mine
    <3>2. CASE ~(i > Len(log))
      <4>1. i \in 1..Len(log)
        BY <2>1, <3>2
      <4>2. QED
        BY <2>1, <4>1 DEF Grown, SafeInv, PidPart
    <3>3. QED
      BY <3>1, <3>2
  <2>3. QED
    BY <2>2 DEF PidPart
<1>5. QED
  BY <1>1, <1>2, <1>3, <1>4 DEF SafeInv, Accounted

(* A stuttering step leaves the views as they are.                         *)
LEMMA Stutter ==
  ASSUME UNCHANGED vars, NEW p
  PROVE  /\ Start(p)' = Start(p) /\ Changes(p)' = Changes(p)
         /\ Active(p)' = Active(p) /\ Top(p)' = Top(p)
         /\ ToGo(p)' = ToGo(p) /\ Deleted(p)' = Deleted(p)
         /\ Held(p)' = Held(p) /\ Touched(p)' = Touched(p)
<1>1. /\ log' = log /\ ivbintrans' = ivbintrans /\ at' = at
  BY DEF vars
<1>2. /\ Start(p)' = Start(p) /\ Changes(p)' = Changes(p)
  BY <1>1 DEF Start, Changes
<1>3. /\ Active(p)' = Active(p) /\ Top(p)' = Top(p)
  BY <1>1 DEF Active, Top
<1>4. ToGo(p)' = ToGo(p)
  BY <1>2, <1>3 DEF ToGo
<1>5. Deleted(p)' = Deleted(p)
  BY <1>1, <1>4 DEF Deleted
<1>6. Touched(p)' = Touched(p)
  BY <1>1, <1>2 DEF Touched
<1>7. Held(p)' = Held(p)
  BY <1>3, <1>6 DEF Held
<1>8. QED
  BY <1>2, <1>3, <1>4, <1>5, <1>6, <1>7

(* A stuttering step keeps SafeInv.                                        *)
LEMMA SafeStutter ==
  ASSUME UNCHANGED vars, SafeInv
  PROVE  SafeInv' /\ AllDeleted' = AllDeleted
<1>1. /\ log' = log /\ ivbintrans' = ivbintrans /\ at' = at
      /\ data' = data /\ space' = space /\ rowlock' = rowlock
  BY DEF vars
<1>2. AllDeleted' = AllDeleted
  BY Stutter DEF AllDeleted
<1>3. PidPart'
  BY <1>1 DEF SafeInv, PidPart
<1>4. ApartPart'
  BY Stutter DEF SafeInv, ApartPart
<1>5. ASSUME NEW p \in Proc PROVE Own(p)' /\ LastPart(p)'
  <2>1. Own(p) /\ LastPart(p)
    BY DEF SafeInv
  <2>2. Own(p)'
    BY <1>1, <2>1, Stutter DEF Own
  <2>3. LastPart(p)'
    BY <1>1, <2>1, Stutter DEF LastPart
  <2>4. QED
    BY <2>2, <2>3
<1>6. Good(space', data', AllDeleted')
  BY <1>1, <1>2 DEF SafeInv
<1>7. QED
  BY <1>2, <1>3, <1>4, <1>5, <1>6 DEF SafeInv

(* SafeInv holds in every state.                                           *)
LEMMA SafeInvariant ==
  ASSUME Istrans, PidsDistinct PROVE Spec => []SafeInv
<1>1. Init => SafeInv
  <2> SUFFICES ASSUME Init PROVE SafeInv
    OBVIOUS
  <2>1. \A p \in Proc : ~Active(p) /\ ToGo(p) = {} /\ Deleted(p) = {}
    BY DEF Init, Active, ToGo, Deleted
  <2>2. /\ \A p \in Proc : Own(p) /\ LastPart(p)
        /\ ApartPart /\ AllDeleted = {}
    BY <2>1 DEF Own, LastPart, ApartPart, AllDeleted
  <2>3. Good(space, data, {})
    BY DEF Init, Good, OnFree
  <2>4. PidPart
    BY DEF Init, PidPart
  <2>5. QED
    BY <2>2, <2>3, <2>4 DEF SafeInv
<1>2. TypeInv /\ SafeInv /\ [Next]_vars => SafeInv'
  <2> SUFFICES ASSUME TypeInv, SafeInv, [Next]_vars PROVE SafeInv'
    OBVIOUS
  <2>1. CASE UNCHANGED vars
    BY <2>1, SafeStutter
  <2>2. CASE Next
    <3>1. \E p \in Proc : ActionOf(p)
      BY <2>2, NextIs
    <3>2. QED
      BY <3>1, SafeStep
  <2>3. QED
    BY <2>1, <2>2
<1>3. QED
  BY <1>1, <1>2, TypeInvariant, PTL DEF Spec

(* FreeRowsDeleted, in a table opened with ISTRANS: a row on the free list *)
(* holds no data and is listed once. No commit frees a row twice and no    *)
(* rollback brings back a row that was freed, whether the rollbacks come to*)
(* their end or not (Busy), and also where processes use the same keys.    *)
THEOREM FreeListSound ==
  ASSUME Istrans, PidsDistinct PROVE Spec => []FreeRowsDeleted
<1>1. TypeInv /\ SafeInv => FreeRowsDeleted
  <2> SUFFICES ASSUME TypeInv, SafeInv PROVE FreeRowsDeleted
    OBVIOUS
  <2>1. /\ Good(space, data, AllDeleted) /\ space.free \in Seq(Row)
        /\ \A i \in 1..Len(space.free) : space.free[i] \in Row
    BY SpaceFacts DEF SafeInv, TypeInv
  <2>2. DOMAIN space.free = 1..Len(space.free)
    BY <2>1
  <2>3. IsInjective(space.free)
    BY <2>1, <2>2 DEF Good, IsInjective
  <2>4. QED
    BY <2>1, <2>3 DEF FreeRowsDeleted, Good, OnFree
<1>2. QED
  BY <1>1, SafeInvariant, TypeInvariant, PTL

-----------------------------------------------------------------------------
(***************************************************************************)
(* Second part: what a rollback undoes, and that transactions are atomic   *)
(* (VBAtomic).                                                             *)
(*                                                                         *)
(* Snap(p, m, r) is the key of row r as it was after record m of the log,  *)
(* as the changes of p that are still to be undone tell it: the old value  *)
(* of the first later change of r, or the row itself. The invariant        *)
(* UndoInv says of a transaction that may still be rolled back that all    *)
(* its changes lead back to the rows before them (DonePart: Snap at 0 is   *)
(* Before), that the keys of its process are unique at every point on that *)
(* way (SnapPart, which is KeysUnique of the past, so an undo never meets  *)
(* a duplicate), and that the row of a change is there to be undone        *)
(* (ChainPart). An undo of the last change moves one point back and leaves *)
(* the earlier ones as they are (SnapLess), a new change adds a point      *)
(* (SnapMore).                                                             *)
(*                                                                         *)
(* That holds under the conditions of Reliable: the table is opened with   *)
(* ISTRANS, no reader keeps the dictionary locked, process numbers are     *)
(* distinct and of two bytes, and no two processes use the same keys. Each *)
(* of them is needed: without the last two TLC finds a rollback that       *)
(* leaves changes in the table (MCVBTransKeys.cfg, MCVBTransPid.cfg); with *)
(* readers UndoFails ends a walk half way; without ISTRANS a deleted row is*)
(* freed at once. What holds without them is above.                        *)
(*                                                                         *)
(* It does not rest on the row locks, which a rollback has lost when the   *)
(* table was closed in the transaction: a row with changes to go is        *)
(* deleted by the transaction, and so not free, or has one of its keys     *)
(* (RowState), so no other process changes or locks it (Untouched). Once   *)
(* the first change of a row is undone it is nobody's (Owns), and where    *)
(* that was an insert another process may have taken the row since.        *)
(***************************************************************************)

(* Undoing.  In log l with rows d, the row r as it was after change m and  *)
(* before the changes T above m: the old value of the first of them.       *)
SnapOf(l, d, T, m, r) ==
  LET later == {i \in T : i > m /\ l[i].row = r}
  IN  IF later = {} THEN d[r] ELSE l[Min(later)].old

(* After the last change a row is as it is.                                *)
LEMMA SnapLast ==
  ASSUME NEW l, NEW d, NEW T, NEW m \in Int, NEW r,
         \A i \in T : i \in Int /\ i <= m
  PROVE  SnapOf(l, d, T, m, r) = d[r]
<1>1. {i \in T : i > m /\ l[i].row = r} = {}
  OBVIOUS
<1>2. QED
  BY <1>1 DEF SnapOf

SameOn(l, k, T) == T \in SUBSET Nat /\ \A i \in T : k[i] = l[i]

(* Snap depends on the records of the changes only, and on the row where   *)
(* none is later.                                                          *)
LEMMA SnapKept ==
  ASSUME NEW l, NEW k, NEW d, NEW e, NEW T, NEW m \in Nat, NEW r,
         SameOn(l, k, T)
  PROVE  \/ SnapOf(k, e, T, m, r) = SnapOf(l, d, T, m, r)
         \/ /\ SnapOf(k, e, T, m, r) = e[r] /\ SnapOf(l, d, T, m, r) = d[r]
            /\ \A i \in T : i > m => l[i].row # r
<1> DEFINE A == {i \in T : i > m /\ l[i].row = r}
           B == {i \in T : i > m /\ k[i].row = r}
<1>0. T \in SUBSET Nat /\ \A i \in T : k[i] = l[i]
  BY DEF SameOn
<1>1. A = B
  BY <1>0
<1>2. CASE A = {}
  BY <1>1, <1>2 DEF SnapOf
<1>3. CASE A # {}
  <2>1. A \in SUBSET Nat /\ A \subseteq T
    BY <1>0
  <2>2. Min(A) \in T
    <3> HIDE DEF A
    <3>1. QED
      BY <1>3, <2>1, MinNumber
  <2>3. k[Min(A)].old = l[Min(A)].old
    <3> HIDE DEF A
    <3>1. QED
      BY <1>0, <2>2
  <2>4. SnapOf(l, d, T, m, r) = l[Min(A)].old
    BY <1>3 DEF SnapOf
  <2>5. SnapOf(k, e, T, m, r) = k[Min(B)].old
    BY <1>1, <1>3 DEF SnapOf
  <2>6. QED
    BY <1>1, <2>3, <2>4, <2>5
<1>4. QED
  BY <1>2, <1>3

(* A change n of row r, of value d[r], is the last of all.                 *)
LastDone(l, k, d, e, T, n) ==
  /\ T \in SUBSET Nat /\ n \in Nat
  /\ \A i \in T : i < n /\ k[i] = l[i]
  /\ k[n].old = d[k[n].row]
  /\ \A y \in Row : y # k[n].row => e[y] = d[y]

(* A change more: the points before it are as they were.                   *)
LEMMA SnapMore ==
  ASSUME NEW l, NEW k, NEW d, NEW e, NEW T, NEW n,
         LastDone(l, k, d, e, T, n), NEW m \in Nat, NEW x \in Row
  PROVE  /\ m >= n => SnapOf(k, e, T \union {n}, m, x) = e[x]
         /\ m < n => SnapOf(k, e, T \union {n}, m, x) = SnapOf(l, d, T, m, x)
<1> DEFINE U == T \union {n}
           A == {i \in T : i > m /\ l[i].row = x}
           B == {i \in U : i > m /\ k[i].row = x}
<1>0. /\ T \in SUBSET Nat /\ n \in Nat
      /\ \A i \in T : i < n /\ k[i] = l[i]
      /\ k[n].old = d[k[n].row]
      /\ \A y \in Row : y # k[n].row => e[y] = d[y]
  BY DEF LastDone
<1>1. CASE m >= n
  <2>1. \A i \in U : i \in Int /\ i <= m
    <3>1. \A i \in T : i \in Int /\ i < n /\ n \in Int /\ m \in Int
      BY <1>0
    <3>2. \A i \in T : i <= m
      BY <1>1, <3>1
    <3>3. n \in Int /\ n <= m
      BY <1>0, <1>1
    <3>4. QED
      BY <3>1, <3>2, <3>3
  <2>2. m \in Int /\ ~(m < n)
    BY <1>0, <1>1
  <2> HIDE DEF U
  <2>3. SnapOf(k, e, U, m, x) = e[x]
    BY <2>1, <2>2, SnapLast
  <2>4. QED
    BY <2>2, <2>3 DEF U
<1>2. CASE m < n
  <2>0. ~(m >= n)
    BY <1>0, <1>2
  <2>1. B = A \union (IF k[n].row = x THEN {n} ELSE {})
    BY <1>0, <1>2
  <2>2. A \in SUBSET Nat /\ A \subseteq T
    BY <1>0
  <2>3. CASE A = {} /\ k[n].row = x
    <3>1. B = {n}
      BY <2>1, <2>3
    <3>2. Min({n}) = n
      BY <1>0, MinNumber
    <3>3. SnapOf(k, e, U, m, x) = k[n].old
      BY <3>1, <3>2 DEF SnapOf
    <3>4. SnapOf(l, d, T, m, x) = d[x]
      BY <2>3 DEF SnapOf
    <3>5. QED
      BY <1>0, <2>0, <2>3, <3>3, <3>4
  <2>4. CASE A = {} /\ k[n].row # x
    <3>1. B = {}
      BY <2>1, <2>4
    <3>2. SnapOf(k, e, U, m, x) = e[x]
      BY <3>1 DEF SnapOf
    <3>3. SnapOf(l, d, T, m, x) = d[x]
      BY <2>4 DEF SnapOf
    <3>4. QED
      BY <1>0, <2>0, <2>4, <3>2, <3>3
  <2>5. CASE A # {}
    <3>1. B # {} /\ B \in SUBSET Nat /\ A \subseteq B
      BY <1>0, <2>1, <2>2, <2>5
    <3>2. Min(B) = Min(A) /\ Min(A) \in T
      <4>1. \A i \in B : i \in A \/ i = n
        BY <2>1
      <4>2. \A i \in A : i < n
        BY <1>0, <2>2
      <4> HIDE DEF A, B
      <4>3. Min(A) \in A /\ \A y \in A : Min(A) <= y
        BY <2>2, <2>5, MinNumber
      <4>4. Min(B) \in B /\ \A y \in B : Min(B) <= y
        BY <3>1, MinNumber
      <4>5. Min(A) \in Nat /\ Min(B) \in Nat
        BY <2>2, <3>1, <4>3, <4>4
      <4>6. Min(B) <= Min(A)
        BY <3>1, <4>3, <4>4
      <4>7. Min(A) < n
        BY <4>2, <4>3
      <4>8. Min(B) \in A
        BY <1>0, <4>1, <4>4, <4>5, <4>6, <4>7
      <4>9. Min(A) <= Min(B)
        BY <4>3, <4>8
      <4>10. QED
        BY <2>2, <4>3, <4>5, <4>6, <4>9
    <3>3. SnapOf(k, e, U, m, x) = k[Min(B)].old
      BY <3>1 DEF SnapOf
    <3>4. SnapOf(l, d, T, m, x) = l[Min(A)].old
      BY <2>5 DEF SnapOf
    <3>5. k[Min(A)] = l[Min(A)]
      <4> HIDE DEF A, B
      <4>1. QED
        BY <1>0, <3>2
    <3>6. QED
      BY <2>0, <3>2, <3>3, <3>4, <3>5
  <2>6. QED
    BY <2>3, <2>4, <2>5
<1>3. QED
  BY <1>1, <1>2

(* The last change a is undone.                                            *)
LastUndone(l, d, e, T, a) ==
  /\ T \in SUBSET Nat /\ a \in T /\ a # 0 /\ \A i \in T : i <= a
  /\ e[l[a].row] = l[a].old
  /\ \A y \in Row : y # l[a].row => e[y] = d[y]

(* Before the last change the rows are what its undo makes of them.        *)
LEMMA SnapUndone ==
  ASSUME NEW l, NEW d, NEW e, NEW T, NEW a, LastUndone(l, d, e, T, a),
         NEW b, b = a - 1, NEW x \in Row
  PROVE  SnapOf(l, d, T, b, x) = e[x]
<1> DEFINE S == T \ {a}
<1>1. /\ S \in SUBSET Nat /\ a \in Nat /\ b \in Nat /\ b < a
      /\ \A i \in S : i < a /\ l[i] = l[i]
      /\ l[a].old = e[l[a].row]
      /\ \A y \in Row : y # l[a].row => d[y] = e[y]
      /\ S \union {a} = T
  <2>1. a \in Nat /\ a # 0 /\ \A i \in T : i \in Nat /\ i <= a
    BY DEF LastUndone
  <2>2. b \in Nat /\ b < a /\ \A i \in S : i < a
    BY <2>1
  <2>3. QED
    BY <2>1, <2>2 DEF LastUndone
<1>2. b \in Int /\ \A i \in S : i \in Int /\ i <= b
  BY <1>1
<1> HIDE DEF S
<1>3. SnapOf(l, d, S \union {a}, b, x) = SnapOf(l, e, S, b, x)
  <2>1. LastDone(l, l, e, d, S, a)
    BY <1>1 DEF LastDone
  <2>2. QED
    BY <1>1, <2>1, SnapMore
<1>4. SnapOf(l, e, S, b, x) = e[x]
  BY <1>2, SnapLast
<1>5. QED
  BY <1>1, <1>3, <1>4

(* A change less, undone: the points before it are as they were.           *)
LEMMA SnapLess ==
  ASSUME NEW l, NEW d, NEW e, NEW T, NEW a, LastUndone(l, d, e, T, a),
         NEW x \in Row, NEW m \in Nat
  PROVE  /\ m >= a => SnapOf(l, e, T \ {a}, m, x) = e[x]
         /\ m < a => SnapOf(l, e, T \ {a}, m, x) = SnapOf(l, d, T, m, x)
<1> DEFINE S == T \ {a}
<1>1. /\ S \in SUBSET Nat /\ \A i \in S : i < a
      /\ \A y \in Row : y # l[a].row => d[y] = e[y]
      /\ S \union {a} = T /\ a \in Nat /\ l[a].old = e[l[a].row]
  BY DEF LastUndone
<1>2. \A i \in S : i \in Int /\ (m >= a => i <= m)
  BY <1>1
<1> HIDE DEF S
<1>3. ASSUME NEW j \in Nat, j < a
      PROVE  SnapOf(l, d, T, j, x) = SnapOf(l, e, S, j, x)
  <2>1. LastDone(l, l, e, d, S, a)
    BY <1>1 DEF LastDone
  <2>2. /\ j >= a => SnapOf(l, d, S \union {a}, j, x) = d[x]
        /\ j < a => SnapOf(l, d, S \union {a}, j, x) = SnapOf(l, e, S, j, x)
    BY <2>1, SnapMore
  <2>3. QED
    BY <1>1, <1>3, <2>2
<1>4. ASSUME m >= a PROVE SnapOf(l, e, S, m, x) = e[x]
  <2>1. m \in Int /\ \A i \in S : i \in Int /\ i <= m
    BY <1>2, <1>4
  <2>2. QED
    BY <2>1, SnapLast
<1>5. QED
  BY <1>1, <1>3, <1>4 DEF S

(* Where all changes are to go, before the first is before all of them.    *)
Positive(T) == T \in SUBSET Nat /\ 0 \notin T

FirstOld(l, T, r) == l[Min({i \in T : l[i].row = r})].old

(* Where all changes are to go, before the first is before all of them.    *)
LEMMA SnapAll ==
  ASSUME NEW l, NEW d, NEW T, Positive(T), NEW r, \E j \in T : l[j].row = r
  PROVE  SnapOf(l, d, T, 0, r) = FirstOld(l, T, r)
<1>1. {i \in T : i > 0 /\ l[i].row = r} = {i \in T : l[i].row = r}
  <2>1. \A i \in T : i > 0
    BY DEF Positive
  <2>2. QED
    BY <2>1
<1>2. {i \in T : l[i].row = r} # {}
  OBVIOUS
<1>3. QED
  BY <1>1, <1>2 DEF SnapOf, FirstOld

(* What makes undoing work.                                                *)
KeysApart == \A p, q \in Proc : p # q => KeyOf[p] \cap KeyOf[q] = {}

OldPart ==
  \A i \in 1..Len(log) :
    /\ log[i].op = "IN" => log[i].old = NoKey
    /\ log[i].op \in {"UP", "DE"} => log[i].old \in KeyOf[log[i].proc]

ChainPart(p) ==
  InTrans(p) => \A i \in ToGo(p) :
    /\ log[i].op = "IN" =>
         \A j \in ToGo(p) : log[j].row = log[i].row => i <= j
    /\ \/ log[i].op = "DE"
       \/ data[log[i].row] \in KeyOf[p]
       \/ \E j \in ToGo(p) : j > i /\ log[j].row = log[i].row

Snap(p, m, r) == SnapOf(log, data, ToGo(p), m, r)

SnapPart(p) ==
  InTrans(p) => \A m \in Nat : \A r, s \in Row :
    r # s /\ Snap(p, m, r) \in KeyOf[p] => Snap(p, m, s) # Snap(p, m, r)

(* A row is the transaction's until the first change of it is undone.      *)
Owns(p, x) == InTrans(p) /\ \E i \in ToGo(p) : log[i].row = x

(* A row that an undone insert gave back may be another process's by now.  *)
DonePart(p) ==
  InTrans(p) => \A r \in Touched(p) :
    \/ Snap(p, 0, r) = Before(p, r)
    \/ /\ Before(p, r) = NoKey /\ Snap(p, 0, r) \notin KeyOf[p]
       /\ ~Owns(p, r)

(* No other process locks a row of the transaction, locked or not.         *)
FreePart(p) == \A x \in Row : Owns(p, x) => rowlock[x] \in {p, NoProc}

(* The parts of the invariant that concern one transaction.                *)
TransPart(p) == ChainPart(p) /\ SnapPart(p) /\ DonePart(p) /\ FreePart(p)

UndoInv == OldPart /\ CoverInv /\ \A p \in Proc : TransPart(p)

(* The changes to go are changes of the transaction.                       *)
LEMMA ToGoFacts ==
  ASSUME TypeInv, NEW p
  PROVE  /\ ToGo(p) \in SUBSET Nat /\ 0 \notin ToGo(p)
         /\ ToGo(p) \subseteq Changes(p)
         /\ \A i \in ToGo(p) : log[i].row \in Held(p)
<1>1. \A i \in Changes(p) : i \in 1..Len(log)
  BY ChangesFacts
<1>2. ToGo(p) \subseteq Changes(p) /\ (ToGo(p) # {} => Active(p))
  BY DEF ToGo
<1>3. Len(log) \in Nat
  BY DEF TypeInv, LogPart
<1>4. \A i \in 1..Len(log) : i \in Nat /\ i # 0
  BY <1>3
<1>5. QED
  BY <1>1, <1>2, <1>4 DEF Held, Touched

(* A rollback is at the last of the changes to go.                         *)
LEMMA WalkAt ==
  ASSUME TypeInv, NEW p \in Proc, Own(p), Walking(p, "rollback")
  PROVE  /\ at[p] \in ToGo(p) /\ \A i \in ToGo(p) : i <= at[p]
         /\ at[p] \in Nat /\ at[p] # 0 /\ InTrans(p)
<1> DEFINE a == at[p]
           s == Start(p)
<1>1. Active(p) /\ Top(p) = a /\ a # 0 /\ log[a].op # "BW" /\ InTrans(p)
  BY DEF Walking, Active, Top, InTrans
<1>2. a \in 1..Len(log) /\ Len(log) \in Nat
  BY <1>1, WalkRow DEF TypeInv, LogPart
<1>3. s \in 0..Len(log) /\ (s # 0 => log[s].op = "BW")
  BY StartIs, StartFacts DEF TypeInv, LogPart
<1>4. /\ s # 0 /\ s <= a /\ log[a].proc = p
      /\ \A i \in 1..Len(log) : i > s /\ i <= a /\ log[i].proc = p
                                  => log[i].op \in {"IN", "DE", "UP"}
  BY <1>1 DEF Own, Walking
<1>5. s # a
  BY <1>1, <1>3, <1>4
<1> HIDE DEF a, s
<1>6. /\ a > s /\ a <= a /\ a > 0 /\ a \in s..Len(log) /\ a \in Nat
      /\ log[a].op \in {"IN", "DE", "UP"}
  BY <1>2, <1>3, <1>4, <1>5
<1>7. a \in Changes(p)
  BY <1>4, <1>6 DEF Changes, s
<1>8. QED
  BY <1>1, <1>6, <1>7 DEF ToGo, a

(* While changes of a row are to go, the row is deleted by the transaction *)
(* or has one of its keys.                                                 *)
LEMMA RowState ==
  ASSUME TypeInv, UndoInv, NEW p \in Proc, NEW x, Owns(p, x)
  PROVE  x \in Row /\ (x \in Deleted(p) \/ data[x] \in KeyOf[p])
<1> DEFINE T == ToGo(p)
           A == {j \in T : log[j].row = x}
           n == Len(log)
<1>1. T \in SUBSET Nat /\ n \in Nat /\ InTrans(p)
  BY ToGoFacts DEF TypeInv, LogPart, Owns
<1>2. \A i \in T : i <= n /\ log[i].row \in Row
  <2>1. \A i \in T : i \in 1..n /\ log[i].row \in Row
    BY ToGoFacts, ChangesFacts
  <2>2. QED
    BY <1>1, <2>1
<1>3. A \in SUBSET Nat /\ A # {} /\ \A j \in A : j <= n
  BY <1>1, <1>2 DEF Owns
<1>4. PICK m \in A : \A j \in A : j <= m
  <2> HIDE DEF A, n
  <2>1. QED
    BY <1>1, <1>3, MaxNumber
<1>5. m \in T /\ log[m].row = x /\ m \in Nat /\ x \in Row
  BY <1>1, <1>2
<1>6. ASSUME NEW j \in T, j > m, log[j].row = log[m].row PROVE FALSE
  <2>1. j \in A /\ j \in Nat
    BY <1>1, <1>5, <1>6
  <2> HIDE DEF A, T
  <2>2. QED
    BY <1>4, <1>5, <1>6, <2>1
<1>7. ChainPart(p)
  BY DEF UndoInv, TransPart
<1>8. log[m].op = "DE" \/ data[x] \in KeyOf[p]
  BY <1>1, <1>5, <1>6, <1>7 DEF ChainPart
<1>9. QED
  BY <1>5, <1>8 DEF Deleted

(* The record a rollback has come to can be undone: the row is there (or   *)
(* deleted, for the undo of a delete), no other process has locked it, and *)
(* no other row has the old key.                                           *)
LEMMA CanUndo ==
  ASSUME TypeInv, SafeInv, UndoInv, NEW p \in Proc, Walking(p, "rollback")
  PROVE  LET a == at[p]
             r == log[a].row
             o == log[a].old
         IN  /\ r \in Row /\ Owns(p, r) /\ CanLock(p, r)
             /\ log[a].op = "IN" => o = NoKey
             /\ log[a].op # "IN" => o \in KeyOf[p] /\ ~Duplicate(o, r)
             /\ log[a].op \in {"IN", "DE", "UP"}
             /\ log[a].op # "DE" => data[r] \in KeyOf[p]
             /\ log[a].op = "DE" => data[r] = NoKey
<1> DEFINE a == at[p]
           r == log[a].row
           o == log[a].old
           T == ToGo(p)
<1>1. /\ a \in T /\ \A i \in T : i <= a
      /\ a \in Nat /\ a # 0 /\ InTrans(p)
  BY WalkAt DEF SafeInv
<1>2. /\ a \in 1..Len(log) /\ log[a].proc = p /\ r \in Row
      /\ log[a].op \in {"IN", "DE", "UP"} /\ T \in SUBSET Nat
  BY <1>1, ToGoFacts, ChangesFacts
<1>3. Owns(p, r) /\ CanLock(p, r)
  <2>1. Owns(p, r)
    BY <1>1 DEF Owns
  <2>2. QED
    BY <1>2, <2>1 DEF UndoInv, TransPart, FreePart, CanLock
<1>4. /\ log[a].op = "IN" => o = NoKey
      /\ log[a].op # "IN" => o \in KeyOf[p]
  BY <1>2 DEF UndoInv, OldPart
<1>5. ~\E j \in T : j > a /\ log[j].row = r
  BY <1>1, <1>2
<1>6. log[a].op # "DE" => data[r] \in KeyOf[p]
  BY <1>1, <1>5 DEF UndoInv, TransPart, ChainPart
<1>7. log[a].op = "DE" => data[r] = NoKey
  <2>1. ASSUME log[a].op = "DE" PROVE r \in AllDeleted
    BY <1>1, <2>1 DEF AllDeleted, Deleted
  <2>2. QED
    BY <2>1 DEF SafeInv, Good
<1>8. ASSUME o \in KeyOf[p], NEW s \in Row, s # r, data[s] = o PROVE FALSE
  <2> DEFINE m == a - 1
             e == [data EXCEPT ![r] = o]
  <2>1. /\ e[r] = o /\ (\A y \in Row : y # r => e[y] = data[y])
        /\ a <= a /\ m \in Nat
    BY <1>1, <1>2 DEF TypeInv
  <2>2. \A i \in T : i <= a
    BY <1>1
  <2> HIDE DEF e, T, a
  <2>3. \A x \in Row : SnapOf(log, data, T, a - 1, x) = e[x]
    <3>1. LastUndone(log, data, e, T, a)
      BY <1>1, <1>2, <2>1, <2>2 DEF LastUndone
    <3>2. m = a - 1
      OBVIOUS
    <3> HIDE DEF m
    <3>3. \A x \in Row : SnapOf(log, data, T, m, x) = e[x]
      BY <3>1, <3>2, SnapUndone
    <3>4. QED
      BY <3>2, <3>3
  <2>4. Snap(p, m, r) = o /\ Snap(p, m, s) = o
    BY <1>2, <1>8, <2>1, <2>3 DEF Snap, T
  <2>5. QED
    BY <1>1, <1>2, <1>8, <2>1, <2>4 DEF UndoInv, TransPart, SnapPart
<1>9. log[a].op # "IN" => ~Duplicate(o, r)
  BY <1>4, <1>8 DEF Duplicate
<1>10. QED
  BY <1>2, <1>3, <1>4, <1>6, <1>7, <1>9

(* Without readers no rollback fails.                                      *)
LEMMA NeverFails ==
  ASSUME TypeInv, SafeInv, UndoInv, ~Busy, NEW p \in Proc
  PROVE  ~UndoFails(p)
<1> SUFFICES ASSUME UndoFails(p) PROVE FALSE
  OBVIOUS
<1>1. Walking(p, "rollback") /\ log[at[p]].op \in {"IN", "UP"}
  BY DEF UndoFails
<1>2. NoKey \notin KeyOf[p]
  BY TransAssumption
<1>3. QED
  BY <1>1, <1>2, CanUndo DEF UndoFails

(* The undo of a change.                                                   *)
Undo(p) == UndoInsert(p) \/ UndoUpdate(p) \/ UndoDelete(p)

(* What an undo does to the rows: the old value is back.                   *)
LEMMA UndoData ==
  ASSUME TypeInv, SafeInv, UndoInv, NEW p \in Proc, Undo(p)
  PROVE  /\ Walking(p, "rollback") /\ Step(p)
         /\ UNCHANGED <<log, ivbintrans>>
         /\ data' = [data EXCEPT ![log[at[p]].row] = log[at[p]].old]
<1>1. /\ Walking(p, "rollback") /\ Step(p) /\ UNCHANGED <<log, ivbintrans>>
  BY DEF Undo, UndoInsert, UndoUpdate, UndoDelete, Undoing
<1>2. QED
  BY <1>1, CanUndo DEF Undo, UndoInsert, UndoUpdate, UndoDelete

(* A row a process may change: it has a key of the process, or none and is *)
(* not deleted by another transaction.                                     *)
Free(p, x) ==
  \/ data[x] \in KeyOf[p]
  \/ data[x] = NoKey /\ \A q \in Proc \ {p} : x \notin Deleted(q)

(* An action changes and locks such rows only.                             *)
LEMMA RowsChanged ==
  ASSUME TypeInv, SafeInv, UndoInv, Istrans, NEW p \in Proc, ActionOf(p),
         NEW x \in Row
  PROVE  \/ data'[x] = data[x] /\ rowlock'[x] \in {rowlock[x], NoProc}
         \/ Free(p, x) /\ data'[x] \in KeyOf[p] \union {NoKey}
<1>0. data \in [Row -> Value] /\ rowlock \in [Row -> Proc \union {NoProc}]
  BY DEF TypeInv
<1>1. ASSUME rowlock' = Unlocked(p) PROVE rowlock'[x] \in {rowlock[x], NoProc}
  BY <1>0, <1>1 DEF Unlocked
<1>2. ASSUME NEW r \in Row, rowlock' \in {rowlock, LockRow(p, r)}, x # r
      PROVE  rowlock'[x] = rowlock[x]
  BY <1>0, <1>2 DEF LockRow
<1>3. CASE iswrite(p)
  <2> DEFINE r == NextRow(space)
  <2>1. r \in Row
    BY <1>3, TakenType DEF iswrite, TypeInv
  <2>2. data[r] = NoKey /\ Free(p, r)
    <3>1. AllDeleted \in SUBSET Row
      BY DeletedFacts DEF SafeInv
    <3>2. data[r] = NoKey /\ r \notin AllDeleted
      BY <1>0, <2>1, <3>1, GoodTaken DEF SafeInv, TypeInv
    <3>3. QED
      BY <3>2 DEF Free, AllDeleted
  <2>3. /\ rowlock' = LockRow(p, r)
        /\ \/ data' = data
           \/ \E k \in KeyOf[p] : data' = [data EXCEPT ![r] = k]
    BY <1>3 DEF iswrite
  <2> HIDE DEF r
  <2>4. QED
    BY <1>0, <1>2, <2>1, <2>2, <2>3
<1>4. CASE isdelete(p) \/ isrewrite(p)
  <2>1. PICK r \in Row, k \in KeyOf[p] \union {NoKey} :
          /\ data[r] \in KeyOf[p] /\ data' = [data EXCEPT ![r] = k]
          /\ rowlock' = LockRow(p, r)
    BY <1>4 DEF isdelete, isrewrite
  <2>2. Free(p, r)
    BY <2>1 DEF Free
  <2>3. QED
    BY <1>0, <1>2, <2>1, <2>2
<1>5. CASE OnHandle(p)
  <2>1. /\ data' = data
        /\ \/ rowlock' = rowlock
           \/ rowlock' = Unlocked(p)
           \/ \E r : rowlock[r] = p /\ rowlock' = [rowlock EXCEPT ![r] = NoProc]
    BY <1>5, HandleKeeps
  <2>2. QED
    BY <1>0, <1>1, <2>1
<1>6. CASE Undo(p)
  <2> DEFINE r == log[at[p]].row
             o == log[at[p]].old
  <2>1. /\ data' = [data EXCEPT ![r] = o] /\ Walking(p, "rollback")
        /\ rowlock' \in {rowlock, LockRow(p, r)}
    BY <1>6, UndoData DEF Undo, UndoInsert, UndoUpdate, UndoDelete
  <2>2. /\ r \in Row /\ Owns(p, r)
        /\ o \in KeyOf[p] \union {NoKey}
        /\ data[r] \in KeyOf[p] \union {NoKey}
    BY <2>1, CanUndo
  <2>3. Free(p, r)
    <3>1. ASSUME data[r] = NoKey, NEW q \in Proc \ {p} PROVE r \notin Deleted(q)
      <4>1. r \in Deleted(p)
        BY <2>2, <3>1, RowState, TransAssumption
      <4>2. QED
        BY <4>1 DEF SafeInv, ApartPart
    <3>2. QED
      BY <2>2, <3>1 DEF Free
  <2> HIDE DEF r, o
  <2>4. QED
    BY <1>0, <1>2, <2>1, <2>2, <2>3
<1>7. CASE \/ isbegin(p) \/ iscommit(p) \/ isrollback(p) \/ CommitStep(p)
           \/ CommitEnd(p) \/ UndoFails(p) \/ RollbackEnd(p)
  <2>1. data' = data /\ (rowlock' = rowlock \/ rowlock' = Unlocked(p))
    BY <1>7 DEF isbegin, iscommit, isrollback, CommitStep, CommitEnd,
                UndoFails, RollbackEnd, End
  <2>2. QED
    BY <1>1, <2>1
<1>8. QED
  BY <1>3, <1>4, <1>5, <1>6, <1>7 DEF ActionOf, Undo

(* What a transaction has changed, no other process changes or locks.      *)
LEMMA Untouched ==
  ASSUME TypeInv, SafeInv, UndoInv, Istrans, KeysApart,
         NEW p \in Proc, ActionOf(p), NEW q \in Proc, q # p,
         NEW x \in Row, Owns(q, x)
  PROVE  data'[x] = data[x] /\ rowlock'[x] \in {q, NoProc}
<1>1. rowlock[x] \in {q, NoProc}
  BY DEF UndoInv, TransPart, FreePart
<1>2. x \in Deleted(q) \/ data[x] \in KeyOf[q]
  BY RowState
<1>3. x \in Deleted(q) => data[x] = NoKey
  BY DEF SafeInv, Good, AllDeleted
<1>4. /\ KeyOf[p] \cap KeyOf[q] = {}
      /\ NoKey \notin KeyOf[p] /\ NoKey \notin KeyOf[q]
  BY TransAssumption DEF KeysApart
<1>5. ~Free(p, x)
  BY <1>2, <1>3, <1>4 DEF Free
<1>6. QED
  BY <1>1, <1>5, RowsChanged

(* The first value of a changed row is one of the process's, or none.      *)
LEMMA BeforeIs ==
  ASSUME TypeInv, UndoInv, NEW p \in Proc, NEW x \in Touched(p)
  PROVE  Before(p, x) \in KeyOf[p] \union {NoKey}
<1> DEFINE A == {i \in Changes(p) : log[i].row = x}
<1>1. A \in SUBSET Nat /\ A # {} /\ A \subseteq Changes(p)
  <2>1. \A i \in Changes(p) : i \in Nat
    BY ChangesFacts DEF TypeInv, LogPart
  <2>2. QED
    BY <2>1 DEF Touched
<1>2. Min(A) \in Changes(p)
  <2> HIDE DEF A
  <2>1. QED
    BY <1>1, MinNumber
<1>3. /\ Min(A) \in 1..Len(log) /\ log[Min(A)].proc = p
      /\ log[Min(A)].op \in {"IN", "DE", "UP"}
  BY <1>2, ChangesFacts
<1>4. log[Min(A)].old \in KeyOf[p] \union {NoKey}
  BY <1>3 DEF UndoInv, OldPart
<1>5. QED
  BY <1>4 DEF Before

(* What one process does leaves the way back of another as it was.         *)
LEMMA OthersUndo ==
  ASSUME TypeInv, SafeInv, UndoInv, Istrans, KeysApart,
         NEW p \in Proc, ActionOf(p), NEW q \in Proc, q # p
  PROVE  TransPart(q)'
<1> DEFINE T == ToGo(q)
           C == Changes(q)
<1>1. /\ ivbintrans'[q] = ivbintrans[q] /\ T' = T /\ C' = C
      /\ \A i \in C : log'[i] = log[i]
      /\ Touched(q)' = Touched(q)
  BY OthersKept DEF KeptFor
<1>2. T \in SUBSET Nat /\ T \subseteq C
  BY ToGoFacts
<1>3. InTrans(q)' = InTrans(q)
  BY <1>1 DEF InTrans
<1>4. \A x \in Row : \/ data'[x] = data[x]
                     \/ /\ ~Owns(q, x)
                        /\ data[x] \notin KeyOf[q] /\ data'[x] \notin KeyOf[q]
  <2>1. NoKey \notin KeyOf[q] /\ KeyOf[p] \cap KeyOf[q] = {}
    BY TransAssumption DEF KeysApart
  <2>2. QED
    BY <2>1, RowsChanged, Untouched DEF Free
<1>5. \A x : Owns(q, x)' <=> Owns(q, x)
  <2>1. \A i \in T : log'[i] = log[i]
    BY <1>1, <1>2
  <2>2. QED
    BY <1>1, <1>3, <2>1 DEF Owns
<1>6. ChainPart(q)'
  <2>1. ASSUME InTrans(q), NEW i \in T
        PROVE  log'[i] = log[i] /\ data'[log[i].row] = data[log[i].row]
    <3>1. log[i].row \in Row /\ Owns(q, log[i].row)
      BY <1>2, <2>1, ChangesFacts DEF Owns
    <3>2. QED
      BY <1>1, <1>2, <1>4, <2>1, <3>1
  <2>2. ChainPart(q)
    BY DEF UndoInv, TransPart
  <2>3. ChainPart(q)' <=>
        (InTrans(q)' => \A i \in T' :
          /\ log'[i].op = "IN" =>
               \A j \in T' : log'[j].row = log'[i].row => i <= j
          /\ \/ log'[i].op = "DE"
             \/ data'[log'[i].row] \in KeyOf[q]
             \/ \E j \in T' : j > i /\ log'[j].row = log'[i].row)
    BY DEF ChainPart
  <2>4. ChainPart(q) <=>
        (InTrans(q) => \A i \in T :
          /\ log[i].op = "IN" =>
               \A j \in T : log[j].row = log[i].row => i <= j
          /\ \/ log[i].op = "DE"
             \/ data[log[i].row] \in KeyOf[q]
             \/ \E j \in T : j > i /\ log[j].row = log[i].row)
    BY DEF ChainPart
  <2> HIDE DEF T
  <2>5. QED
    BY <1>1, <1>3, <2>1, <2>2, <2>3, <2>4
<1>7. \A m \in Nat : \A x \in Row :
        \/ Snap(q, m, x)' = Snap(q, m, x)
        \/ Snap(q, m, x)' \notin KeyOf[q] /\ Snap(q, m, x) \notin KeyOf[q]
  <2> SUFFICES ASSUME NEW m \in Nat, NEW x \in Row
               PROVE  \/ Snap(q, m, x)' = Snap(q, m, x)
                      \/ /\ Snap(q, m, x)' \notin KeyOf[q]
                         /\ Snap(q, m, x) \notin KeyOf[q]
    OBVIOUS
  <2>1. /\ Snap(q, m, x)' = SnapOf(log', data', T, m, x)
        /\ Snap(q, m, x) = SnapOf(log, data, T, m, x)
    BY <1>1 DEF Snap
  <2>2. SameOn(log, log', T)
    BY <1>1, <1>2 DEF SameOn
  <2>3. \/ SnapOf(log', data', T, m, x) = SnapOf(log, data, T, m, x)
        \/ /\ SnapOf(log', data', T, m, x) = data'[x]
           /\ SnapOf(log, data, T, m, x) = data[x]
    <3> HIDE DEF T
    <3>1. QED
      BY <2>2, SnapKept
  <2>4. QED
    BY <1>4, <2>1, <2>3
<1>8. SnapPart(q)'
  <2> SUFFICES ASSUME InTrans(q)', NEW m \in Nat, NEW r \in Row,
                      NEW s \in Row, r # s, Snap(q, m, r)' \in KeyOf[q],
                      Snap(q, m, s)' = Snap(q, m, r)'
               PROVE  FALSE
    BY DEF SnapPart
  <2>1. Snap(q, m, r) \in KeyOf[q] /\ Snap(q, m, s) = Snap(q, m, r)
    BY <1>7
  <2>2. QED
    BY <1>3, <2>1 DEF UndoInv, TransPart, SnapPart
<1>9. DonePart(q)'
  <2> SUFFICES ASSUME InTrans(q)', NEW x \in Touched(q)
               PROVE  \/ Snap(q, 0, x)' = Before(q, x)'
                      \/ /\ Before(q, x)' = NoKey
                         /\ Snap(q, 0, x)' \notin KeyOf[q] /\ ~Owns(q, x)'
    BY <1>1 DEF DonePart
  <2>1. /\ x \in Row
        /\ \/ Snap(q, 0, x) = Before(q, x)
           \/ /\ Before(q, x) = NoKey
              /\ Snap(q, 0, x) \notin KeyOf[q] /\ ~Owns(q, x)
    BY <1>3, TouchedRows DEF UndoInv, TransPart, DonePart
  <2>2. Before(q, x)' = Before(q, x)
    <3>1. {i \in C' : log'[i].row = x} = {i \in C : log[i].row = x}
      BY <1>1
    <3> DEFINE A == {i \in C : log[i].row = x}
    <3>2. A \in SUBSET Nat /\ A # {} /\ A \subseteq C
      <4>1. \A i \in C : i \in Nat
        BY ChangesFacts DEF TypeInv, LogPart
      <4>2. QED
        BY <4>1 DEF Touched
    <3>3. Min(A) \in A
      <4> HIDE DEF A
      <4>1. QED
        BY <3>2, MinNumber
    <3>4. log'[Min(A)] = log[Min(A)]
      <4> HIDE DEF A
      <4>1. QED
        BY <1>1, <3>2, <3>3
    <3>5. Before(q, x)' = log'[Min(A)].old /\ Before(q, x) = log[Min(A)].old
      BY <3>1 DEF Before
    <3>6. QED
      BY <3>4, <3>5
  <2>3. \/ Snap(q, 0, x)' = Snap(q, 0, x)
        \/ Snap(q, 0, x)' = data'[x] /\ Snap(q, 0, x) = data[x]
    <3>1. SameOn(log, log', T)
      BY <1>1, <1>2 DEF SameOn
    <3>2. /\ Snap(q, 0, x)' = SnapOf(log', data', T, 0, x)
          /\ Snap(q, 0, x) = SnapOf(log, data, T, 0, x)
      BY <1>1 DEF Snap
    <3> HIDE DEF T
    <3>3. QED
      BY <3>1, <3>2, SnapKept
  <2>4. Before(q, x) \in KeyOf[q] \union {NoKey}
    BY BeforeIs
  <2>5. CASE Snap(q, 0, x)' = Snap(q, 0, x)
    BY <1>5, <2>1, <2>2, <2>5
  <2>6. CASE /\ Snap(q, 0, x)' = data'[x] /\ Snap(q, 0, x) = data[x]
             /\ data'[x] # data[x]
    <3>1. /\ ~Owns(q, x) /\ data[x] \notin KeyOf[q]
          /\ data'[x] \notin KeyOf[q]
      BY <1>4, <2>1, <2>6
    <3>2. Before(q, x) = NoKey
      BY <2>1, <2>4, <2>6, <3>1
    <3>3. QED
      BY <1>5, <2>2, <2>6, <3>1, <3>2
  <2>7. QED
    BY <2>3, <2>5, <2>6
<1>10. FreePart(q)'
  BY <1>5, Untouched DEF FreePart
<1>11. QED
  BY <1>6, <1>8, <1>9, <1>10 DEF TransPart

(* A change keeps the row of every change there, and the keys unique at the*)
(* new point (which is KeysUnique now) and at the earlier ones.            *)
LEMMA ChangeUndo ==
  ASSUME TypeInv, SafeInv, UndoInv, KeysUnique, KeysUnique', NEW p \in Proc,
         NEW op \in {"IN", "DE", "UP"}, NEW r \in Row,
         ChangeView(p, op, r, data[r]), r \notin Deleted(p),
         NEW k, data' = [data EXCEPT ![r] = k], k \in Value,
         op # "DE" => k \in KeyOf[p],
         op = "IN" => data[r] = NoKey,
         ivbintrans[p] \in {"begin", "needflush"}
  PROVE  ChainPart(p)' /\ SnapPart(p)'
<1> DEFINE T == ToGo(p)
           n == Len(log')
           m0 == log'
           l == log
<1>1. /\ T' = T \union {n} /\ n \in Nat
      /\ \A i \in T : i \in Nat /\ i < n /\ m0[i] = l[i]
      /\ m0[n].op = op /\ m0[n].row = r /\ m0[n].old = data[r]
      /\ T \in SUBSET Nat /\ \A i \in T : l[i].row \in Row
  <2>1. \A i \in T : log[i].row \in Row
    BY ChangesFacts DEF ToGo
  <2>2. QED
    BY <2>1, ToGoFacts DEF ChangeView
<1>2. /\ data'[r] = k /\ \A x \in Row : x # r => data'[x] = data[x]
      /\ data \in [Row -> Value]
  BY DEF TypeInv
<1>3. T # {} => InTrans(p)
  BY DEF ToGo, Active, InTrans
<1>4. \A i \in T : l[i].op = "DE" => l[i].row # r
  BY DEF Deleted
<1>5. ChainPart(p)'
  <2>1. ASSUME op = "IN", NEW j \in T, l[j].row = r PROVE FALSE
    <3> DEFINE A == {i \in T : l[i].row = r}
    <3>1. A \in SUBSET Nat /\ A # {} /\ \A i \in A : i <= n
      BY <1>1, <2>1
    <3>2. Max(A) \in A /\ \A i \in A : i <= Max(A)
      <4> HIDE DEF A
      <4>1. QED
        BY <1>1, <3>1, MaxNumber
    <3> DEFINE x == Max(A)
    <3>3. x \in T /\ l[x].row = r /\ \A i \in T : l[i].row = r => i <= x
      BY <3>2
    <3> HIDE DEF x, A
    <3>4. x \in Nat
      BY <1>1, <3>3
    <3>5. ~\E i \in T : i > x /\ l[i].row = r
      BY <1>1, <3>3, <3>4
    <3>6. l[x].op # "DE"
      BY <1>4, <3>3
    <3>7. data[r] \in KeyOf[p]
      <4>1. \/ l[x].op = "DE"
            \/ data[l[x].row] \in KeyOf[p]
            \/ \E i \in T : i > x /\ l[i].row = l[x].row
        BY <1>3, <3>3 DEF UndoInv, TransPart, ChainPart
      <4>2. QED
        BY <3>3, <3>5, <3>6, <4>1
    <3>8. QED
      BY <2>1, <3>7, TransAssumption
  <2>2. T # {} => \A i \in T :
          /\ l[i].op = "IN" =>
               \A j \in T : l[j].row = l[i].row => i <= j
          /\ \/ l[i].op = "DE"
             \/ data[l[i].row] \in KeyOf[p]
             \/ \E j \in T : j > i /\ l[j].row = l[i].row
    BY <1>3 DEF UndoInv, TransPart, ChainPart
  <2>3. ChainPart(p)' <=>
        (InTrans(p)' => \A i \in T' :
          /\ m0[i].op = "IN" =>
               \A j \in T' : m0[j].row = m0[i].row => i <= j
          /\ \/ m0[i].op = "DE"
             \/ data'[m0[i].row] \in KeyOf[p]
             \/ \E j \in T' : j > i /\ m0[j].row = m0[i].row)
    BY DEF ChainPart
  <2> DEFINE U == T'
  <2>4. U = T \union {n}
    BY <1>1
  <2> HIDE DEF T, n, l, m0, U
  <2>5. ASSUME NEW i \in U
        PROVE  /\ m0[i].op = "IN" =>
                    \A j \in U : m0[j].row = m0[i].row => i <= j
               /\ \/ m0[i].op = "DE"
                  \/ data'[m0[i].row] \in KeyOf[p]
                  \/ \E j \in U : j > i /\ m0[j].row = m0[i].row
    <3>1. CASE i = n
      <4>1. m0[i].op = "DE" \/ data'[m0[i].row] \in KeyOf[p]
        BY <1>1, <1>2, <3>1
      <4>2. ASSUME m0[i].op = "IN", NEW j \in U, m0[j].row = m0[i].row
            PROVE  i <= j
        <5>1. j = n
          BY <1>1, <2>1, <2>4, <3>1, <4>2
        <5>2. QED
          BY <1>1, <3>1, <5>1
      <4>3. QED
        BY <4>1, <4>2
    <3>2. CASE i \in T
      <4>1. m0[i] = l[i] /\ i \in Nat /\ i < n
        BY <1>1, <3>2
      <4>2. ASSUME m0[i].op = "IN", NEW j \in U, m0[j].row = m0[i].row
            PROVE  i <= j
        <5>1. CASE j = n
          BY <1>1, <4>1, <5>1
        <5>2. CASE j \in T
          BY <1>1, <2>2, <3>2, <4>1, <4>2, <5>2
        <5>3. QED
          BY <2>4, <5>1, <5>2
      <4>3. \/ m0[i].op = "DE"
            \/ data'[m0[i].row] \in KeyOf[p]
            \/ \E j \in U : j > i /\ m0[j].row = m0[i].row
        <5>1. CASE l[i].row = r
          <6>1. n \in U /\ n > i /\ m0[n].row = m0[i].row
            BY <1>1, <2>4, <4>1, <5>1
          <6>2. QED
            BY <6>1
        <5>2. CASE l[i].row # r
          <6>1. data'[l[i].row] = data[l[i].row]
            BY <1>1, <1>2, <3>2, <5>2
          <6>2. CASE \E j \in T : j > i /\ l[j].row = l[i].row
            BY <1>1, <2>4, <4>1, <6>2
          <6>3. QED
            BY <2>2, <3>2, <4>1, <6>1, <6>2
        <5>3. QED
          BY <5>1, <5>2
      <4>4. QED
        BY <4>2, <4>3
    <3>3. QED
      BY <2>4, <3>1, <3>2
  <2>6. QED
    BY <2>3, <2>5 DEF U
<1>6. ASSUME NEW m \in Nat, NEW x \in Row
      PROVE  /\ m >= n => Snap(p, m, x)' = data'[x]
             /\ m < n => Snap(p, m, x)' = Snap(p, m, x)
  <2>1. /\ Snap(p, m, x)' = SnapOf(m0, data', T \union {n}, m, x)
        /\ Snap(p, m, x) = SnapOf(l, data, T, m, x)
    BY <1>1 DEF Snap
  <2> DEFINE d == data
             e == data'
  <2>2. LastDone(l, m0, d, e, T, n)
    BY <1>1, <1>2 DEF LastDone
  <2> HIDE DEF T, n, l, m0, d, e
  <2>3. /\ m >= n => SnapOf(m0, e, T \union {n}, m, x) = e[x]
        /\ m < n => SnapOf(m0, e, T \union {n}, m, x) = SnapOf(l, d, T, m, x)
    BY <2>2, SnapMore
  <2>4. QED
    BY <2>1, <2>3 DEF d, e
<1>7. SnapPart(p)'
  <2> SUFFICES ASSUME NEW m \in Nat, NEW y \in Row,
                      NEW s \in Row, y # s, Snap(p, m, y)' \in KeyOf[p],
                      Snap(p, m, s)' = Snap(p, m, y)'
               PROVE  FALSE
    BY DEF SnapPart
  <2>0. NoKey \notin KeyOf[p]
    BY TransAssumption
  <2>1. CASE m >= n
    BY <1>6, <2>0, <2>1 DEF KeysUnique
  <2>2. CASE m < n
    <3>1. Snap(p, m, y) \in KeyOf[p] /\ Snap(p, m, s) = Snap(p, m, y)
      BY <1>6, <2>2
    <3>2. CASE InTrans(p)
      BY <3>1, <3>2 DEF UndoInv, TransPart, SnapPart
    <3>3. CASE ~InTrans(p)
      <4>1. T = {}
        BY <1>3, <3>3
      <4>2. \A x \in Row : Snap(p, m, x) = data[x]
        <5>1. m \in Int
          OBVIOUS
        <5>2. QED
          BY <4>1, <5>1, SnapLast DEF Snap
      <4>3. QED
        BY <2>0, <3>1, <4>2 DEF KeysUnique
    <3>4. QED
      BY <3>2, <3>3
  <2>3. QED
    BY <1>1, <2>1, <2>2
<1>8. QED
  BY <1>5, <1>7

(* The row of a change is locked by the process.                           *)
LEMMA FreeChange ==
  ASSUME TypeInv, UndoInv, Istrans, NEW p \in Proc, ActionOf(p),
         NEW op, NEW r \in Row, NEW old, ChangeView(p, op, r, old),
         CanChange(p), rowlock' = LockRow(p, r)
  PROVE  FreePart(p)'
<1> SUFFICES ASSUME NEW x \in Row, Owns(p, x)'
             PROVE  rowlock'[x] \in {p, NoProc}
  BY DEF FreePart
<1>1. /\ rowlock' = [rowlock EXCEPT ![r] = p]
      /\ rowlock \in [Row -> Proc \union {NoProc}]
  BY DEF LockRow, Locks, CanChange, TypeInv
<1>2. CASE x = r
  BY <1>1, <1>2
<1>3. CASE x # r
  <2>1. Owns(p, x)
    <3>1. PICK i \in ToGo(p)' : log'[i].row = x
      BY DEF Owns
    <3>2. i \in ToGo(p) /\ log[i].row = x
      BY <1>3, <3>1 DEF ChangeView
    <3>3. QED
      BY <3>2 DEF Owns, ToGo, Active, InTrans, CanChange
  <2>2. QED
    BY <1>1, <1>3, <2>1 DEF UndoInv, TransPart, FreePart
<1>4. QED
  BY <1>2, <1>3

(* After a change all changes are to go, and lead back to Before.          *)
LEMMA DoneChange ==
  ASSUME TypeInv, NEW p \in Proc, NEW op, NEW r, NEW old,
         ChangeView(p, op, r, old)
  PROVE  DonePart(p)'
<1> DEFINE T == ToGo(p)'
           l == log'
           d == data'
<1>1. T = Changes(p)' /\ Positive(T)
  BY ToGoFacts DEF ChangeView, Positive
<1>2. ASSUME NEW x, \E j \in T : l[j].row = x
      PROVE  Snap(p, 0, x)' = Before(p, x)'
  <2>1. /\ Snap(p, 0, x)' = SnapOf(l, d, T, 0, x)
        /\ Before(p, x)' = FirstOld(l, T, x)
    BY <1>1 DEF Snap, Before, FirstOld
  <2> HIDE DEF T, l, d
  <2>2. SnapOf(l, d, T, 0, x) = FirstOld(l, T, x)
    BY <1>1, <1>2, SnapAll
  <2>3. QED
    BY <2>1, <2>2
<1>3. QED
  BY <1>1, <1>2 DEF DonePart, Touched

(* A call that changes no row and no account leaves all as it was.         *)
LEMMA SameUndo ==
  ASSUME TypeInv, UndoInv, NEW p \in Proc, RestOf(p), ActionOf(p),
         data' = data,
         ToGo(p)' = ToGo(p), \A i \in ToGo(p) : log'[i] = log[i],
         \/ InTrans(p)' = InTrans(p) /\ log' = log
         \/ InTrans(p) /\ ToGo(p) = Changes(p)
  PROVE  TransPart(p)'
<1> DEFINE T == ToGo(p)
<1>0. /\ T \in SUBSET Nat /\ T \subseteq Changes(p)
      /\ SameOn(log, log', T) /\ (InTrans(p)' => InTrans(p))
  BY ToGoFacts DEF SameOn
<1>1. ChainPart(p)'
  <2>1. InTrans(p)' => \A i \in T :
          /\ log[i].op = "IN" =>
               \A j \in T : log[j].row = log[i].row => i <= j
          /\ \/ log[i].op = "DE"
             \/ data[log[i].row] \in KeyOf[p]
             \/ \E j \in T : j > i /\ log[j].row = log[i].row
    BY <1>0 DEF UndoInv, TransPart, ChainPart
  <2>2. ChainPart(p)' <=>
        (InTrans(p)' => \A i \in T :
          /\ log'[i].op = "IN" =>
               \A j \in T : log'[j].row = log'[i].row => i <= j
          /\ \/ log'[i].op = "DE"
             \/ data'[log'[i].row] \in KeyOf[p]
             \/ \E j \in T : j > i /\ log'[j].row = log'[i].row)
    BY DEF ChainPart
  <2>3. data' = data /\ \A i \in T : log'[i] = log[i]
    OBVIOUS
  <2> HIDE DEF T
  <2>4. QED
    BY <2>1, <2>2, <2>3
<1>2. ASSUME NEW m \in Nat, NEW x PROVE Snap(p, m, x)' = Snap(p, m, x)
  <2>1. /\ Snap(p, m, x)' = SnapOf(log', data, T, m, x)
        /\ Snap(p, m, x) = SnapOf(log, data, T, m, x)
    BY DEF Snap
  <2> HIDE DEF T
  <2>2. \/ SnapOf(log', data, T, m, x) = SnapOf(log, data, T, m, x)
        \/ /\ SnapOf(log', data, T, m, x) = data[x]
           /\ SnapOf(log, data, T, m, x) = data[x]
    BY <1>0, SnapKept
  <2>3. QED
    BY <2>1, <2>2
<1>3. SnapPart(p)'
  BY <1>0, <1>2 DEF UndoInv, TransPart, SnapPart
<1>4. \A x : Owns(p, x)' => Owns(p, x)
  <2>1. \A i \in T : log'[i] = log[i]
    OBVIOUS
  <2>2. QED
    BY <1>0, <2>1 DEF Owns
<1>5. DonePart(p)'
  <2> SUFFICES ASSUME InTrans(p)', NEW x \in Touched(p)'
               PROVE  \/ Snap(p, 0, x)' = Before(p, x)'
                      \/ /\ Before(p, x)' = NoKey
                         /\ Snap(p, 0, x)' \notin KeyOf[p] /\ ~Owns(p, x)'
    BY DEF DonePart
  <2>1. x \in Touched(p) /\ Changes(p)' = Changes(p)
    BY RestLog
  <2>2. \/ Snap(p, 0, x) = Before(p, x)
        \/ /\ Before(p, x) = NoKey
           /\ Snap(p, 0, x) \notin KeyOf[p] /\ ~Owns(p, x)
    BY <1>0, <2>1 DEF UndoInv, TransPart, DonePart
  <2>3. Before(p, x)' = Before(p, x)
    <3> DEFINE C == Changes(p)
               A == {i \in C : log[i].row = x}
    <3>1. \A i \in C : log'[i] = log[i] /\ i \in Nat
      <4>1. \A i \in C : i \in 1..Len(log)
        BY ChangesFacts
      <4>2. Len(log) \in Nat
        BY DEF TypeInv, LogPart
      <4>3. QED
        BY <4>1, <4>2, RestLog
    <3>2. Before(p, x) = log[Min(A)].old /\ Before(p, x)' = log'[Min(A)].old
      <4>1. {i \in C : log'[i].row = x} = A
        BY <3>1
      <4>2. QED
        BY <2>1, <4>1 DEF Before
    <3>3. A \in SUBSET Nat /\ A # {} /\ A \subseteq C
      BY <2>1, <3>1 DEF Touched
    <3> HIDE DEF A, C
    <3>4. Min(A) \in C
      BY <3>3, MinNumber
    <3>5. QED
      BY <3>1, <3>2, <3>4
  <2>4. QED
    BY <1>2, <1>4, <2>2, <2>3
<1>6. FreePart(p)'
  BY <1>4, LocksMove DEF UndoInv, TransPart, FreePart
<1>7. QED
  BY <1>1, <1>3, <1>5, <1>6 DEF TransPart

(* An undo goes one change back.                                           *)
LEMMA BackUndo ==
  ASSUME TypeInv, SafeInv, UndoInv, PidsDistinct, NEW p \in Proc, Undo(p)
  PROVE  TransPart(p)'
<1> DEFINE a == at[p]
           l == log
           r == log[a].row
           o == log[a].old
           T == ToGo(p)
           d == data
           e == data'
<1>1. /\ Walking(p, "rollback") /\ Step(p) /\ log' = log
      /\ ivbintrans' = ivbintrans
      /\ data' = [data EXCEPT ![r] = o] /\ data \in [Row -> Value]
  BY UndoData DEF TypeInv
<1>2. /\ r \in Row
      /\ l[a].op = "IN" => o = NoKey
      /\ l[a].op # "IN" => o \in KeyOf[p]
  BY <1>1, CanUndo
<1>3. /\ StepView(p) /\ InTrans(p) /\ a # 0 /\ a \in Nat
      /\ T \in SUBSET Nat /\ T \subseteq Changes(p)
  BY <1>1, WalkSteps, WalkAt, ToGoFacts DEF SafeInv
<1>4. /\ a \in T /\ (\A i \in T : i <= a) /\ ToGo(p)' = T \ {a}
  BY <1>3 DEF StepView
<1>5. /\ e[r] = o /\ (\A y \in Row : y # r => e[y] = d[y])
  BY <1>1, <1>2
<1>6. LastUndone(l, d, e, T, a)
  BY <1>3, <1>4, <1>5 DEF LastUndone
<1>7. \A i \in T : l[i].row \in Row
  BY <1>3, ChangesFacts
<1>8. \A i \in T :
        /\ l[i].op = "IN" => \A j \in T : l[j].row = l[i].row => i <= j
        /\ \/ l[i].op = "DE"
           \/ d[l[i].row] \in KeyOf[p]
           \/ \E j \in T : j > i /\ l[j].row = l[i].row
  BY <1>3 DEF UndoInv, TransPart, ChainPart
<1>9. ChainPart(p)'
  <2>1. ChainPart(p)' <=>
        (InTrans(p)' => \A i \in T \ {a} :
          /\ l[i].op = "IN" =>
               \A j \in T \ {a} : l[j].row = l[i].row => i <= j
          /\ \/ l[i].op = "DE"
             \/ e[l[i].row] \in KeyOf[p]
             \/ \E j \in T \ {a} : j > i /\ l[j].row = l[i].row)
    BY <1>1, <1>4 DEF ChainPart
  <2> HIDE DEF T, e, d, l, a
  <2>2. ASSUME NEW i \in T \ {a}
        PROVE  \/ l[i].op = "DE"
               \/ e[l[i].row] \in KeyOf[p]
               \/ \E j \in T \ {a} : j > i /\ l[j].row = l[i].row
    <3>1. CASE l[i].row = r
      <4>1. l[a].op # "IN"
        <5>1. ~(a <= i)
          BY <1>3, <1>4
        <5>2. QED
          BY <1>4, <1>8, <3>1, <5>1 DEF l, a
      <4>2. e[l[i].row] \in KeyOf[p]
        BY <1>2, <1>5, <3>1, <4>1
      <4>3. QED
        BY <4>2
    <3>2. CASE l[i].row # r
      <4>1. e[l[i].row] = d[l[i].row]
        BY <1>5, <1>7, <3>2
      <4>2. l[a].row # l[i].row
        BY <3>2 DEF l, a
      <4>3. QED
        BY <1>8, <4>1, <4>2
    <3>3. QED
      BY <3>1, <3>2
  <2>3. QED
    BY <1>8, <2>1, <2>2
<1>10. ASSUME NEW m \in Nat, NEW x \in Row
       PROVE  /\ m >= a => Snap(p, m, x)' = Snap(p, a - 1, x)
              /\ m < a => Snap(p, m, x)' = Snap(p, m, x)
  <2>1. /\ Snap(p, m, x)' = SnapOf(l, e, T \ {a}, m, x)
        /\ Snap(p, m, x) = SnapOf(l, d, T, m, x)
        /\ Snap(p, a - 1, x) = SnapOf(l, d, T, a - 1, x)
    BY <1>1, <1>4 DEF Snap
  <2> DEFINE b == a - 1
  <2>2. b = a - 1
    OBVIOUS
  <2> HIDE DEF T, e, d, l, a, b
  <2>3. SnapOf(l, d, T, b, x) = e[x]
    BY <1>6, <2>2, SnapUndone
  <2>4. /\ m >= a => SnapOf(l, e, T \ {a}, m, x) = e[x]
        /\ m < a => SnapOf(l, e, T \ {a}, m, x) = SnapOf(l, d, T, m, x)
    BY <1>6, SnapLess
  <2>5. QED
    BY <2>1, <2>2, <2>3, <2>4
<1>11. SnapPart(p)'
  <2> SUFFICES ASSUME NEW m \in Nat, NEW y \in Row, NEW s \in Row, y # s,
                      Snap(p, m, y)' \in KeyOf[p],
                      Snap(p, m, s)' = Snap(p, m, y)'
               PROVE  FALSE
    BY DEF SnapPart
  <2>1. \A j \in Nat : Snap(p, j, y) \in KeyOf[p]
                         => Snap(p, j, s) # Snap(p, j, y)
    BY <1>3 DEF UndoInv, TransPart, SnapPart
  <2>2. a - 1 \in Nat /\ (m >= a \/ m < a)
    BY <1>3
  <2> DEFINE b == a - 1
  <2>3. /\ m >= a => /\ Snap(p, m, y)' = Snap(p, b, y)
                     /\ Snap(p, m, s)' = Snap(p, b, s)
        /\ m < a => /\ Snap(p, m, y)' = Snap(p, m, y)
                    /\ Snap(p, m, s)' = Snap(p, m, s)
    BY <1>10
  <2>4. b \in Nat
    BY <2>2
  <2> HIDE DEF b, a
  <2>5. QED
    BY <2>1, <2>2, <2>3, <2>4
<1>12. \A x : Owns(p, x)' => Owns(p, x)
  BY <1>1, <1>3, <1>4 DEF Owns
<1>13. DonePart(p)'
  <2>1. Touched(p)' = Touched(p) /\ \A x : Before(p, x)' = Before(p, x)
    BY <1>1 DEF Touched, Before, Changes, Start
  <2>2. Touched(p) \subseteq Row
    BY ChangesFacts DEF Touched
  <2>3. 0 < a
    BY <1>3
  <2>4. \A x \in Touched(p) : Snap(p, 0, x)' = Snap(p, 0, x)
    BY <1>10, <2>2, <2>3
  <2>5. \A x \in Touched(p) :
          \/ Snap(p, 0, x) = Before(p, x)
          \/ /\ Before(p, x) = NoKey
             /\ Snap(p, 0, x) \notin KeyOf[p] /\ ~Owns(p, x)
    BY <1>3 DEF UndoInv, TransPart, DonePart
  <2>6. QED
    BY <1>12, <2>1, <2>4, <2>5 DEF DonePart
<1>14. FreePart(p)'
  <2>1. ActionOf(p)
    BY DEF Undo, ActionOf
  <2>2. QED
    BY <1>12, <2>1, LocksMove DEF UndoInv, TransPart, FreePart
<1>15. QED
  BY <1>9, <1>11, <1>13, <1>14 DEF TransPart

(* What a process does keeps its own way back.                             *)
LEMMA OwnUndo ==
  ASSUME TypeInv, SafeInv, UndoInv, KeysUnique, KeysUnique', Istrans, ~Busy,
         PidsDistinct, NEW p \in Proc, ActionOf(p)
  PROVE  TransPart(p)'
<1>0. /\ data \in [Row -> Value] /\ space \in Space
      /\ AllDeleted \in SUBSET Row
      /\ \A x \in Row : x \notin AllDeleted => x \notin Deleted(p)
      /\ Good(space, data, AllDeleted) /\ Own(p) /\ PidPart
      /\ \A k \in KeyOf[p] : k \in Value /\ k # NoKey
      /\ ivbintrans \in [Proc -> Modes]
  BY DeletedFacts, TransAssumption DEF TypeInv, SafeInv, AllDeleted, Value
<1>1. ASSUME NEW op \in {"IN", "DE", "UP"}, NEW r \in Row, CanChange(p),
             Logged(p, op, r, data[r]), r \notin Deleted(p),
             NEW k \in Value, data' = [data EXCEPT ![r] = k],
             op # "DE" => k \in KeyOf[p], op = "IN" => data[r] = NoKey,
             rowlock' = LockRow(p, r)
      PROVE  TransPart(p)'
  <2>1. data[r] \in Value /\ ivbintrans[p] \in {"begin", "needflush"}
    BY <1>0, <1>1 DEF CanChange
  <2>2. ChangeView(p, op, r, data[r])
    BY <1>1, <2>1, ChangeFacts
  <2>3. ChainPart(p)' /\ SnapPart(p)'
    BY <1>1, <2>1, <2>2, ChangeUndo
  <2>4. DonePart(p)'
    BY <2>2, DoneChange
  <2>5. FreePart(p)'
    BY <1>1, <2>2, FreeChange
  <2>6. QED
    BY <2>3, <2>4, <2>5 DEF TransPart
<1>2. ASSUME ~InTrans(p)' PROVE TransPart(p)'
  BY <1>2 DEF TransPart, ChainPart, SnapPart, DonePart, FreePart, Owns
<1>3. CASE iswrite(p)
  <2> DEFINE r == NextRow(space)
  <2>1. r \in Row
    BY <1>0, <1>3, TakenType DEF iswrite
  <2>2. data[r] = NoKey /\ r \notin AllDeleted
    BY <1>0, <2>1, GoodTaken
  <2>3. \/ \E k \in KeyOf[p] : /\ data' = [data EXCEPT ![r] = k]
                               /\ CanChange(p) /\ Logged(p, "IN", r, NoKey)
                               /\ rowlock' = LockRow(p, r)
        \/ UNCHANGED <<data, log, ivbintrans, at>>
    BY <1>3 DEF iswrite
  <2>4. CASE \E k \in KeyOf[p] :
               /\ data' = [data EXCEPT ![r] = k]
               /\ CanChange(p) /\ Logged(p, "IN", r, NoKey)
               /\ rowlock' = LockRow(p, r)
    <3> HIDE DEF r
    <3>1. QED
      BY <1>0, <1>1, <2>1, <2>2, <2>4
  <2>5. CASE UNCHANGED <<data, log, ivbintrans, at>>
    <3>1. RestOf(p)
      BY <1>3, <2>5 DEF RestOf
    <3>2. ToGo(p)' = ToGo(p) /\ InTrans(p)' = InTrans(p)
      BY <2>5 DEF ToGo, Active, Top, Changes, Start, InTrans
    <3>3. data' = data /\ log' = log
      BY <2>5
    <3>4. QED
      BY <3>1, <3>2, <3>3, SameUndo
  <2>6. QED
    BY <2>3, <2>4, <2>5
<1>4. CASE isdelete(p)
  <2>1. PICK r \in Row : /\ data' = [data EXCEPT ![r] = NoKey]
                         /\ CanChange(p) /\ data[r] \in KeyOf[p]
                         /\ Logged(p, "DE", r, data[r])
                         /\ rowlock' = LockRow(p, r)
    BY <1>4 DEF isdelete
  <2>2. r \notin Deleted(p) /\ NoKey \in Value
    BY <1>0, <2>1 DEF Good, Value
  <2>3. QED
    BY <1>1, <2>1, <2>2
<1>5. CASE isrewrite(p)
  <2>1. PICK r \in Row, k \in KeyOf[p] :
               /\ data' = [data EXCEPT ![r] = k]
               /\ CanChange(p) /\ data[r] \in KeyOf[p]
               /\ Logged(p, "UP", r, data[r]) /\ rowlock' = LockRow(p, r)
    BY <1>5 DEF isrewrite
  <2>2. r \notin Deleted(p) /\ k \in Value
    BY <1>0, <2>1 DEF Good
  <2>3. QED
    BY <1>1, <2>1, <2>2
<1>6. CASE Undo(p)
  BY <1>6, BackUndo
<1>7. CASE isrollback(p)
  <2>1. /\ ivbintrans[p] = "needflush" /\ ivbintrans'[p] = "rollback"
        /\ at'[p] = Prev(p, Len(log) + 1) /\ data' = data /\ RestOf(p)
    BY <1>0, <1>7 DEF isrollback, TypeInv, RestOf
  <2>2. SameView(p) /\ ToGo(p) = Changes(p) /\ InTrans(p)
    BY <1>0, <2>1, WalkBegins DEF InTrans
  <2>3. QED
    BY <2>1, <2>2, SameUndo DEF SameView
<1>8. CASE \/ isbegin(p) \/ iscommit(p) \/ CommitStep(p) \/ CommitEnd(p)
           \/ RollbackEnd(p)
  <2>1. ivbintrans'[p] \in {"none", "begin", "commit"}
    BY <1>0, <1>8 DEF isbegin, iscommit, CommitStep, CommitEnd, RollbackEnd,
                      Walking, End
  <2>2. ~InTrans(p)'
    BY <2>1 DEF InTrans
  <2>3. QED
    BY <1>2, <2>2
<1>9. CASE OnHandle(p)
  <2>1. UNCHANGED <<data, log, ivbintrans, at>> /\ RestOf(p)
    BY <1>9, HandleKeeps DEF RestOf
  <2>2. ToGo(p)' = ToGo(p) /\ InTrans(p)' = InTrans(p)
    BY <2>1 DEF ToGo, Active, Top, Changes, Start, InTrans
  <2>3. QED
    BY <2>1, <2>2, SameUndo
<1>10. ~UndoFails(p)
  BY NeverFails
<1>11. QED
  BY <1>3, <1>4, <1>5, <1>6, <1>7, <1>8, <1>9, <1>10 DEF ActionOf, Undo

(* The old values the log keeps.                                           *)
OldRec(e) ==
  /\ e.op = "IN" => e.old = NoKey
  /\ e.op \in {"UP", "DE"} => e.old \in KeyOf[e.proc]

(* A record more keeps what is known of the old values.                    *)
LEMMA OldAdded ==
  ASSUME NEW l \in Seq(Rec), NEW m, NEW e, Added(l, m, e), OldRec(e),
         \A i \in 1..Len(l) : OldRec(l[i])
  PROVE  \A i \in 1..Len(m) : OldRec(m[i])
<1>1. Grown(l, m) /\ \A i \in 1..Len(m) : i > Len(l) => m[i] = e
  BY AddedGrown
<1>2. Len(l) \in Nat
  OBVIOUS
<1>3. ASSUME NEW i \in 1..Len(m) PROVE OldRec(m[i])
  <2>1. CASE i > Len(l)
    BY <1>1, <2>1
  <2>2. CASE ~(i > Len(l))
    <3>1. i \in 1..Len(l)
      BY <1>2, <2>2
    <3>2. QED
      BY <1>1, <3>1 DEF Grown
  <2>3. QED
    BY <2>1, <2>2
<1>4. QED
  BY <1>3

(* The old value of an insert is NoKey, that of other changes a key of their*)
(* process.                                                                *)
LEMMA OldStep ==
  ASSUME TypeInv, OldPart, NEW p \in Proc, ActionOf(p)
  PROVE  OldPart'
<1>0. /\ log \in Seq(Rec) /\ \A i \in 1..Len(log) : OldRec(log[i])
      /\ NoKey \in Value
  BY DEF TypeInv, LogPart, OldPart, OldRec, Value
<1>1. ASSUME NEW op \in {"IN", "DE", "UP"}, NEW r \in Row, NEW old \in Value,
             Logged(p, op, r, old),
             op = "IN" => old = NoKey, op # "IN" => old \in KeyOf[p]
      PROVE  OldPart'
  <2> DEFINE e == Record(p, op, r, old)
             b == Record(p, "BW", 0, NoKey)
  <2>1. OldRec(e) /\ OldRec(b)
    BY <1>1 DEF OldRec, Record
  <2>2. LoggedAs(p, e)
    BY <1>0, <1>1, LoggedAdds
  <2>3. \/ Added(log, log', e)
        \/ \E l \in Seq(Rec) : Added(log, l, b) /\ Added(l, log', e)
    BY <2>2 DEF LoggedAs
  <2> HIDE DEF e, b
  <2>4. CASE Added(log, log', e)
    <3>1. \A i \in 1..Len(log') : OldRec(log'[i])
      BY <1>0, <2>1, <2>4, OldAdded
    <3>2. QED
      BY <3>1 DEF OldPart, OldRec
  <2>5. CASE \E l \in Seq(Rec) : Added(log, l, b) /\ Added(l, log', e)
    <3>1. PICK l \in Seq(Rec) : Added(log, l, b) /\ Added(l, log', e)
      BY <2>5
    <3>2. \A i \in 1..Len(l) : OldRec(l[i])
      BY <1>0, <2>1, <3>1, OldAdded
    <3>3. \A i \in 1..Len(log') : OldRec(log'[i])
      BY <2>1, <3>1, <3>2, OldAdded
    <3>4. QED
      BY <3>3 DEF OldPart, OldRec
  <2>6. QED
    BY <2>3, <2>4, <2>5
<1>2. CASE iswrite(p)
  <2>1. NextRow(space) \in Row
    BY <1>2, TakenType DEF iswrite, TypeInv
  <2>2. log' = log \/ Logged(p, "IN", NextRow(space), NoKey)
    BY <1>2 DEF iswrite
  <2>3. QED
    BY <1>0, <1>1, <2>1, <2>2 DEF OldPart
<1>3. CASE isdelete(p) \/ isrewrite(p)
  <2>1. \E r \in Row, op \in {"DE", "UP"} :
          Logged(p, op, r, data[r]) /\ data[r] \in KeyOf[p]
    BY <1>3 DEF isdelete, isrewrite
  <2>2. \A r \in Row : data[r] \in Value
    BY DEF TypeInv
  <2>3. QED
    BY <1>1, <2>1, <2>2
<1>4. CASE isrollback(p) \/ CommitEnd(p)
  <2>1. PICK op \in {"CW", "RW"} : log' = Append(log, Record(p, op, 0, NoKey))
    BY <1>4 DEF isrollback, CommitEnd
  <2> DEFINE e == Record(p, op, 0, NoKey)
  <2>2. Added(log, log', e)
    BY <2>1, AppendType
  <2>3. OldRec(e)
    BY DEF OldRec, Record
  <2> HIDE DEF e
  <2>4. \A i \in 1..Len(log') : OldRec(log'[i])
    BY <1>0, <2>2, <2>3, OldAdded
  <2>5. QED
    BY <2>4 DEF OldPart, OldRec
<1>5. CASE \/ isbegin(p) \/ iscommit(p) \/ CommitStep(p) \/ UndoInsert(p)
           \/ UndoUpdate(p) \/ UndoDelete(p) \/ UndoFails(p)
           \/ RollbackEnd(p) \/ OnHandle(p)
  <2>1. log' = log
    BY <1>5, HandleKeeps DEF isbegin, iscommit, CommitStep, UndoInsert,
                UndoUpdate, UndoDelete, UndoFails, RollbackEnd
  <2>2. QED
    BY <2>1 DEF OldPart
<1>6. QED
  BY <1>2, <1>3, <1>4, <1>5 DEF ActionOf

(* Everything a rollback relies on, under the conditions it relies on it.  *)
Reliable == Istrans /\ ~Busy /\ PidsDistinct /\ KeysApart

(* Every action keeps UndoInv.                                             *)
LEMMA UndoStep ==
  ASSUME TypeInv, SafeInv, UndoInv, KeysUnique, KeysUnique', Reliable,
         NEW p \in Proc, ActionOf(p)
  PROVE  UndoInv'
<1>1. OldPart'
  BY OldStep DEF UndoInv
<1>2. CoverInv'
  <2>1. OldKeys
    <3>1. ASSUME NEW i \in 1..Len(log), log[i].op \in {"UP", "DE"}
          PROVE  log[i].old # NoKey
      <4>1. log[i] \in Rec
        BY ElementOfSeq DEF TypeInv, LogPart
      <4>2. log[i].old \in KeyOf[log[i].proc] /\ log[i].proc \in Proc
        BY <3>1, <4>1 DEF UndoInv, OldPart, Rec
      <4>3. QED
        BY <4>2, TransAssumption
    <3>2. QED
      BY <3>1 DEF OldKeys
  <2>2. Accounted(p) /\ ~UndoFails(p)
    BY SafeStep, NeverFails DEF Reliable
  <2>3. QED
    BY <2>1, <2>2 DEF Accounted, UndoInv
<1>3. \A q \in Proc : TransPart(q)'
  BY OthersUndo, OwnUndo DEF Reliable
<1>4. QED
  BY <1>1, <1>2, <1>3 DEF UndoInv

(* A stuttering step keeps UndoInv.                                        *)
LEMMA UndoStutter ==
  ASSUME UndoInv, SafeInv, UNCHANGED vars PROVE UndoInv'
<1>1. /\ log' = log /\ ivbintrans' = ivbintrans /\ data' = data
      /\ space' = space /\ AllDeleted' = AllDeleted /\ rowlock' = rowlock
  BY SafeStutter DEF vars
<1>2. OldPart' /\ CoverInv'
  BY <1>1 DEF UndoInv, OldPart, CoverInv
<1>3. ASSUME NEW p \in Proc PROVE TransPart(p)'
  <2>1. /\ ToGo(p)' = ToGo(p) /\ InTrans(p)' = InTrans(p)
        /\ Touched(p)' = Touched(p) /\ Changes(p)' = Changes(p)
    BY <1>1, Stutter DEF InTrans
  <2>2. ChainPart(p)'
    <3> DEFINE T == ToGo(p)
    <3>1. InTrans(p) => \A i \in T :
            /\ log[i].op = "IN" =>
                 \A j \in T : log[j].row = log[i].row => i <= j
            /\ \/ log[i].op = "DE"
               \/ data[log[i].row] \in KeyOf[p]
               \/ \E j \in T : j > i /\ log[j].row = log[i].row
      BY DEF UndoInv, TransPart, ChainPart
    <3>2. ChainPart(p)' <=>
          (InTrans(p)' => \A i \in T :
            /\ log'[i].op = "IN" =>
                 \A j \in T : log'[j].row = log'[i].row => i <= j
            /\ \/ log'[i].op = "DE"
               \/ data'[log'[i].row] \in KeyOf[p]
               \/ \E j \in T : j > i /\ log'[j].row = log'[i].row)
      BY <2>1 DEF ChainPart
    <3> HIDE DEF T
    <3>3. QED
      BY <1>1, <2>1, <3>1, <3>2
  <2>3. \A m, r : Snap(p, m, r)' = Snap(p, m, r)
    BY <1>1, <2>1 DEF Snap
  <2>4. \A r : Before(p, r)' = Before(p, r)
    BY <1>1, <2>1 DEF Before
  <2>5. \A r : Owns(p, r)' <=> Owns(p, r)
    BY <1>1, <2>1 DEF Owns
  <2>6. TransPart(p)
    BY DEF UndoInv
  <2>7. SnapPart(p)' /\ DonePart(p)' /\ FreePart(p)'
    BY <1>1, <2>1, <2>3, <2>4, <2>5, <2>6
       DEF TransPart, SnapPart, DonePart, FreePart
  <2>8. QED
    BY <2>2, <2>7 DEF TransPart
<1>4. QED
  BY <1>2, <1>3 DEF UndoInv

(* UndoInv holds in every state.                                           *)
LEMMA UndoInvariant ==
  ASSUME Reliable PROVE Spec => []UndoInv
<1>1. Init => UndoInv
  <2> SUFFICES ASSUME Init PROVE UndoInv
    OBVIOUS
  <2>1. \A p \in Proc : ~InTrans(p)
    BY DEF Init, InTrans
  <2>2. OldPart /\ CoverInv
    BY DEF Init, OldPart, CoverInv, Covered
  <2>3. QED
    BY <2>1, <2>2
       DEF UndoInv, TransPart, ChainPart, SnapPart, DonePart, FreePart, Owns
<1>2. TypeInv /\ SafeInv /\ UndoInv /\ KeysUnique /\ KeysUnique' /\ [Next]_vars
        => UndoInv'
  <2> SUFFICES ASSUME TypeInv, SafeInv, UndoInv, KeysUnique, KeysUnique',
                      [Next]_vars
               PROVE  UndoInv'
    OBVIOUS
  <2>1. CASE UNCHANGED vars
    BY <2>1, UndoStutter
  <2>2. CASE Next
    <3>1. \E p \in Proc : ActionOf(p)
      BY <2>2, NextIs
    <3>2. QED
      BY <3>1, UndoStep
  <2>3. QED
    BY <2>1, <2>2
<1>3. Spec => []SafeInv
  BY SafeInvariant DEF Reliable
<1>4. QED
  BY <1>1, <1>2, <1>3, TypeInvariant, PrimaryKeysUnique, PTL DEF Spec

-----------------------------------------------------------------------------
(* Before a commit or rollback all changes of a transaction are to go.     *)
LEMMA AllToGo ==
  ASSUME TypeInv, NEW p, ivbintrans[p] = "needflush"
  PROVE  ToGo(p) = Changes(p)
<1>1. ToGo(p) = {i \in Changes(p) : i <= Len(log)}
  BY DEF ToGo, Active, Top
<1>2. \A i \in Changes(p) : i \in 1..Len(log)
  BY ChangesFacts
<1>3. Len(log) \in Nat
  BY DEF TypeInv, LogPart
<1>4. \A i \in Changes(p) : i <= Len(log)
  BY <1>2, <1>3
<1>5. QED
  BY <1>1, <1>4

(* The rows a rollback has not finished with are those of the changes to   *)
(* go.                                                                     *)
LEMMA UnfinishedIs ==
  ASSUME TypeInv, NEW p
  PROVE  \A x : x \in Unfinished(p) <=> Owns(p, x)
<1>1. CASE ivbintrans[p] = "needflush"
  <2>1. Unfinished(p) = {log[i].row : i \in Changes(p)} /\ InTrans(p)
    BY <1>1 DEF Unfinished, InTrans
  <2>2. QED
    BY <1>1, <2>1, AllToGo DEF Owns
<1>2. CASE ivbintrans[p] = "rollback"
  <2>1. /\ Unfinished(p) = {log[i].row : i \in {j \in Changes(p) : j <= at[p]}}
        /\ InTrans(p)
    BY <1>2 DEF Unfinished, InTrans
  <2>2. ToGo(p) = {j \in Changes(p) : j <= at[p]}
    BY <1>2 DEF ToGo, Active, Top
  <2>3. QED
    BY <2>1, <2>2 DEF Owns
<1>3. CASE ~InTrans(p)
  BY <1>3 DEF Unfinished, Owns
<1>4. QED
  BY <1>1, <1>2, <1>3 DEF InTrans

(* What a transaction keeps (Kept) is what the invariant accounts for as   *)
(* deleted.                                                                *)
LEMMA KeptIs ==
  ASSUME TypeInv, SafeInv, UndoInv, NEW p \in Proc
  PROVE  Kept(p) = Deleted(p)
<1> DEFINE T == ToGo(p)
           D == Deleted(p)
<1>1. /\ ivbintrans[p] \in Modes /\ log \in Seq(Rec) /\ Len(log) \in Nat
      /\ T \in SUBSET Nat /\ \A i \in T : log[i].row \in Row
  <2>1. \A i \in T : log[i].row \in Row
    BY ChangesFacts DEF ToGo
  <2>2. QED
    BY <2>1, ToGoFacts DEF TypeInv, LogPart
<1>2. CASE ivbintrans[p] \in {"none", "begin"}
  BY <1>2 DEF Kept, Unfinished, InTrans, Deleted, ToGo, Active
<1>3. CASE ivbintrans[p] = "commit"
  <2>1. T = {i \in Changes(p) : i <= at[p]}
    BY <1>3 DEF ToGo, Active, Top
  <2>2. Kept(p) = {log[i].row :
                     i \in {j \in Changes(p) : j <= at[p] /\ log[j].op = "DE"}}
    BY <1>3 DEF Kept
  <2>3. QED
    BY <2>1, <2>2 DEF Deleted
<1>4. CASE InTrans(p)
  <2>1. \A r : r \in Unfinished(p) <=> Owns(p, r)
    BY <1>4, UnfinishedIs
  <2>2. \A r \in D : r \in Row /\ data[r] = NoKey /\ Owns(p, r)
    <3>1. D \subseteq AllDeleted
      BY DEF AllDeleted
    <3>2. \A r \in D : r \in Row /\ Owns(p, r)
      BY <1>1, <1>4 DEF Deleted, Owns
    <3>3. QED
      BY <3>1, <3>2 DEF SafeInv, Good
  <2>3. \A r : Owns(p, r) /\ data[r] = NoKey => r \in D
    BY RowState, TransAssumption
  <2>4. Kept(p) = {r \in Unfinished(p) : data[r] = NoKey}
    BY <1>4 DEF Kept, InTrans
  <2>5. Kept(p) = D
    <3> HIDE DEF D
    <3>1. QED
      BY <2>1, <2>2, <2>3, <2>4
  <2>6. QED
    BY <2>5
<1>5. QED
  BY <1>1, <1>2, <1>3, <1>4 DEF Modes, InTrans

(* RowsAccounted: every row below the count holds data, is on the free list*)
(* or is kept by a transaction for its commit or rollback, and is one of   *)
(* these only. No row is lost and none is given out twice, through any     *)
(* interleaving of changes, commits and rollbacks.                         *)
THEOREM RowsAccountedFor ==
  ASSUME Reliable PROVE Spec => []RowsAccounted
<1>1. TypeInv /\ SafeInv /\ UndoInv => RowsAccounted
  <2> SUFFICES ASSUME TypeInv, SafeInv, UndoInv PROVE RowsAccounted
    OBVIOUS
  <2> DEFINE live == {r \in Row : data[r] # NoKey}
             free == ToSet(space.free)
             kept == UNION {Kept(p) : p \in Proc}
  <2>1. kept = AllDeleted
    BY KeptIs DEF AllDeleted
  <2>2. /\ Good(space, data, AllDeleted) /\ Covered(space, data, AllDeleted)
        /\ AllDeleted \in SUBSET Row
    BY DeletedFacts DEF SafeInv, UndoInv, CoverInv
  <2>3. /\ space.free \in Seq(Row) /\ space.count \in 0..MaxRow
        /\ DOMAIN space.free = 1..Len(space.free)
        /\ \A i \in 1..Len(space.free) : space.free[i] \in Row
    BY SpaceFacts DEF TypeInv, Space
  <2>4. \A r \in Row : r \in free <=> OnFree(space, r)
    BY <2>3 DEF ToSet, OnFree
  <2>5. \A r \in free : r \in Row
    BY <2>3 DEF ToSet
  <2>6. 1..space.count \subseteq Row /\ \A r \in Row : r \in Nat /\ r > 0
    BY <2>3, TransAssumption DEF Row
  <2> HIDE DEF free
  <2>7. 1..space.count \subseteq live \union free \union AllDeleted
    BY <2>2, <2>4, <2>6 DEF Covered
  <2>8. live \union AllDeleted \subseteq 1..space.count
    <3>1. \A r \in live \union AllDeleted : r <= space.count
      BY <2>2 DEF Good
    <3>2. QED
      BY <2>2, <2>3, <2>6, <3>1
  <2>9. AllDeleted \intersect (live \union free) = {}
    BY <2>2, <2>4, <2>5 DEF Good
  <2>10. QED
    BY <2>1, <2>7, <2>8, <2>9 DEF RowsAccounted, free
<1>2. Spec => []SafeInv
  BY SafeInvariant DEF Reliable
<1>3. QED
  BY <1>1, <1>2, UndoInvariant, TypeInvariant, PTL

-----------------------------------------------------------------------------
(* A rollback that ends has come to its end, with nothing left to undo.    *)
LEMMA EndOfRollback ==
  ASSUME TypeInv, SafeInv, UndoInv, ~Busy, NEW p \in Proc, ActionOf(p),
         ivbintrans[p] = "rollback", ivbintrans'[p] = "none"
  PROVE  RollbackEnd(p) /\ data' = data /\ ToGo(p) = {}
<1>1. ~UndoFails(p)
  BY NeverFails
<1>2. ~(iswrite(p) \/ isdelete(p) \/ isrewrite(p))
  BY DEF iswrite, isdelete, isrewrite, CanChange
<1>3. ~(isbegin(p) \/ iscommit(p) \/ isrollback(p) \/ CommitStep(p)
        \/ CommitEnd(p))
  BY DEF isbegin, iscommit, isrollback, CommitStep, CommitEnd, Walking
<1>4. ~(UndoInsert(p) \/ UndoUpdate(p) \/ UndoDelete(p))
  BY DEF UndoInsert, UndoUpdate, UndoDelete
<1>5. ~OnHandle(p)
  BY HandleKeeps
<1>6. RollbackEnd(p)
  BY <1>1, <1>2, <1>3, <1>4, <1>5 DEF ActionOf
<1>7. ~Walking(p, "rollback") /\ data' = data
  BY <1>6 DEF RollbackEnd
<1>8. ToGo(p) = {}
  BY <1>7, WalkEnds DEF SafeInv
<1>9. QED
  BY <1>6, <1>7, <1>8

(* Where no change of a row is to go, the row is as it is.                 *)
LEMMA SnapNone ==
  ASSUME NEW p, NEW x, \A i \in ToGo(p) : log[i].row # x
  PROVE  Snap(p, 0, x) = data[x]
<1> DEFINE T == ToGo(p)
<1>1. {i \in T : i > 0 /\ log[i].row = x} = {}
  OBVIOUS
<1>2. QED
  BY <1>1 DEF Snap, SnapOf

(* RollbackUndoes: where a rollback is over every row the transaction      *)
(* touched is as it was before it, whether the rows were still locked or   *)
(* not, under the conditions of Reliable; a row that it inserted may be a  *)
(* row of another process by then. (TLC refutes it without distinct keys   *)
(* and without process numbers of two bytes, so these conditions are what  *)
(* keeps the promise of the documentation.)                                *)
THEOREM RollbackIsComplete ==
  ASSUME Reliable PROVE Spec => RollbackUndoes
<1> DEFINE Undone ==
      \A p \in Proc : ivbintrans[p] = "rollback" /\ ivbintrans'[p] = "none"
        => \A r \in Touched(p) :
             \/ data'[r] = Before(p, r)
             \/ Before(p, r) = NoKey /\ data'[r] \notin KeyOf[p]
<1>1. TypeInv /\ SafeInv /\ UndoInv /\ [Next]_vars => [Undone]_vars
  <2> SUFFICES ASSUME TypeInv, SafeInv, UndoInv, Next,
                      NEW p \in Proc, ivbintrans[p] = "rollback",
                      ivbintrans'[p] = "none", NEW r \in Touched(p)
               PROVE  \/ data'[r] = Before(p, r)
                      \/ Before(p, r) = NoKey /\ data'[r] \notin KeyOf[p]
    OBVIOUS
  <2>1. PICK q \in Proc : ActionOf(q)
    BY NextIs
  <2>2. q = p
    <3>1. CASE q # p
      BY <2>1, <3>1, OthersKept DEF KeptFor
    <3>2. QED
      BY <3>1
  <2>3. data' = data /\ ToGo(p) = {}
    BY <2>1, <2>2, EndOfRollback DEF Reliable
  <2>4. Snap(p, 0, r) = data[r]
    BY <2>3, SnapNone
  <2>5. \/ Snap(p, 0, r) = Before(p, r)
        \/ Before(p, r) = NoKey /\ Snap(p, 0, r) \notin KeyOf[p]
    BY DEF UndoInv, TransPart, DonePart, InTrans
  <2>6. QED
    BY <2>3, <2>4, <2>5
<1>2. Spec => []SafeInv
  BY SafeInvariant DEF Reliable
<1>3. Spec => [][Undone]_vars
  <2> HIDE DEF Undone
  <2>1. QED
    BY <1>1, <1>2, UndoInvariant, TypeInvariant, PTL DEF Spec
<1>4. QED
  BY <1>3 DEF RollbackUndoes

-----------------------------------------------------------------------------
(* The transactions keep the promises of VBAtomic.  A row is owned by the  *)
(* transaction that changed it, until the first change of it is undone; its*)
(* view of a row is what a rollback makes of it.                           *)
View(p, x) == IF Owns(p, x) THEN Before(p, x) ELSE data[x]

(* The rows of the table a transaction has pending.                        *)
Rows(p) == IF ivbintrans[p] = "needflush" THEN Touched(p) ELSE {}

AtomicPart ==
  /\ \A p, q \in Proc : \A x \in Row : Owns(p, x) /\ Owns(q, x) => p = q
  /\ \A p \in Proc : \A x \in Row :
       (\A q \in Proc \ {p} : ~Owns(q, x)) => Committed[x] = View(p, x)
  /\ \A p \in Proc : \A x \in Row :
       ivbintrans[p] # "commit" => View(p, x) = Snap(p, 0, x)
  /\ \A p \in Proc : Rows(p) \subseteq Row

(* A row has one owner, the committed value of a row is the view of any    *)
(* process where no other owns it, and the view of a process is where its  *)
(* changes lead back to.                                                   *)
LEMMA AtomicFacts ==
  ASSUME KeysApart
  PROVE  TypeInv /\ SafeInv /\ UndoInv => AtomicPart
<1> SUFFICES ASSUME TypeInv, SafeInv, UndoInv PROVE AtomicPart
  OBVIOUS
<1>1. \A p \in Proc : \A x \in Row : Owns(p, x) =>
        \/ x \in Deleted(p) /\ data[x] = NoKey
        \/ data[x] \in KeyOf[p]
  BY RowState DEF SafeInv, Good, AllDeleted
<1>2. ASSUME NEW p \in Proc, NEW q \in Proc, NEW x \in Row,
             Owns(p, x), Owns(q, x)
      PROVE  p = q
  <2>1. p # q => /\ KeyOf[p] \cap KeyOf[q] = {}
                 /\ Deleted(p) \cap Deleted(q) = {}
    BY DEF KeysApart, SafeInv, ApartPart
  <2>2. NoKey \notin KeyOf[p] /\ NoKey \notin KeyOf[q]
    BY TransAssumption
  <2>3. QED
    BY <1>1, <1>2, <2>1, <2>2
<1>3. ASSUME NEW p \in Proc, NEW x \in Row, \A q \in Proc \ {p} : ~Owns(q, x)
      PROVE  Committed[x] = View(p, x)
  <2> DEFINE old == {Before(q, x) : q \in {o \in Proc : x \in Unfinished(o)}}
  <2>1. Committed[x] = IF old = {} THEN data[x] ELSE CHOOSE k \in old : TRUE
    BY DEF Committed
  <2>2. {o \in Proc : x \in Unfinished(o)} = {o \in Proc : Owns(o, x)}
    BY UnfinishedIs
  <2>3. old = IF Owns(p, x) THEN {Before(p, x)} ELSE {}
    BY <1>3, <2>2
  <2> HIDE DEF old
  <2>4. QED
    BY <2>1, <2>3 DEF View
<1>4. ASSUME NEW p \in Proc, NEW x \in Row, ivbintrans[p] # "commit"
      PROVE  View(p, x) = Snap(p, 0, x)
  <2>1. CASE Owns(p, x)
    <3>1. x \in Touched(p) /\ InTrans(p)
      BY <2>1, ToGoFacts DEF Owns, Touched
    <3>2. QED
      BY <2>1, <3>1 DEF View, UndoInv, TransPart, DonePart
  <2>2. CASE ~Owns(p, x)
    <3>1. CASE InTrans(p)
      <4>1. \A i \in ToGo(p) : log[i].row # x
        BY <2>2, <3>1 DEF Owns
      <4>2. QED
        BY <2>2, <4>1, SnapNone DEF View
    <3>2. CASE ~InTrans(p)
      <4>1. ToGo(p) = {}
        BY <1>4, <3>2 DEF InTrans, ToGo, Active
      <4>2. QED
        BY <2>2, <4>1, SnapNone DEF View
    <3>3. QED
      BY <3>1, <3>2
  <2>3. QED
    BY <2>1, <2>2
<1>5. \A p \in Proc : Rows(p) \subseteq Row
  BY ChangesFacts DEF Rows, Touched
<1>6. QED
  BY <1>2, <1>3, <1>4, <1>5 DEF AtomicPart

(* Nothing changes in what other transactions own, and in their views.     *)
LEMMA OthersView ==
  ASSUME TypeInv, SafeInv, UndoInv, Reliable, AtomicPart, AtomicPart',
         NEW p \in Proc, ActionOf(p), NEW q \in Proc, q # p
  PROVE  /\ \A x \in Row : Owns(q, x)' <=> Owns(q, x)
         /\ \A x \in Row : Owns(q, x) => /\ View(q, x)' = View(q, x)
                                         /\ data'[x] = data[x]
         /\ Rows(q)' = Rows(q)
<1> DEFINE T == ToGo(q)
<1>1. /\ ivbintrans'[q] = ivbintrans[q] /\ T' = T
      /\ Touched(q)' = Touched(q)
      /\ T \in SUBSET Nat /\ \A i \in T : log'[i] = log[i]
  BY OthersKept, ToGoFacts DEF KeptFor
<1>2. \A x \in Row : Owns(q, x)' <=> Owns(q, x)
  BY <1>1 DEF Owns, InTrans
<1>3. Rows(q)' = Rows(q)
  BY <1>1 DEF Rows
<1>4. ASSUME NEW x \in Row, Owns(q, x)
      PROVE  View(q, x)' = View(q, x) /\ data'[x] = data[x]
  <2>2. data'[x] = data[x]
    BY <1>4, Untouched DEF Reliable
  <2>3. /\ View(q, x) = Snap(q, 0, x) /\ View(q, x)' = Snap(q, 0, x)'
    BY <1>1, <1>4 DEF AtomicPart, Owns, InTrans
  <2>4. /\ Snap(q, 0, x) = SnapOf(log, data, T, 0, x)
        /\ Snap(q, 0, x)' = SnapOf(log', data', T, 0, x)
    BY <1>1 DEF Snap
  <2>5. SameOn(log, log', T)
    BY <1>1 DEF SameOn
  <2> HIDE DEF T
  <2>6. \/ SnapOf(log', data', T, 0, x) = SnapOf(log, data, T, 0, x)
        \/ /\ SnapOf(log', data', T, 0, x) = data'[x]
           /\ SnapOf(log, data, T, 0, x) = data[x]
    BY <2>5, SnapKept
  <2>7. QED
    BY <2>2, <2>3, <2>4, <2>6
<1>5. QED
  BY <1>2, <1>3, <1>4

(* Where the view of the acting process is the same, the committed table is.*)
LEMMA SameTable ==
  ASSUME TypeInv, SafeInv, UndoInv, Reliable, AtomicPart, AtomicPart',
         NEW p \in Proc, ActionOf(p),
         \A x \in Row : View(p, x)' = View(p, x)
  PROVE  Committed' = Committed
<1>1. ASSUME NEW x \in Row PROVE Committed'[x] = Committed[x]
  <2>1. CASE \E q \in Proc \ {p} : Owns(q, x)
    <3>1. PICK q \in Proc \ {p} : Owns(q, x)
      BY <2>1
    <3>2. Owns(q, x)' /\ View(q, x)' = View(q, x)
      BY <3>1, OthersView
    <3>3. /\ \A o \in Proc \ {q} : ~Owns(o, x)
          /\ \A o \in Proc \ {q} : ~Owns(o, x)'
      BY <3>1, <3>2 DEF AtomicPart
    <3>4. Committed[x] = View(q, x) /\ Committed'[x] = View(q, x)'
      BY <3>3 DEF AtomicPart
    <3>5. QED
      BY <3>2, <3>4
  <2>2. CASE \A q \in Proc \ {p} : ~Owns(q, x)
    <3>1. \A q \in Proc \ {p} : ~Owns(q, x)'
      BY <2>2, OthersView
    <3>2. Committed[x] = View(p, x) /\ Committed'[x] = View(p, x)'
      BY <2>2, <3>1 DEF AtomicPart
    <3>3. QED
      BY <3>2
  <2>3. QED
    BY <2>1, <2>2
<1>2. /\ Committed = [x \in Row |-> Committed[x]]
      /\ Committed' = [x \in Row |-> Committed'[x]]
  BY DEF Committed
<1>3. QED
  BY <1>1, <1>2

(* A transaction owns the rows it has pending.                             *)
LEMMA RowsOwned ==
  ASSUME TypeInv, NEW p
  PROVE  /\ \A x \in Rows(p) : Owns(p, x)
         /\ ivbintrans[p] = "needflush" =>
              \A x : Owns(p, x) => x \in Rows(p)
<1>1. ASSUME ivbintrans[p] = "needflush"
      PROVE  \A x : x \in Rows(p) <=> Owns(p, x)
  BY <1>1, AllToGo DEF Rows, Owns, InTrans, Touched
<1>2. QED
  BY <1>1 DEF Rows

(* What is pending, before a step and after it.                            *)
LEMMA PendingIs ==
  /\ Pending = [q \in Proc |-> [x \in Rows(q) |-> data[x]]]
  /\ Pending' = [q \in Proc |-> [x \in Rows(q)' |-> data'[x]]]
  BY DEF Pending, Rows

(* Nothing changes in what other transactions have pending.                *)
LEMMA OthersPending ==
  ASSUME TypeInv, SafeInv, UndoInv, Reliable, AtomicPart, AtomicPart',
         NEW p \in Proc, ActionOf(p), NEW q \in Proc, q # p
  PROVE  Pending'[q] = Pending[q]
<1>1. \A x \in Rows(q) : x \in Row /\ Owns(q, x)
  BY RowsOwned DEF AtomicPart
<1>2. Rows(q)' = Rows(q) /\ \A x \in Rows(q) : data'[x] = data[x]
  BY <1>1, OthersView
<1>3. QED
  BY <1>2, PendingIs

(* A call that logs a change adds it to what the transaction has pending,  *)
(* and to nothing else; no other transaction has changed the row.          *)
LEMMA AtomicChange ==
  ASSUME TypeInv, SafeInv, UndoInv, Reliable, AtomicPart, AtomicPart',
         NEW p \in Proc, ActionOf(p),
         NEW op, NEW r \in Row, ChangeView(p, op, r, data[r]),
         NEW k \in Value, data' = [data EXCEPT ![r] = k],
         ivbintrans[p] \in {"begin", "needflush"}
  PROVE  Atomic!Change(p)
<1> DEFINE T == ToGo(p)
           n == Len(log')
           l == log
           m == log'
           d == data
           e == data'
<1>1. /\ T' = T \union {n} /\ n \in Nat /\ T \in SUBSET Nat
      /\ \A i \in T : i < n /\ m[i] = l[i]
      /\ m[n].row = r /\ m[n].old = d[r]
  BY ToGoFacts DEF ChangeView
<1>2. /\ data \in [Row -> Value] /\ e[r] = k
      /\ \A y \in Row : y # r => e[y] = d[y]
  BY DEF TypeInv
<1>3. /\ LastDone(l, m, d, e, T, n) /\ 0 < n
  <2>1. n # 0
    BY DEF ChangeView
  <2> HIDE DEF l, m, d, e, n, T
  <2>2. QED
    BY <1>1, <1>2, <2>1 DEF LastDone
<1>4. ASSUME NEW x \in Row PROVE View(p, x)' = View(p, x)
  <2>1. ivbintrans[p] # "commit" /\ ivbintrans'[p] # "commit"
    BY DEF ChangeView
  <2>2. View(p, x) = Snap(p, 0, x) /\ View(p, x)' = Snap(p, 0, x)'
    BY <2>1 DEF AtomicPart
  <2>3. /\ Snap(p, 0, x) = SnapOf(l, d, T, 0, x)
        /\ Snap(p, 0, x)' = SnapOf(m, e, T \union {n}, 0, x)
    BY <1>1 DEF Snap
  <2> HIDE DEF l, m, d, e, n, T
  <2>4. SnapOf(m, e, T \union {n}, 0, x) = SnapOf(l, d, T, 0, x)
    BY <1>3, SnapMore
  <2>5. QED
    BY <2>2, <2>3, <2>4
<1>5. Committed' = Committed
  BY <1>4, SameTable
<1>6. /\ Rows(p)' = Rows(p) \union {r} /\ Owns(p, r)'
  <2>1. Rows(p)' = Rows(p) \union {r}
    BY DEF ChangeView, Rows, Held, Active
  <2>2. Owns(p, r)'
    BY <1>1 DEF ChangeView, Owns, InTrans
  <2>3. QED
    BY <2>1, <2>2
<1>7. \A q \in Proc \ {p} : r \notin DOMAIN Pending[q]
  <2> SUFFICES ASSUME NEW q \in Proc \ {p}, r \in Rows(q) PROVE FALSE
    BY PendingIs
  <2>1. Owns(q, r)
    BY RowsOwned
  <2>2. Owns(q, r)'
    BY <2>1, OthersView
  <2>3. QED
    BY <1>6, <2>2 DEF AtomicPart
<1>8. Pending'[p] = [s \in DOMAIN Pending[p] \union {r} |->
                       IF s = r THEN k ELSE Pending[p][s]]
  <2>1. /\ Pending'[p] = [s \in Rows(p) \union {r} |-> data'[s]]
        /\ Pending[p] = [s \in Rows(p) |-> data[s]]
    BY <1>6, PendingIs
  <2>2. \A s \in Rows(p) \union {r} :
          data'[s] = IF s = r THEN k ELSE data[s]
    BY <1>2 DEF AtomicPart
  <2>3. QED
    BY <2>1, <2>2
<1>9. Pending' = [Pending EXCEPT
        ![p] = [s \in DOMAIN @ \union {r} |-> IF s = r THEN k ELSE @[s]]]
  <2>1. \A q \in Proc \ {p} : Pending'[q] = Pending[q]
    BY OthersPending
  <2>2. DOMAIN Pending = Proc /\ DOMAIN Pending' = Proc
    BY PendingIs
  <2>3. Pending' = [q \in Proc |-> Pending'[q]]
    BY PendingIs
  <2>4. QED
    BY <1>8, <2>1, <2>2, <2>3
<1>10. k \in Key \union {NoKey}
  BY DEF Value
<1>11. QED
  BY <1>5, <1>7, <1>9, <1>10 DEF Atomic!Change

(* A call that has pending what was, or nothing, and leaves the view, is a *)
(* rollback or no step at all.                                             *)
LEMMA AtomicRest ==
  ASSUME TypeInv, SafeInv, UndoInv, Reliable, AtomicPart, AtomicPart',
         NEW p \in Proc, ActionOf(p),
         \A x \in Row : View(p, x)' = View(p, x),
         \/ Rows(p)' = Rows(p) /\ \A x \in Rows(p) : data'[x] = data[x]
         \/ Rows(p)' = {}
  PROVE  [Atomic!Next]_<<Committed, Pending>>
<1>1. Committed' = Committed
  BY SameTable
<1>2. \A q \in Proc \ {p} : Pending'[q] = Pending[q]
  BY OthersPending
<1>3. CASE Rows(p)' = Rows(p) /\ \A x \in Rows(p) : data'[x] = data[x]
  <2>1. Pending'[p] = Pending[p]
    BY <1>3, PendingIs
  <2>2. \A q \in Proc : Pending'[q] = Pending[q]
    BY <1>2, <2>1
  <2>3. /\ Pending = [q \in Proc |-> Pending[q]]
        /\ Pending' = [q \in Proc |-> Pending'[q]]
    BY PendingIs
  <2>4. Pending' = Pending
    BY <2>2, <2>3
  <2>5. QED
    BY <1>1, <2>4
<1>4. CASE Rows(p)' = {}
  <2>1. Pending'[p] = Atomic!Nothing
    <3>1. Pending'[p] = [x \in {} |-> data'[x]]
      BY <1>4, PendingIs
    <3>2. QED
      BY <3>1 DEF Atomic!Nothing
  <2>2. DOMAIN Pending = Proc /\ Pending' = [q \in Proc |-> Pending'[q]]
    BY PendingIs
  <2>3. Pending' = [Pending EXCEPT ![p] = Atomic!Nothing]
    BY <1>2, <2>1, <2>2
  <2>4. Atomic!Rollback(p)
    BY <1>1, <2>3 DEF Atomic!Rollback
  <2>5. QED
    BY <2>4 DEF Atomic!Next
<1>5. QED
  BY <1>3, <1>4

(* iscommit puts what was pending into the table, all at once; what its walk*)
(* frees later was deleted already.                                        *)
LEMMA AtomicCommit ==
  ASSUME TypeInv, SafeInv, UndoInv, Reliable, AtomicPart, AtomicPart',
         NEW p \in Proc, iscommit(p), ivbintrans[p] = "needflush"
  PROVE  Atomic!Commit(p)
<1>1. /\ ivbintrans'[p] = "commit" /\ data' = data /\ ActionOf(p)
  BY DEF iscommit, TypeInv, ActionOf
<1>2. /\ Rows(p)' = {} /\ \A x : ~Owns(p, x)'
      /\ \A x : x \in Rows(p) <=> Owns(p, x)
  BY <1>1, RowsOwned DEF Rows, Owns, InTrans
<1>3. ASSUME NEW x \in Row
      PROVE  Committed'[x] = IF x \in Rows(p) THEN data[x] ELSE Committed[x]
  <2>1. CASE \E q \in Proc \ {p} : Owns(q, x)
    <3>1. PICK q \in Proc \ {p} : Owns(q, x)
      BY <2>1
    <3>2. Owns(q, x)' /\ View(q, x)' = View(q, x)
      BY <1>1, <3>1, OthersView
    <3>3. /\ \A o \in Proc \ {q} : ~Owns(o, x)
          /\ \A o \in Proc \ {q} : ~Owns(o, x)'
      BY <3>1, <3>2 DEF AtomicPart
    <3>4. Committed[x] = View(q, x) /\ Committed'[x] = View(q, x)'
      BY <3>3 DEF AtomicPart
    <3>5. x \notin Rows(p)
      BY <1>2, <3>3
    <3>6. QED
      BY <3>2, <3>4, <3>5
  <2>2. CASE \A q \in Proc \ {p} : ~Owns(q, x)
    <3>1. \A q \in Proc \ {p} : ~Owns(q, x)'
      BY <1>1, <2>2, OthersView
    <3>2. Committed[x] = View(p, x) /\ Committed'[x] = View(p, x)'
      BY <2>2, <3>1 DEF AtomicPart
    <3>3. View(p, x)' = data[x]
      BY <1>1, <1>2 DEF View
    <3>4. x \notin Rows(p) => View(p, x) = data[x]
      BY <1>2 DEF View
    <3>5. QED
      BY <3>2, <3>3, <3>4
  <2>3. QED
    BY <2>1, <2>2
<1>4. Committed' = Atomic!Overlay(Committed, Pending[p])
  <2>1. /\ Committed' = [x \in Row |-> Committed'[x]]
        /\ DOMAIN Committed = Row
    BY DEF Committed
  <2>2. Pending[p] = [x \in Rows(p) |-> data[x]]
    BY PendingIs
  <2>3. Atomic!Overlay(Committed, Pending[p]) =
          [x \in Row |-> IF x \in Rows(p) THEN data[x] ELSE Committed[x]]
    BY <2>1, <2>2 DEF Atomic!Overlay
  <2>4. QED
    BY <1>3, <2>1, <2>3
<1>5. Pending' = [Pending EXCEPT ![p] = Atomic!Nothing]
  <2>1. Pending'[p] = Atomic!Nothing
    <3>1. Pending'[p] = [x \in {} |-> data'[x]]
      BY <1>2, PendingIs
    <3>2. QED
      BY <3>1 DEF Atomic!Nothing
  <2>2. \A q \in Proc \ {p} : Pending'[q] = Pending[q]
    BY <1>1, OthersPending
  <2>3. DOMAIN Pending = Proc /\ Pending' = [q \in Proc |-> Pending'[q]]
    BY PendingIs
  <2>4. QED
    BY <2>1, <2>2, <2>3
<1>6. QED
  BY <1>4, <1>5 DEF Atomic!Commit

(* Every step of a process is a step of VBAtomic, or none.                 *)
LEMMA AtomicStep ==
  ASSUME TypeInv, SafeInv, UndoInv, AtomicPart, AtomicPart', Reliable,
         NEW p \in Proc, ActionOf(p)
  PROVE  [Atomic!Next]_<<Committed, Pending>>
<1>0. /\ data \in [Row -> Value] /\ space \in Space
      /\ AllDeleted \in SUBSET Row
      /\ Good(space, data, AllDeleted) /\ PidPart
      /\ \A k \in KeyOf[p] : k \in Value /\ k # NoKey
      /\ ivbintrans \in [Proc -> Modes] /\ Istrans
  BY DeletedFacts, TransAssumption DEF TypeInv, SafeInv, Value, Reliable
<1>1. ASSUME NEW op \in {"IN", "DE", "UP"}, NEW r \in Row, CanChange(p),
             Logged(p, op, r, data[r]),
             NEW k \in Value, data' = [data EXCEPT ![r] = k]
      PROVE  [Atomic!Next]_<<Committed, Pending>>
  <2>1. data[r] \in Value /\ ivbintrans[p] \in {"begin", "needflush"}
    BY <1>0, <1>1 DEF CanChange
  <2>2. ChangeView(p, op, r, data[r])
    BY <1>0, <1>1, <2>1, ChangeFacts
  <2>3. Atomic!Change(p)
    BY <1>0, <1>1, <2>1, <2>2, AtomicChange
  <2>4. QED
    BY <2>3 DEF Atomic!Next
<1>2. ASSUME UNCHANGED <<data, log, ivbintrans, at>>
      PROVE  [Atomic!Next]_<<Committed, Pending>>
  <2>1. Changes(p)' = Changes(p) /\ Touched(p)' = Touched(p)
    BY <1>2 DEF Changes, Start, Touched
  <2>2. Rows(p)' = Rows(p) /\ \A x \in Rows(p) : data'[x] = data[x]
    BY <1>2, <2>1 DEF Rows
  <2>3. \A x : View(p, x)' = View(p, x)
    <3>1. ToGo(p)' = ToGo(p)
      BY <1>2, <2>1 DEF ToGo, Active, Top
    <3>2. QED
      BY <1>2, <2>1, <3>1 DEF View, Owns, InTrans, Before
  <2>4. QED
    BY <1>0, <2>2, <2>3, AtomicRest
<1>3. CASE iswrite(p)
  <2> DEFINE r == NextRow(space)
  <2>1. r \in Row
    BY <1>0, <1>3, TakenType DEF iswrite
  <2>2. data[r] = NoKey
    BY <1>0, <2>1, GoodTaken
  <2>3. \/ \E k \in KeyOf[p] : /\ data' = [data EXCEPT ![r] = k]
                               /\ CanChange(p) /\ Logged(p, "IN", r, NoKey)
        \/ UNCHANGED <<data, log, ivbintrans, at>>
    BY <1>3 DEF iswrite
  <2> HIDE DEF r
  <2>4. QED
    BY <1>0, <1>1, <1>2, <2>1, <2>2, <2>3
<1>4. CASE isdelete(p)
  <2>1. PICK r \in Row : /\ data' = [data EXCEPT ![r] = NoKey]
                         /\ CanChange(p)
                         /\ Logged(p, "DE", r, data[r])
    BY <1>4 DEF isdelete
  <2>2. NoKey \in Value
    BY DEF Value
  <2>3. QED
    BY <1>1, <2>1, <2>2
<1>5. CASE isrewrite(p)
  <2>1. PICK r \in Row, k \in KeyOf[p] :
               /\ data' = [data EXCEPT ![r] = k]
               /\ CanChange(p)
               /\ Logged(p, "UP", r, data[r])
    BY <1>5 DEF isrewrite
  <2>2. QED
    BY <1>0, <1>1, <2>1
<1>6. CASE Undo(p)
  <2> DEFINE a == at[p]
             l == log
             T == ToGo(p)
             d == data
             e == data'
  <2>1. /\ Walking(p, "rollback") /\ Step(p) /\ log' = log
        /\ ivbintrans' = ivbintrans
        /\ data' = [data EXCEPT ![log[a].row] = log[a].old]
    BY <1>6, UndoData
  <2>2. log[a].row \in Row
    BY <2>1, CanUndo
  <2>3. /\ StepView(p) /\ a # 0 /\ a \in Nat /\ T \in SUBSET Nat
        /\ ivbintrans[p] = "rollback"
    BY <2>1, WalkSteps, WalkAt, ToGoFacts DEF SafeInv, Reliable, Walking
  <2>4. /\ a \in T /\ (\A i \in T : i <= a) /\ ToGo(p)' = T \ {a}
    BY <2>3 DEF StepView
  <2>5. /\ e[l[a].row] = l[a].old
        /\ \A y \in Row : y # l[a].row => e[y] = d[y]
    BY <1>0, <2>1, <2>2
  <2>6. LastUndone(l, d, e, T, a)
    BY <2>3, <2>4, <2>5 DEF LastUndone
  <2>7. ASSUME NEW x \in Row PROVE View(p, x)' = View(p, x)
    <3>1. View(p, x) = Snap(p, 0, x) /\ View(p, x)' = Snap(p, 0, x)'
      BY <2>1, <2>3 DEF AtomicPart
    <3>2. /\ Snap(p, 0, x) = SnapOf(l, d, T, 0, x)
          /\ Snap(p, 0, x)' = SnapOf(l, e, T \ {a}, 0, x)
      BY <2>1, <2>4 DEF Snap
    <3>3. 0 < a
      BY <2>3
    <3> HIDE DEF a, l, T, d, e
    <3>4. SnapOf(l, e, T \ {a}, 0, x) = SnapOf(l, d, T, 0, x)
      BY <2>6, <3>3, SnapLess
    <3>5. QED
      BY <3>1, <3>2, <3>4
  <2>8. Rows(p)' = {}
    BY <2>1, <2>3 DEF Rows
  <2>9. QED
    BY <1>0, <2>7, <2>8, AtomicRest
<1>7. CASE isrollback(p)
  <2> DEFINE T == ToGo(p)
  <2>1. /\ ivbintrans[p] = "needflush" /\ ivbintrans'[p] = "rollback"
        /\ at'[p] = Prev(p, Len(log) + 1) /\ data' = data /\ RestOf(p)
    BY <1>0, <1>7 DEF isrollback, TypeInv, RestOf
  <2>2. SameView(p) /\ T \in SUBSET Nat
    BY <1>0, <2>1, WalkBegins, ToGoFacts DEF SafeInv, Reliable
  <2>3. SameOn(log, log', T) /\ ToGo(p)' = T
    BY <2>2 DEF SameOn, SameView
  <2>4. ASSUME NEW x \in Row PROVE View(p, x)' = View(p, x)
    <3>1. View(p, x) = Snap(p, 0, x) /\ View(p, x)' = Snap(p, 0, x)'
      BY <2>1 DEF AtomicPart
    <3>2. /\ Snap(p, 0, x) = SnapOf(log, data, T, 0, x)
          /\ Snap(p, 0, x)' = SnapOf(log', data, T, 0, x)
      BY <2>1, <2>3 DEF Snap
    <3> HIDE DEF T
    <3>3. \/ SnapOf(log', data, T, 0, x) = SnapOf(log, data, T, 0, x)
          \/ /\ SnapOf(log', data, T, 0, x) = data[x]
             /\ SnapOf(log, data, T, 0, x) = data[x]
      BY <2>3, SnapKept
    <3>4. QED
      BY <3>1, <3>2, <3>3
  <2>5. Rows(p)' = {}
    BY <2>1 DEF Rows
  <2>6. QED
    BY <1>0, <2>4, <2>5, AtomicRest
<1>8. CASE iscommit(p) /\ ivbintrans[p] = "needflush"
  <2>1. Atomic!Commit(p)
    BY <1>0, <1>8, AtomicCommit
  <2>2. QED
    BY <2>1 DEF Atomic!Next
<1>9. ASSUME ~InTrans(p), ~InTrans(p)', data' = data
      PROVE  [Atomic!Next]_<<Committed, Pending>>
  <2>1. \A x : View(p, x)' = View(p, x)
    BY <1>9 DEF View, Owns
  <2>2. Rows(p)' = {}
    BY <1>9 DEF Rows, InTrans
  <2>3. QED
    BY <1>0, <2>1, <2>2, AtomicRest
<1>10. CASE \/ isbegin(p) \/ CommitStep(p) \/ CommitEnd(p)
            \/ iscommit(p) /\ ivbintrans[p] # "needflush"
  <2>1. /\ ivbintrans[p] \in {"none", "begin", "commit"}
        /\ ivbintrans'[p] \in {"none", "begin", "commit"} /\ data' = data
    BY <1>0, <1>10 DEF isbegin, iscommit, CommitStep, CommitEnd, Walking, End
  <2>2. ~InTrans(p) /\ ~InTrans(p)'
    BY <2>1 DEF InTrans
  <2>3. QED
    BY <1>9, <2>1, <2>2
<1>11. CASE RollbackEnd(p)
  <2>1. ivbintrans[p] = "rollback" /\ ivbintrans'[p] = "none"
    BY <1>0, <1>11 DEF RollbackEnd, End
  <2>2. data' = data /\ ToGo(p) = {}
    BY <2>1, EndOfRollback DEF Reliable
  <2>3. ASSUME NEW x \in Row PROVE View(p, x)' = View(p, x)
    <3>1. View(p, x) = Snap(p, 0, x) /\ Snap(p, 0, x) = data[x]
      BY <2>1, <2>2, SnapNone DEF AtomicPart
    <3>2. View(p, x)' = data'[x]
      BY <2>1 DEF View, Owns, InTrans
    <3>3. QED
      BY <2>2, <3>1, <3>2
  <2>4. Rows(p)' = {}
    BY <2>1 DEF Rows
  <2>5. QED
    BY <1>0, <2>3, <2>4, AtomicRest
<1>12. CASE OnHandle(p)
  BY <1>2, <1>12, HandleKeeps
<1>13. ~UndoFails(p)
  BY NeverFails DEF Reliable
<1>14. QED
  BY <1>3, <1>4, <1>5, <1>6, <1>7, <1>8, <1>10, <1>11, <1>12, <1>13
     DEF ActionOf, Undo

(* AtomicSpec, the refinement of VBAtomic under the conditions of Reliable:*)
(* the changes of a transaction take effect all at once when it commits and*)
(* not at all when it is rolled back, though the code applies them one at a*)
(* time and undoes them one at a time, and other transactions run in       *)
(* between.                                                                *)
THEOREM TransactionsAtomic ==
  ASSUME Reliable PROVE Spec => AtomicSpec
<1>1. Init => Atomic!Init
  <2> SUFFICES ASSUME Init PROVE Atomic!Init
    OBVIOUS
  <2>1. \A p \in Proc : ~InTrans(p) /\ Rows(p) = {}
    BY DEF Init, InTrans, Rows
  <2>2. Committed = [x \in Row |-> NoKey]
    <3>1. \A p \in Proc : Unfinished(p) = {}
      BY <2>1 DEF Unfinished
    <3>2. Committed = [x \in Row |-> data[x]]
      BY <3>1 DEF Committed
    <3>3. QED
      BY <3>2 DEF Init
  <2>3. Pending = [p \in Proc |-> Atomic!Nothing]
    <3>1. \A p \in Proc : [x \in Rows(p) |-> data[x]] = Atomic!Nothing
      BY <2>1 DEF Atomic!Nothing
    <3>2. QED
      BY <3>1, PendingIs
  <2>4. QED
    BY <2>2, <2>3 DEF Atomic!Init
<1>2. /\ TypeInv /\ SafeInv /\ UndoInv => AtomicPart
      /\ TypeInv' /\ SafeInv' /\ UndoInv' => AtomicPart'
  BY AtomicFacts, PTL DEF Reliable
<1>3. (/\ TypeInv /\ SafeInv /\ UndoInv
       /\ TypeInv' /\ SafeInv' /\ UndoInv' /\ [Next]_vars)
      => [Atomic!Next]_<<Committed, Pending>>
  <2> SUFFICES ASSUME TypeInv, SafeInv, UndoInv, TypeInv', SafeInv', UndoInv',
                      [Next]_vars
               PROVE  [Atomic!Next]_<<Committed, Pending>>
    OBVIOUS
  <2>1. CASE UNCHANGED vars
    BY <2>1 DEF vars, Committed, Pending, Unfinished, InTrans, Touched, Before,
                Changes, Start
  <2>2. CASE Next
    <3>1. \E p \in Proc : ActionOf(p)
      BY <2>2, NextIs
    <3>2. QED
      BY <1>2, <3>1, AtomicStep
  <2>3. QED
    BY <2>1, <2>2
<1>4. Spec => []SafeInv
  BY SafeInvariant DEF Reliable
<1>5. Spec => Atomic!Spec
  BY <1>1, <1>3, <1>4, UndoInvariant, TypeInvariant, PTL DEF Spec, Atomic!Spec
<1>6. QED
  BY <1>5 DEF AtomicSpec
=============================================================================
