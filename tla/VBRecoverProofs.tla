-------------------------- MODULE VBRecoverProofs --------------------------
(***************************************************************************)
(* What isrecover (isrecover.c) makes of a table from the log that         *)
(* istrans.c and isopen.c wrote until a crash, for any number of processes *)
(* and rows, any length of the log and a crash between any two steps.      *)
(*                                                                         *)
(* The log is the whole argument. LogInv says which records it has in      *)
(* which order (Follows, Begun), and that each change that was not rolled  *)
(* back starts from the row the ones before it made (Chained). RowAt(l, n, *)
(* r) is that row: what the first n records, without those of transactions *)
(* that were rolled back, make of row r. RunIn says that the table is      *)
(* RowAt of the whole log, except where a rollback is under way: its       *)
(* record RW is in the log before the rows are undone. ReplayIn says that  *)
(* a recovery has made RowAt of the records it has read; it knows which    *)
(* ones are cancelled since ircvchecktrans looks ahead for the end of a    *)
(* transaction. Its HandlesIn says of each handle of the recovery that the *)
(* unique id it has seen last is the table's, unless handles were open     *)
(* together and another has moved the id since.                            *)
(*                                                                         *)
(* A rollback is the step that matters: RW changes what a recovery makes   *)
(* of records far back in the log. Others stay off the rows of a           *)
(* transaction (AloneIn), so cancelling it takes each of its rows back     *)
(* to what it was at the beginning, at every point of the log (CancelRow), *)
(* and the records behind stay right (RollbackAdded).                      *)
(*                                                                         *)
(* The first part is about logs: what one record more does to each of      *)
(* these. Then come the calls, and the steps of the recovery. Nothing is   *)
(* assumed but RecoverAssumption: each process writes keys of its own,     *)
(* since otherwise a rollback may fail (VBTrans, MCVBTransKeys.cfg).       *)
(***************************************************************************)
EXTENDS VBRecover, SequencesExt, SequenceTheorems, WellFoundedInduction,
        FiniteSetTheorems, TLAPS

(* A nonempty set of natural numbers has a least member.                   *)
LEMMA LeastNumber ==
  ASSUME NEW T \in SUBSET Nat, T # {}
  PROVE  \E x \in T : \A y \in T : x <= y
<1> DEFINE R == OpToRel(<, Nat)
<1>1. IsWellFoundedOn(R, Nat)
  BY NatLessThanWellFounded
<1>2. \A x, y \in Nat : x < y => <<x, y>> \in R
  BY DEF OpToRel
<1> HIDE DEF R
<1>3. PICK x \in T : \A y \in T : <<y, x>> \notin R
  BY <1>1, WFMin
<1>4. ASSUME NEW y \in T PROVE x <= y
  <2>1. x \in Nat /\ y \in Nat /\ ~(y < x)
    BY <1>2, <1>3
  <2>2. QED
    BY <2>1
<1>5. QED
  BY <1>3, <1>4

(* Min of a nonempty set of natural numbers is its least member.           *)
LEMMA MinNumber ==
  ASSUME NEW T \in SUBSET Nat, T # {}
  PROVE  Min(T) \in T /\ \A y \in T : Min(T) <= y
<1>1. \E x \in T : \A y \in T : x <= y
  BY LeastNumber
<1>2. QED
  BY <1>1 DEF Min

(* Max of a nonempty bounded set of natural numbers is its greatest member.*)
LEMMA MaxNumber ==
  ASSUME NEW T \in SUBSET Nat, T # {}, NEW n \in Nat, \A y \in T : y <= n
  PROVE  Max(T) \in T /\ \A y \in T : y <= Max(T)
<1> DEFINE U == {n - y : y \in T}
<1>1. U \in SUBSET Nat /\ U # {}
  <2>1. ASSUME NEW y \in T PROVE n - y \in Nat
    <3>1. y \in Nat /\ y <= n
      OBVIOUS
    <3>2. QED
      BY <3>1
  <2>2. QED
    BY <2>1
<1>2. PICK u \in U : \A w \in U : u <= w
  <2> HIDE DEF U
  <2>1. QED
    BY <1>1, LeastNumber
<1>3. PICK x \in T : u = n - x
  BY <1>2
<1>4. ASSUME NEW y \in T PROVE x >= y
  <2>1. n - y \in U
    OBVIOUS
  <2>2. n - x <= n - y
    BY <1>2, <1>3, <2>1
  <2>3. QED
    BY <2>2
<1>5. Max(T) \in T /\ \A y \in T : Max(T) >= y
  BY <1>4 DEF Max
<1>6. QED
  BY <1>5

-----------------------------------------------------------------------------

(* What a row holds in the table or in a record of the log: a key, or no   *)
(* row.                                                                    *)
Value == {NoKey} \union UNION {KeyOf[p] : p \in Proc}

(* Records that change a row, that move the unique id (isuniqueid,         *)
(* issetunique), and that begin or end a transaction.                      *)
Changing == {"IN", "DE", "UP"}
Counting == {"UN", "SU"}
Ending   == {"BW", "CW", "RW"}

(* The records of a log, and what the keys of a change are: of the process *)
(* that logged it, old and new as iswrite, isdelete and isrewrite have it. *)
Rec == [proc : Proc, op : {"BW", "CW", "RW", "FO", "FC"} \union Changing
                            \union Counting,
        number : Nat, old : Value, new : Value]

KeysFit(e) ==
  e.op \in Changing =>
    /\ e.number \in Row
    /\ IF e.op = "IN" THEN e.old = NoKey ELSE e.old \in KeyOf[e.proc]
    /\ IF e.op = "DE" THEN e.new = NoKey ELSE e.new \in KeyOf[e.proc]

LogType(l) == l \in Seq(Rec) /\ \A i \in 1..Len(l) : KeysFit(l[i])

(* Whether record i is of a transaction that was rolled back: the first of *)
(* the records of its process behind it that begin or end one is RW.       *)
Cancelled(l, i) ==
  \E e \in (i + 1)..Len(l) :
    /\ l[e].proc = l[i].proc /\ l[e].op = "RW"
    /\ \A k \in (i + 1)..(e - 1) :
         l[k].proc = l[i].proc => l[k].op \notin Ending

(* The last record of p up to n, or 0.                                     *)
Latest(l, n, p) == Max({0} \union {j \in 1..n : l[j].proc = p})

(* How far the process has come with record i: its open is in the log and  *)
(* not its close (Opened); its close is, in a transaction (Shut) or behind a*)
(* rollback, where ivbclose2 logs it late (Outer); it is in no transaction *)
(* (Out).                                                                  *)
Opened(l, i) == l[i].op \in {"FO"} \union Changing \union Counting
Outer(l, i)  == /\ l[i].op = "FC"
                /\ LET j == Latest(l, i - 1, l[i].proc)
                   IN j # 0 /\ l[j].op = "RW"
Shut(l, i)   == l[i].op = "FC" /\ ~Outer(l, i)
Out(l, i)    == i = 0 \/ l[i].op \in {"CW", "RW"} \/ Outer(l, i)

(* The order in which istrans.c and isopen.c write the records of a process.*)
Follows(l, i) ==
  LET j == Latest(l, i - 1, l[i].proc)
      x == l[i].op
  IN /\ x = "BW" => Out(l, j)
     /\ x = "FO" => j # 0 /\ l[j].op = "BW"
     /\ x \in Changing \union Counting => j # 0 /\ Opened(l, j)
     /\ x = "FC" => j # 0 /\ (Opened(l, j) \/ l[j].op = "RW")
     /\ x = "CW" => j # 0 /\ Shut(l, j)
     /\ x = "RW" => j # 0 /\ (Opened(l, j) \/ Shut(l, j))

(* What is logged between open and close is in a transaction that BW began.*)
Begun(l, i) ==
  Opened(l, i) =>
    \E j \in 1..(i - 1) :
      /\ l[j] = Mark(l[i].proc, "BW")
      /\ \A k \in (j + 1)..i : l[k].proc = l[i].proc => l[k].op \notin Ending

(* The changes of row r up to n that were not rolled back, and what they   *)
(* have made of it.                                                        *)
Lasting(l, n, r) ==
  {i \in 1..n : l[i].op \in Changing /\ l[i].number = r /\ ~Cancelled(l, i)}

RowAt(l, n, r) ==
  IF Lasting(l, n, r) = {} THEN NoKey ELSE l[Max(Lasting(l, n, r))].new

(* A change that was not rolled back starts from the row that the changes  *)
(* before it made, and makes no key a second time.                         *)
Chained(l, i) ==
  l[i].op \in Changing /\ ~Cancelled(l, i) =>
    /\ l[i].old = RowAt(l, i - 1, l[i].number)
    /\ l[i].new # NoKey =>
         \A s \in Row \ {l[i].number} : RowAt(l, i - 1, s) # l[i].new

(* What the unique id is after n records.                                  *)
IdSet(l, n) ==
  {1} \union {l[i].number + 1 : i \in {j \in 1..n : l[j].op = "UN"}}
      \union {l[i].number : i \in {j \in 1..n : l[j].op = "SU"}}
IdAt(l, n, u) == u \in IdSet(l, n) /\ \A x \in IdSet(l, n) : x <= u

(* isuniqueid logs the id that it hands out.                               *)
Counted(l, i) == l[i].op = "UN" => IdAt(l, i - 1, l[i].number)

(* What is true of the log at any time.                                    *)
LogInv(l) ==
  /\ LogType(l)
  /\ \A i \in 1..Len(l) :
       Follows(l, i) /\ Begun(l, i) /\ Chained(l, i) /\ Counted(l, i)

-----------------------------------------------------------------------------
(* The types of the table and of the processes, more closely than TypeOK.  *)
TypeInv ==
  /\ data \in [Row -> Value]
  /\ unique \in 1..MaxId
  /\ ivbintrans \in [Proc -> {"none", "begin", "needflush", "commit",
                              "rollback"}]
  /\ file \in [Proc -> {"new", "open", "shut", "closed"}]
  /\ itransyet \subseteq {p \in Proc : file[p] \in {"open", "shut"}}
  /\ phase \in {"run", "replay", "done"}

(* The last transaction of p: its begin, its changes, their rows, and the  *)
(* keys these rows had before.                                             *)
StartOf(l, p) ==
  Max({0} \union {i \in 1..Len(l) : l[i] = Mark(p, "BW")})
ChangesOf(l, p) ==
  {i \in (StartOf(l, p) + 1)..Len(l) : l[i].proc = p /\ l[i].op \in Changing}
RowsOf(l, p)    == {l[i].number : i \in ChangesOf(l, p)}
OldOf(l, p, r)  == l[Min({i \in ChangesOf(l, p) : l[i].number = r})].old

(* The process is in a transaction that it has begun in the log.           *)
Inside(l, p) ==
  /\ StartOf(l, p) # 0
  /\ \A k \in (StartOf(l, p) + 1)..Len(l) :
       l[k].proc = p => l[k].op \notin Ending

(* The same, with a last record that is neither its begin nor a close.     *)
Within(l, p) ==
  LET j == Latest(l, Len(l), p) IN j # 0 /\ Opened(l, j) /\ Inside(l, p)

(* Where a process is in its transaction and in its records: t is its      *)
(* ivbintrans, o whether its open is in the log.                           *)
WhereIs(l, t, o, p) ==
  LET j == Latest(l, Len(l), p) IN
  /\ t \in {"none", "begin"} => Out(l, j) /\ ~o
  /\ t = "needflush" => Within(l, p) /\ o
  /\ t = "commit" => j # 0 /\ Shut(l, j) /\ ~o
  /\ t = "rollback" => j # 0 /\ l[j].op = "RW"

(* States of a process in which its changes may still be undone.           *)
Active == {"needflush", "rollback"}

(* A row that the transaction has changed is changed by nobody else.       *)
AloneIn(l, p) ==
  \A i \in ChangesOf(l, p) : \A j \in (i + 1)..Len(l) :
    l[j].op \in Changing /\ l[j].number = l[i].number => l[j].proc = p

(* What a recovery would make of the rows is what they are, but for those  *)
(* a rollback is about to undo.                                            *)
RowsIn(l, t, d) ==
  \A r \in Row :
    /\ (\A p \in Proc : t[p] = "rollback" => r \notin RowsOf(l, p))
         => d[r] = RowAt(l, Len(l), r)
    /\ \A p \in Proc : t[p] = "rollback" /\ r \in RowsOf(l, p)
         => OldOf(l, p, r) = RowAt(l, Len(l), r)

(* The processes and the table fit the log l: t is ivbintrans, o itransyet,*)
(* d the rows, u the unique id.                                            *)
RunIn(l, t, o, d, u) ==
  /\ \A p \in Proc : /\ WhereIs(l, t[p], p \in o, p)
                     /\ t[p] \in Active => AloneIn(l, p)
  /\ RowsIn(l, t, d)
  /\ IdAt(l, Len(l), u)

RunInv == RunIn(log, ivbintrans, itransyet, data, unique)

-----------------------------------------------------------------------------
(* The recovery before it reads a record, and the values it can take.      *)
Fresh == [at |-> 1, trans |-> [p \in Proc |-> "none"],
          handle |-> [p \in Proc |-> 0], seen |-> <<>>,
          data |-> [r \in Row |-> NoKey], unique |-> 1, error |-> "none"]

Recs == [at : Nat, trans : [Proc -> {"none", "ignored", "replayed"}],
         handle : [Proc -> Nat], seen : Seq(Nat), data : [Row -> Value],
         unique : Nat,
         error : {"none", "torn", "EBADLOG", "ENOTOPEN", "EDUPL", "ENOREC",
                  "EBADFILE", ""}]

(* What a recovery knows of a process whose last record is j, and x is     *)
(* what it has come to.                                                    *)
TransAt(l, j) == IF Out(l, j) THEN "none"
                 ELSE IF Cancelled(l, j) THEN "ignored" ELSE "replayed"

OpenAt(l, j) == j # 0 /\ Opened(l, j) /\ ~Cancelled(l, j)

Progress(l, x, p) ==
  LET j == Latest(l, x.at - 1, p) IN
  /\ j # 0 => ~Outer(l, j)
  /\ x.trans[p] = TransAt(l, j)
  /\ x.handle[p] # 0 <=> OpenAt(l, j)

(* No unique id up to n was handed out or set and rolled back.             *)
CountsLast(l, n) ==
  \A i \in 1..n : l[i].op \in Counting => ~Cancelled(l, i)

(* Up to n, a handle was opened while another process had one open; a      *)
(* unique id was handed out or set; and that after the last record of p, or*)
(* before its open when that is the last.                                  *)
TogetherAt(l, n) ==
  \E b \in 1..n, q \in Proc :
    /\ l[b].op = "FO" /\ q # l[b].proc
    /\ LET j == Latest(l, b - 1, q) IN j # 0 /\ Opened(l, j)
CountedIn(l, n) == \E c \in 1..n : l[c].op \in Counting
BehindAt(l, n, p) ==
  LET j == Latest(l, n, p) IN
  \E c \in 1..n : l[c].op \in Counting /\ (c > j \/ l[j].op = "FO")

(* The handles of the recovery and what they have seen of the unique id.   *)
(* With one handle alone that is the unique id of the table.               *)
HandlesIn(l, x) ==
  LET n == x.at - 1 IN
  /\ \A p \in Proc : x.handle[p] \in 0..Len(x.seen)
  /\ Len(x.seen) <= 1 \/ TogetherAt(l, n)
  /\ \/ \A h \in 1..Len(x.seen) : x.seen[h] = x.unique
     \/ TogetherAt(l, n) /\ CountedIn(l, n)
  /\ \A p \in Proc :
       x.handle[p] # 0 => \/ x.seen[x.handle[p]] = x.unique
                          \/ TogetherAt(l, n) /\ BehindAt(l, n, p)

(* x is a recovery of l that has not stopped: of each process it knows how *)
(* far its records have come, and its rows are those that the records read *)
(* so far, without the cancelled ones, have made. Its unique id is right as*)
(* long as none was handed out in a transaction that was rolled back, what *)
(* its handles know of it is HandlesIn.                                    *)
ReplayIn(l, x) ==
  /\ HandlesIn(l, x)
  /\ x \in Recs
  /\ x.at \in 1..(Len(l) + 1)
  /\ \A p \in Proc : Progress(l, x, p)
  /\ \A r \in Row : x.data[r] = RowAt(l, x.at - 1, r)
  /\ CountsLast(l, x.at - 1) => IdAt(l, x.at - 1, x.unique)

(* The inductive invariant.                                                *)
Inv ==
  /\ TypeInv /\ LogInv(log) /\ RunInv
  /\ IF phase = "run" THEN rec = Fresh ELSE ReplayIn(log, rec)
  /\ RecoveryExact

-----------------------------------------------------------------------------
(* Log m is log l with record e behind it.                                 *)
Added(l, m, e) ==
  /\ m \in Seq(Rec)
  /\ Len(m) = Len(l) + 1
  /\ m[Len(m)] = e
  /\ \A i \in 1..Len(l) : m[i] = l[i]

(* The fields of a recovery.                                               *)
LEMMA RecsFacts ==
  ASSUME NEW x \in Recs
  PROVE  /\ x.at \in Nat /\ x.unique \in Nat /\ x.handle \in [Proc -> Nat]
         /\ x.seen \in Seq(Nat) /\ Len(x.seen) \in Nat
<1>1. x.at \in Nat /\ x.unique \in Nat
  BY DEF Recs
<1>2. x.handle \in [Proc -> Nat]
  BY DEF Recs
<1>3. x.seen \in Seq(Nat)
  BY DEF Recs
<1>4. Len(x.seen) \in Nat
  BY <1>3
<1>5. QED
  BY <1>1, <1>2, <1>3, <1>4

(* The maximum of two numbers.                                             *)
LEMMA MaxOfTwo ==
  ASSUME NEW a \in Nat, NEW b \in Nat
  PROVE  Max({a, b}) = IF a <= b THEN b ELSE a
<1>1. /\ {a, b} \in SUBSET Nat /\ {a, b} # {} /\ a + b \in Nat
      /\ \A y \in {a, b} : y <= a + b
  OBVIOUS
<1>2. Max({a, b}) \in {a, b} /\ \A y \in {a, b} : y <= Max({a, b})
  BY <1>1, MaxNumber
<1>3. QED
  BY <1>2

(* Both ways in which a record gets to the end of a log.                   *)
LEMMA AppendAdds ==
  ASSUME NEW l \in Seq(Rec), NEW e \in Rec
  PROVE  Added(l, Append(l, e), e) /\ Added(l, l \o <<e>>, e)
<1>1. <<e>> \in Seq(Rec) /\ Len(<<e>>) = 1 /\ <<e>>[1] = e /\ Len(l) \in Nat
  OBVIOUS
<1>2. /\ l \o <<e>> \in Seq(Rec) /\ Len(l \o <<e>>) = Len(l) + 1
      /\ \A i \in 1..(Len(l) + 1) :
           (l \o <<e>>)[i] = IF i <= Len(l) THEN l[i] ELSE <<e>>[i - Len(l)]
  <2>1. /\ l \o <<e>> \in Seq(Rec) /\ Len(l \o <<e>>) = Len(l) + Len(<<e>>)
        /\ \A i \in 1..(Len(l) + Len(<<e>>)) : (l \o <<e>>)[i] =
             IF i <= Len(l) THEN l[i] ELSE <<e>>[i - Len(l)]
    BY <1>1, ConcatProperties
  <2>2. QED
    BY <1>1, <2>1
<1>3. Added(l, l \o <<e>>, e)
  BY <1>1, <1>2 DEF Added
<1>4. Added(l, Append(l, e), e)
  BY <1>1 DEF Added
<1>5. QED
  BY <1>3, <1>4

(* The fields of the records of a log.                                     *)
LEMMA RecordFacts ==
  ASSUME NEW l, LogType(l)
  PROVE  /\ l \in Seq(Rec) /\ Len(l) \in Nat
         /\ \A i \in 1..Len(l) : /\ l[i] \in Rec /\ KeysFit(l[i])
                                 /\ l[i].proc \in Proc
                                 /\ l[i].number \in Nat
<1>1. l \in Seq(Rec) /\ Len(l) \in Nat
  BY DEF LogType
<1>2. \A i \in 1..Len(l) : l[i] \in Rec
  BY <1>1, ElementOfSeq
<1>3. \A e \in Rec : e.proc \in Proc /\ e.number \in Nat
  BY DEF Rec
<1>4. QED
  BY <1>1, <1>2, <1>3 DEF LogType

(* A log stays a log with a record more.                                   *)
LEMMA AddedType ==
  ASSUME NEW l, LogType(l), NEW e, NEW m, Added(l, m, e), KeysFit(e)
  PROVE  LogType(m)
<1>1. m \in Seq(Rec) /\ Len(l) \in Nat /\ Len(m) = Len(l) + 1
  BY RecordFacts DEF Added
<1>2. ASSUME NEW i \in 1..Len(m) PROVE KeysFit(m[i])
  <2>1. i \in 1..Len(l) \/ i = Len(m)
    BY <1>1
  <2>2. QED
    BY <2>1, RecordFacts DEF Added
<1>3. QED
  BY <1>1, <1>2 DEF LogType

(* The last record of a process up to n is one of its own, and the last.   *)
LEMMA LatestFacts ==
  ASSUME NEW l, NEW n \in Nat, NEW p
  PROVE  /\ Latest(l, n, p) \in 0..n
         /\ Latest(l, n, p) # 0 => l[Latest(l, n, p)].proc = p
         /\ \A j \in 1..n : l[j].proc = p => j <= Latest(l, n, p)
<1> DEFINE T == {0} \union {j \in 1..n : l[j].proc = p}
<1>1. T \in SUBSET Nat /\ T # {} /\ \A y \in T : y <= n
  OBVIOUS
<1>2. Max(T) \in T /\ \A y \in T : y <= Max(T)
  <2> HIDE DEF T
  <2>1. QED
    BY <1>1, MaxNumber
<1>3. Latest(l, n, p) = Max(T)
  BY DEF Latest
<1>4. QED
  BY <1>2, <1>3

(* Whatever is one of its own and the last is it.                          *)
LEMMA LatestIs ==
  ASSUME NEW l, NEW n \in Nat, NEW p, NEW j \in 0..n,
         j # 0 => l[j].proc = p,
         \A k \in (j + 1)..n : l[k].proc # p
  PROVE  Latest(l, n, p) = j
<1> DEFINE a == Latest(l, n, p)
<1>1. /\ a \in 0..n /\ (a # 0 => l[a].proc = p)
      /\ \A x \in 1..n : l[x].proc = p => x <= a
  BY LatestFacts
<1> HIDE DEF a
<1>2. ~(a > j)
  BY <1>1
<1>3. j <= a
  BY <1>1
<1>4. a = j
  BY <1>1, <1>2, <1>3
<1>5. QED
  BY <1>4 DEF a

(* The last record of a process, when the log grows.                       *)
LEMMA LatestAdded ==
  ASSUME NEW l, LogType(l), NEW e, NEW m, Added(l, m, e), NEW p
  PROVE  /\ \A n \in 0..Len(l) : Latest(m, n, p) = Latest(l, n, p)
         /\ Latest(m, Len(m), p) = IF e.proc = p THEN Len(m)
                                   ELSE Latest(l, Len(l), p)
<1>1. /\ Len(l) \in Nat /\ Len(m) = Len(l) + 1 /\ m[Len(m)] = e
      /\ \A i \in 1..Len(l) : m[i] = l[i]
  BY RecordFacts DEF Added
<1>2. ASSUME NEW n \in 0..Len(l) PROVE Latest(m, n, p) = Latest(l, n, p)
  <2>1. {j \in 1..n : m[j].proc = p} = {j \in 1..n : l[j].proc = p}
    BY <1>1
  <2>2. QED
    BY <2>1 DEF Latest
<1>3. CASE e.proc = p
  <2>1. Len(m) \in Nat /\ Len(m) \in 0..Len(m)
    BY <1>1
  <2>2. Latest(m, Len(m), p) = Len(m)
    BY <1>1, <1>3, <2>1, LatestIs
  <2>3. QED
    BY <1>2, <1>3, <2>2
<1>4. CASE e.proc # p
  <2>1. {j \in 1..Len(m) : m[j].proc = p} = {j \in 1..Len(l) : l[j].proc = p}
    BY <1>1, <1>4
  <2>2. Latest(m, Len(m), p) = Latest(l, Len(l), p)
    BY <2>1 DEF Latest
  <2>3. QED
    BY <1>2, <1>4, <2>2
<1>5. QED
  BY <1>3, <1>4

(* When a record more cancels record i.                                    *)
Cancels(l, e, i) ==
  /\ e.op = "RW" /\ e.proc = l[i].proc
  /\ \A k \in (i + 1)..Len(l) : l[k].proc = l[i].proc => l[k].op \notin Ending

(* A record more cancels what Cancels says, and nothing stops being        *)
(* cancelled.                                                              *)
LEMMA CancelledAdded ==
  ASSUME NEW l, LogType(l), NEW e, NEW m, Added(l, m, e)
  PROVE  /\ ~Cancelled(m, Len(m))
         /\ \A i \in 1..Len(l) :
              Cancelled(m, i) <=> Cancelled(l, i) \/ Cancels(l, e, i)
<1>1. /\ Len(l) \in Nat /\ Len(m) = Len(l) + 1 /\ m[Len(m)] = e
      /\ \A i \in 1..Len(l) : m[i] = l[i]
  BY RecordFacts DEF Added
<1>2. ~Cancelled(m, Len(m))
  BY <1>1 DEF Cancelled
<1>3. ASSUME NEW i \in 1..Len(l), Cancelled(l, i) PROVE Cancelled(m, i)
  BY <1>1, <1>3 DEF Cancelled
<1>4. ASSUME NEW i \in 1..Len(l), Cancels(l, e, i) PROVE Cancelled(m, i)
  <2>1. Len(m) \in (i + 1)..Len(m) /\ Len(m) - 1 = Len(l)
    BY <1>1
  <2>2. m[i] = l[i] /\ \A k \in (i + 1)..Len(l) : m[k] = l[k]
    BY <1>1
  <2>3. QED
    BY <1>1, <1>4, <2>1, <2>2 DEF Cancelled, Cancels
<1>5. ASSUME NEW i \in 1..Len(l), Cancelled(m, i)
      PROVE  Cancelled(l, i) \/ Cancels(l, e, i)
  <2>1. m[i] = l[i] /\ \A k \in (i + 1)..Len(l) : m[k] = l[k]
    BY <1>1
  <2>2. PICK x \in (i + 1)..Len(m) :
          /\ m[x].proc = m[i].proc /\ m[x].op = "RW"
          /\ \A k \in (i + 1)..(x - 1) :
               m[k].proc = m[i].proc => m[k].op \notin Ending
    BY <1>5 DEF Cancelled
  <2>3. CASE x = Len(m)
    <3>1. x - 1 = Len(l)
      BY <1>1, <2>3
    <3>2. Cancels(l, e, i)
      BY <1>1, <2>1, <2>2, <2>3, <3>1 DEF Cancels
    <3>3. QED
      BY <3>2
  <2>4. CASE x # Len(m)
    <3>1. x \in (i + 1)..Len(l) /\ \A k \in (i + 1)..(x - 1) : m[k] = l[k]
      BY <1>1, <2>2, <2>4
    <3>2. Cancelled(l, i)
      BY <2>1, <2>2, <3>1 DEF Cancelled
    <3>3. QED
      BY <3>2
  <2>5. QED
    BY <2>3, <2>4
<1>6. QED
  BY <1>2, <1>3, <1>4, <1>5

(* What is said of a record and those before it stays true.                *)
LEMMA ClassAdded ==
  ASSUME NEW l, LogType(l), NEW e, NEW m, Added(l, m, e)
  PROVE  /\ \A i \in 1..Len(l) :
              /\ m[i] = l[i]
              /\ Opened(m, i) = Opened(l, i) /\ Outer(m, i) = Outer(l, i)
              /\ Shut(m, i) = Shut(l, i)
         /\ \A i \in 0..Len(l) : Out(m, i) = Out(l, i)
<1>1. /\ Len(l) \in Nat /\ \A i \in 1..Len(l) : m[i] = l[i]
  BY RecordFacts DEF Added
<1>2. ASSUME NEW i \in 1..Len(l)
      PROVE  /\ Opened(m, i) = Opened(l, i) /\ Outer(m, i) = Outer(l, i)
             /\ Shut(m, i) = Shut(l, i)
  <2>1. m[i] = l[i] /\ i - 1 \in 0..Len(l) /\ i - 1 \in Nat
    BY <1>1
  <2>2. Latest(m, i - 1, l[i].proc) = Latest(l, i - 1, l[i].proc)
    BY <2>1, LatestAdded
  <2>3. Latest(l, i - 1, l[i].proc) \in 0..(i - 1)
    BY <2>1, LatestFacts
  <2>4. Latest(l, i - 1, l[i].proc) # 0 =>
          m[Latest(l, i - 1, l[i].proc)] = l[Latest(l, i - 1, l[i].proc)]
    BY <1>1, <2>3
  <2>5. Outer(m, i) = Outer(l, i)
    BY <2>1, <2>2, <2>4 DEF Outer
  <2>6. QED
    BY <2>1, <2>5 DEF Opened, Shut
<1>3. ASSUME NEW i \in 0..Len(l) PROVE Out(m, i) = Out(l, i)
  <2>1. CASE i = 0
    BY <2>1 DEF Out
  <2>2. CASE i # 0
    <3>1. i \in 1..Len(l)
      BY <2>2
    <3>2. QED
      BY <1>1, <1>2, <3>1 DEF Out
  <2>3. QED
    BY <2>1, <2>2
<1>4. QED
  BY <1>1, <1>2, <1>3

(* The rules about a record read only the log before it.                   *)
LEMMA RulesAdded ==
  ASSUME NEW l, LogType(l), NEW e, NEW m, Added(l, m, e), NEW i \in 1..Len(l)
  PROVE  /\ Follows(m, i) = Follows(l, i)
         /\ Begun(m, i) = Begun(l, i)
         /\ Counted(m, i) = Counted(l, i)
<1> DEFINE j == Latest(l, i - 1, l[i].proc)
<1>1. /\ Len(l) \in Nat /\ i - 1 \in Nat /\ i - 1 \in 0..Len(l)
      /\ \A x \in 1..Len(l) : m[x] = l[x]
      /\ \A x \in 1..i : m[x] = l[x]
  BY RecordFacts DEF Added
<1>2. Latest(m, i - 1, m[i].proc) = j /\ j \in 0..(i - 1)
  <2>1. m[i].proc = l[i].proc
    BY <1>1
  <2>2. Latest(m, i - 1, l[i].proc) = j
    BY <1>1, LatestAdded
  <2>3. j \in 0..(i - 1)
    BY <1>1, LatestFacts
  <2>4. QED
    BY <2>1, <2>2, <2>3
<1>3. j = 0 \/ j \in 1..Len(l)
  BY <1>1, <1>2
<1> HIDE DEF j
<1>4. Follows(m, i) = Follows(l, i)
  <2>1. Out(m, j) = Out(l, j)
    BY <1>3, ClassAdded, <1>1
  <2>2. j # 0 => m[j] = l[j] /\ Opened(m, j) = Opened(l, j)
                 /\ Shut(m, j) = Shut(l, j)
    BY <1>3, ClassAdded
  <2>3. m[i] = l[i]
    BY <1>1
  <2>4. QED
    BY <1>2, <2>1, <2>2, <2>3 DEF Follows, j
<1>5. Begun(m, i) = Begun(l, i)
  <2>1. Opened(m, i) = Opened(l, i) /\ m[i] = l[i]
    BY ClassAdded
  <2>2. QED
    BY <1>1, <2>1 DEF Begun
<1>6. Counted(m, i) = Counted(l, i)
  <2>1. \A x \in 1..(i - 1) : m[x] = l[x]
    BY <1>1
  <2>2. IdSet(m, i - 1) = IdSet(l, i - 1)
    BY <2>1 DEF IdSet
  <2>3. QED
    BY <1>1, <2>2 DEF Counted, IdAt
<1>7. QED
  BY <1>4, <1>5, <1>6

-----------------------------------------------------------------------------
(* RowAt is what the last lasting change made, if there is one.            *)
LEMMA RowAtFacts ==
  ASSUME NEW l, NEW n \in Nat, NEW r
  PROVE  /\ Lasting(l, n, r) = {} => RowAt(l, n, r) = NoKey
         /\ \A i \in Lasting(l, n, r) :
              (\A j \in Lasting(l, n, r) : j <= i) =>
                RowAt(l, n, r) = l[i].new
         /\ Lasting(l, n, r) # {} =>
              \E i \in Lasting(l, n, r) : \A j \in Lasting(l, n, r) : j <= i
<1> DEFINE T == Lasting(l, n, r)
<1>1. T \in SUBSET Nat /\ \A y \in T : y <= n
  BY DEF Lasting
<1> HIDE DEF T
<1>2. ASSUME T # {} PROVE Max(T) \in T /\ \A y \in T : y <= Max(T)
  BY <1>1, <1>2, MaxNumber
<1>3. ASSUME NEW i \in T, \A j \in T : j <= i PROVE Max(T) = i
  <2>1. Max(T) \in T /\ i <= Max(T) /\ Max(T) <= i
    BY <1>2, <1>3
  <2>2. i \in Nat /\ Max(T) \in Nat
    BY <1>1, <2>1
  <2>3. QED
    BY <2>1, <2>2
<1>4. QED
  BY <1>2, <1>3 DEF RowAt, T

(* Rows depend on the lasting changes only.                                *)
LEMMA RowAtSame ==
  ASSUME NEW l, NEW m, NEW n \in Nat, NEW k, NEW r,
         Lasting(m, k, r) = Lasting(l, n, r),
         \A i \in Lasting(l, n, r) : m[i] = l[i]
  PROVE  RowAt(m, k, r) = RowAt(l, n, r)
<1> DEFINE T == Lasting(l, n, r)
<1>1. CASE T = {}
  BY <1>1 DEF RowAt
<1>2. CASE T # {}
  <2>1. RowAt(m, k, r) = m[Max(T)].new /\ RowAt(l, n, r) = l[Max(T)].new
    BY <1>2 DEF RowAt
  <2>2. T \in SUBSET Nat /\ \A y \in T : y <= n
    BY DEF Lasting
  <2>3. Max(T) \in T
    <3> HIDE DEF T
    <3>1. QED
      BY <1>2, <2>2, MaxNumber
  <2>4. QED
    BY <2>1, <2>3
<1>3. QED
  BY <1>1, <1>2

(* The row after one record more.                                          *)
LEMMA RowAtNext ==
  ASSUME NEW l, NEW n \in Nat, NEW r, n # 0
  PROVE  RowAt(l, n, r) =
           IF l[n].op \in Changing /\ l[n].number = r /\ ~Cancelled(l, n)
           THEN l[n].new ELSE RowAt(l, n - 1, r)
<1>1. n - 1 \in Nat /\ 1..n = 1..(n - 1) \union {n}
  OBVIOUS
<1>2. CASE l[n].op \in Changing /\ l[n].number = r /\ ~Cancelled(l, n)
  <2>1. n \in Lasting(l, n, r) /\ \A j \in Lasting(l, n, r) : j <= n
    BY <1>2 DEF Lasting
  <2>2. QED
    BY <1>2, <2>1, RowAtFacts
<1>3. CASE ~(l[n].op \in Changing /\ l[n].number = r /\ ~Cancelled(l, n))
  <2>1. Lasting(l, n, r) = Lasting(l, n - 1, r)
    BY <1>1, <1>3 DEF Lasting
  <2>2. QED
    BY <1>3, <2>1 DEF RowAt
<1>4. QED
  BY <1>2, <1>3

(* Unless a rollback begins, the rows of the past stay.                    *)
LEMMA LastingAdded ==
  ASSUME NEW l, LogType(l), NEW e, NEW m, Added(l, m, e), e.op # "RW",
         NEW n \in 0..Len(l), NEW r
  PROVE  Lasting(m, n, r) = Lasting(l, n, r) /\ RowAt(m, n, r) = RowAt(l, n, r)
<1>1. /\ Len(l) \in Nat /\ \A i \in 1..Len(l) : m[i] = l[i]
  BY RecordFacts DEF Added
<1>2. \A i \in 1..Len(l) : Cancelled(m, i) <=> Cancelled(l, i)
  BY CancelledAdded DEF Cancels
<1>3. \A i \in 1..n : i \in 1..Len(l)
  BY <1>1
<1>4. Lasting(m, n, r) = Lasting(l, n, r)
  BY <1>1, <1>2, <1>3 DEF Lasting
<1>5. \A i \in Lasting(l, n, r) : m[i] = l[i]
  BY <1>1, <1>3 DEF Lasting
<1>6. QED
  BY <1>1, <1>4, <1>5, RowAtSame

(* Unless a rollback begins, only a change changes a row.                  *)
LEMMA RowAtAdded ==
  ASSUME NEW l, LogType(l), NEW e, NEW m, Added(l, m, e), e.op # "RW", NEW r
  PROVE  RowAt(m, Len(m), r) =
           IF e.op \in Changing /\ e.number = r THEN e.new
           ELSE RowAt(l, Len(l), r)
<1>1. /\ Len(l) \in Nat /\ Len(m) = Len(l) + 1 /\ m[Len(m)] = e
      /\ Len(m) \in Nat /\ Len(m) # 0 /\ Len(m) - 1 = Len(l)
      /\ Len(l) \in 0..Len(l)
  BY RecordFacts DEF Added
<1>2. ~Cancelled(m, Len(m))
  BY CancelledAdded
<1>3. RowAt(m, Len(l), r) = RowAt(l, Len(l), r)
  BY <1>1, LastingAdded
<1>4. QED
  BY <1>1, <1>2, <1>3, RowAtNext

(* Only isuniqueid and issetunique move the unique id.                     *)
LEMMA IdsAdded ==
  ASSUME NEW l, LogType(l), NEW e, NEW m, Added(l, m, e), NEW u
  PROVE  e.op \notin Counting =>
           (IdAt(m, Len(m), u) <=> IdAt(l, Len(l), u))
<1>1. /\ Len(l) \in Nat /\ Len(m) = Len(l) + 1 /\ m[Len(m)] = e
      /\ \A i \in 1..Len(l) : m[i] = l[i]
  BY RecordFacts DEF Added
<1>2. ASSUME e.op \notin Counting PROVE IdSet(m, Len(m)) = IdSet(l, Len(l))
  <2>1. {j \in 1..Len(m) : m[j].op = "UN"} = {j \in 1..Len(l) : l[j].op = "UN"}
    BY <1>1, <1>2 DEF Counting
  <2>2. {j \in 1..Len(m) : m[j].op = "SU"} = {j \in 1..Len(l) : l[j].op = "SU"}
    BY <1>1, <1>2 DEF Counting
  <2>3. {m[i].number + 1 : i \in {j \in 1..Len(l) : l[j].op = "UN"}}
          = {l[i].number + 1 : i \in {j \in 1..Len(l) : l[j].op = "UN"}}
    BY <1>1
  <2>4. {m[i].number : i \in {j \in 1..Len(l) : l[j].op = "SU"}}
          = {l[i].number : i \in {j \in 1..Len(l) : l[j].op = "SU"}}
    BY <1>1
  <2>5. QED
    BY <2>1, <2>2, <2>3, <2>4 DEF IdSet
<1>3. QED
  BY <1>2 DEF IdAt

(* The rules of a log hold with a record more, if they do for that record. *)
LEMMA LogAdded ==
  ASSUME NEW l, LogInv(l), NEW e, NEW m, Added(l, m, e), e.op # "RW",
         KeysFit(e), Follows(m, Len(m)), Begun(m, Len(m)), Counted(m, Len(m)),
         e.op \in Changing =>
           /\ e.old = RowAt(l, Len(l), e.number)
           /\ e.new # NoKey => \A s \in Row \ {e.number} :
                                 RowAt(l, Len(l), s) # e.new
  PROVE  LogInv(m)
<1>1. LogType(l)
  BY DEF LogInv
<1>2. /\ Len(l) \in Nat /\ Len(m) = Len(l) + 1 /\ m[Len(m)] = e
      /\ Len(m) - 1 = Len(l) /\ Len(l) \in 0..Len(l)
      /\ \A i \in 1..Len(l) : m[i] = l[i]
  BY <1>1, RecordFacts DEF Added
<1>3. LogType(m)
  BY <1>1, AddedType
<1>4. Chained(m, Len(m))
  <2>1. \A s : RowAt(m, Len(l), s) = RowAt(l, Len(l), s)
    BY <1>1, <1>2, LastingAdded
  <2>2. QED
    BY <1>2, <2>1 DEF Chained
<1>5. ASSUME NEW i \in 1..Len(l) PROVE Chained(m, i)
  <2>1. i - 1 \in 0..Len(l) /\ m[i] = l[i]
    BY <1>2
  <2>2. Cancelled(m, i) <=> Cancelled(l, i)
    BY <1>1, CancelledAdded DEF Cancels
  <2>3. \A s : RowAt(m, i - 1, s) = RowAt(l, i - 1, s)
    BY <1>1, <2>1, LastingAdded
  <2>4. Chained(l, i)
    BY DEF LogInv
  <2>5. QED
    BY <2>1, <2>2, <2>3, <2>4 DEF Chained
<1>6. ASSUME NEW i \in 1..Len(m)
      PROVE  Follows(m, i) /\ Begun(m, i) /\ Chained(m, i) /\ Counted(m, i)
  <2>1. CASE i = Len(m)
    BY <1>4, <2>1
  <2>2. CASE i # Len(m)
    <3>1. i \in 1..Len(l)
      BY <1>2, <2>2
    <3>2. QED
      BY <1>1, <1>5, <3>1, RulesAdded DEF LogInv
  <2>3. QED
    BY <2>1, <2>2
<1>7. QED
  BY <1>3, <1>6 DEF LogInv

-----------------------------------------------------------------------------
(* The last BW of a process.                                               *)
LEMMA StartFacts ==
  ASSUME NEW l, LogType(l), NEW p
  PROVE  /\ StartOf(l, p) \in 0..Len(l) /\ Len(l) \in Nat
         /\ StartOf(l, p) # 0 => l[StartOf(l, p)] = Mark(p, "BW")
         /\ \A i \in 1..Len(l) : l[i] = Mark(p, "BW") => i <= StartOf(l, p)
<1> DEFINE T == {0} \union {i \in 1..Len(l) : l[i] = Mark(p, "BW")}
<1>1. Len(l) \in Nat
  BY RecordFacts
<1>2. T \in SUBSET Nat /\ T # {} /\ \A y \in T : y <= Len(l)
  BY <1>1
<1>3. Max(T) \in T /\ \A y \in T : y <= Max(T)
  <2> HIDE DEF T
  <2>1. QED
    BY <1>1, <1>2, MaxNumber
<1>4. StartOf(l, p) = Max(T)
  BY DEF StartOf
<1>5. QED
  BY <1>1, <1>3, <1>4

(* Only a BW of the process moves it.                                      *)
LEMMA StartAdded ==
  ASSUME NEW l, LogType(l), NEW e, NEW m, Added(l, m, e), NEW p
  PROVE  /\ e # Mark(p, "BW") => StartOf(m, p) = StartOf(l, p)
         /\ e = Mark(p, "BW") /\ LogType(m) => StartOf(m, p) = Len(m)
<1>1. /\ Len(l) \in Nat /\ Len(m) = Len(l) + 1 /\ m[Len(m)] = e
      /\ \A i \in 1..Len(l) : m[i] = l[i]
  BY RecordFacts DEF Added
<1>2. ASSUME e # Mark(p, "BW") PROVE StartOf(m, p) = StartOf(l, p)
  <2>1. {i \in 1..Len(m) : m[i] = Mark(p, "BW")}
          = {i \in 1..Len(l) : l[i] = Mark(p, "BW")}
    BY <1>1, <1>2
  <2>2. QED
    BY <2>1 DEF StartOf
<1>3. ASSUME e = Mark(p, "BW"), LogType(m) PROVE StartOf(m, p) = Len(m)
  <2>1. Len(m) \in 1..Len(m) /\ StartOf(m, p) \in 0..Len(m)
    BY <1>1, <1>3, StartFacts
  <2>2. Len(m) <= StartOf(m, p)
    BY <1>1, <1>3, <2>1, StartFacts
  <2>3. QED
    BY <1>1, <2>1, <2>2
<1>4. QED
  BY <1>2, <1>3

(* The changes of a transaction, when the log grows.                       *)
LEMMA ChangesAdded ==
  ASSUME NEW l, LogType(l), NEW e, NEW m, Added(l, m, e), NEW p,
         e # Mark(p, "BW")
  PROVE  ChangesOf(m, p) = ChangesOf(l, p) \union
           (IF e.proc = p /\ e.op \in Changing THEN {Len(m)} ELSE {})
<1>1. /\ Len(l) \in Nat /\ Len(m) = Len(l) + 1 /\ m[Len(m)] = e
      /\ \A i \in 1..Len(l) : m[i] = l[i]
  BY RecordFacts DEF Added
<1>2. StartOf(m, p) = StartOf(l, p) /\ StartOf(l, p) \in 0..Len(l)
  BY StartAdded, StartFacts
<1> DEFINE s == StartOf(l, p)
<1>3. /\ ChangesOf(m, p) =
           {i \in (s + 1)..Len(m) : m[i].proc = p /\ m[i].op \in Changing}
      /\ ChangesOf(l, p) =
           {i \in (s + 1)..Len(l) : l[i].proc = p /\ l[i].op \in Changing}
  BY <1>2 DEF ChangesOf
<1>4. s \in Nat /\ s + 1 <= Len(m)
  BY <1>1, <1>2
<1> HIDE DEF s
<1>5. (s + 1)..Len(m) = ((s + 1)..Len(l)) \union {Len(m)}
  BY <1>1, <1>4
<1>6. \A i \in (s + 1)..Len(l) : i # Len(m) /\ m[i] = l[i]
  BY <1>1, <1>4
<1>7. QED
  BY <1>1, <1>3, <1>5, <1>6

(* The changes of a transaction are records of its process behind its BW.  *)
LEMMA ChangesFacts ==
  ASSUME NEW l, LogType(l), NEW p
  PROVE  /\ ChangesOf(l, p) \in SUBSET (1..Len(l))
         /\ \A i \in ChangesOf(l, p) :
              /\ l[i].proc = p /\ l[i].op \in Changing
              /\ i > StartOf(l, p) /\ l[i].number \in Row
              /\ l[i].old \in {NoKey} \union KeyOf[p]
<1>1. StartOf(l, p) \in 0..Len(l) /\ Len(l) \in Nat
  BY StartFacts
<1>2. ASSUME NEW i \in ChangesOf(l, p)
      PROVE  /\ i \in 1..Len(l)
             /\ l[i].proc = p /\ l[i].op \in Changing /\ i > StartOf(l, p)
  BY <1>1 DEF ChangesOf
<1>3. ASSUME NEW i \in ChangesOf(l, p)
      PROVE  /\ l[i].number \in Row /\ l[i].old \in {NoKey} \union KeyOf[p]
  BY <1>2, RecordFacts DEF KeysFit
<1>4. QED
  BY <1>2, <1>3

(* The first change of a row in a transaction.                             *)
LEMMA FirstChange ==
  ASSUME NEW l, LogType(l), NEW p, NEW r \in RowsOf(l, p)
  PROVE  \E i \in ChangesOf(l, p) :
           /\ l[i].number = r /\ OldOf(l, p, r) = l[i].old
           /\ \A j \in ChangesOf(l, p) : l[j].number = r => i <= j
<1> DEFINE T == {i \in ChangesOf(l, p) : l[i].number = r}
<1>1. T \in SUBSET Nat /\ T # {}
  BY ChangesFacts DEF RowsOf
<1>2. Min(T) \in T /\ \A y \in T : Min(T) <= y
  <2> HIDE DEF T
  <2>1. QED
    BY <1>1, MinNumber
<1>3. OldOf(l, p, r) = l[Min(T)].old
  BY DEF OldOf
<1> HIDE DEF T
<1>4. Min(T) \in ChangesOf(l, p) /\ l[Min(T)].number = r
  BY <1>2 DEF T
<1>5. \A j \in ChangesOf(l, p) : l[j].number = r => Min(T) <= j
  BY <1>2 DEF T
<1>6. QED
  BY <1>3, <1>4, <1>5

(* What a record leaves alone.                                             *)
LEMMA SameChanges ==
  ASSUME NEW l, LogType(l), NEW e, NEW m, Added(l, m, e), NEW q,
         ChangesOf(m, q) = ChangesOf(l, q)
  PROVE  /\ RowsOf(m, q) = RowsOf(l, q)
         /\ \A r \in RowsOf(l, q) : OldOf(m, q, r) = OldOf(l, q, r)
<1>1. \A i \in ChangesOf(l, q) : m[i] = l[i]
  BY ChangesFacts, ClassAdded
<1>2. RowsOf(m, q) = RowsOf(l, q)
  BY <1>1 DEF RowsOf
<1>3. ASSUME NEW r \in RowsOf(l, q) PROVE OldOf(m, q, r) = OldOf(l, q, r)
  <2> DEFINE T == {i \in ChangesOf(l, q) : l[i].number = r}
  <2>1. {i \in ChangesOf(m, q) : m[i].number = r} = T
    BY <1>1
  <2>2. OldOf(m, q, r) = m[Min(T)].old /\ OldOf(l, q, r) = l[Min(T)].old
    BY <2>1 DEF OldOf
  <2>3. T \in SUBSET Nat /\ T # {}
    BY ChangesFacts DEF RowsOf
  <2>4. Min(T) \in T
    <3> HIDE DEF T
    <3>1. QED
      BY <2>3, MinNumber
  <2>5. m[Min(T)] = l[Min(T)]
    BY <1>1, <2>4
  <2>6. QED
    BY <2>2, <2>5
<1>4. QED
  BY <1>2, <1>3

(* A row of a transaction stays its own as long as others leave it alone,  *)
(* which CanLock sees to.                                                  *)
LEMMA AloneAdded ==
  ASSUME NEW l, LogType(l), NEW e, NEW m, Added(l, m, e), NEW q,
         e # Mark(q, "BW"), AloneIn(l, q),
         e.op \in Changing => e.proc = q \/ e.number \notin RowsOf(l, q)
  PROVE  AloneIn(m, q)
<1>1. /\ Len(l) \in Nat /\ Len(m) = Len(l) + 1 /\ m[Len(m)] = e
      /\ \A i \in 1..Len(l) : m[i] = l[i]
  BY RecordFacts DEF Added
<1>2. SUFFICES ASSUME NEW i \in ChangesOf(m, q), NEW j \in (i + 1)..Len(m),
                      m[j].op \in Changing, m[j].number = m[i].number
               PROVE  m[j].proc = q
  BY DEF AloneIn
<1>3. i \in ChangesOf(l, q) \/ i = Len(m)
  BY ChangesAdded
<1>4. CASE i = Len(m)
  BY <1>1, <1>4
<1>5. CASE i \in ChangesOf(l, q)
  <2>1. i \in 1..Len(l) /\ m[i] = l[i]
    BY <1>1, <1>5, ChangesFacts
  <2>2. CASE j = Len(m)
    <3>1. m[i].number \in RowsOf(l, q)
      BY <1>5, <2>1 DEF RowsOf
    <3>2. QED
      BY <1>1, <1>2, <2>2, <3>1
  <2>3. CASE j # Len(m)
    <3>1. j \in (i + 1)..Len(l) /\ m[j] = l[j]
      BY <1>1, <2>1, <2>3
    <3>2. QED
      BY <1>2, <1>5, <2>1, <3>1 DEF AloneIn
  <2>4. QED
    BY <2>2, <2>3
<1>6. QED
  BY <1>3, <1>4, <1>5

(* Where the last record of a process may be.                              *)
LEMMA LatestPlace ==
  ASSUME NEW l, LogType(l), NEW p
  PROVE  Latest(l, Len(l), p) \in 0..Len(l)
BY RecordFacts, LatestFacts

(* A process stays in its transaction while it logs neither begin nor end. *)
LEMMA InsideAdded ==
  ASSUME NEW l, LogType(l), NEW e, NEW m, Added(l, m, e), NEW q,
         e # Mark(q, "BW"), e.proc = q => e.op \notin Ending
  PROVE  Inside(m, q) <=> Inside(l, q)
<1>1. /\ Len(l) \in Nat /\ Len(m) = Len(l) + 1 /\ m[Len(m)] = e
      /\ \A i \in 1..Len(l) : m[i] = l[i]
  BY RecordFacts DEF Added
<1>2. StartOf(m, q) = StartOf(l, q) /\ StartOf(l, q) \in 0..Len(l)
  BY StartAdded, StartFacts
<1> DEFINE s == StartOf(l, q)
<1>3. s \in Nat /\ \A k \in (s + 1)..Len(l) : k \in 1..Len(l)
  BY <1>2
<1>4. \A k \in (s + 1)..Len(m) : k = Len(m) \/ k \in (s + 1)..Len(l)
  BY <1>1, <1>2
<1>5. \A k \in (s + 1)..Len(l) : k \in (s + 1)..Len(m)
  BY <1>1, <1>2
<1> HIDE DEF s
<1>6. QED
  BY <1>1, <1>2, <1>3, <1>4, <1>5 DEF Inside, s

(* What one process logs moves no other.                                   *)
LEMMA OthersView ==
  ASSUME NEW l, LogType(l), NEW e, NEW m, Added(l, m, e), NEW q, e.proc # q
  PROVE  /\ Latest(m, Len(m), q) = Latest(l, Len(l), q)
         /\ ChangesOf(m, q) = ChangesOf(l, q)
         /\ RowsOf(m, q) = RowsOf(l, q)
         /\ \A r \in RowsOf(l, q) : OldOf(m, q, r) = OldOf(l, q, r)
         /\ \A t, o : WhereIs(m, t, o, q) <=> WhereIs(l, t, o, q)
<1>1. e # Mark(q, "BW")
  BY DEF Mark, Record
<1>2. Latest(m, Len(m), q) = Latest(l, Len(l), q)
  BY LatestAdded
<1>3. ChangesOf(m, q) = ChangesOf(l, q)
  <2>1. ~(e.proc = q /\ e.op \in Changing)
    OBVIOUS
  <2>2. ChangesOf(m, q) = ChangesOf(l, q) \union
          (IF e.proc = q /\ e.op \in Changing THEN {Len(m)} ELSE {})
    BY <1>1, ChangesAdded
  <2>3. QED
    BY <2>1, <2>2
<1>4. /\ RowsOf(m, q) = RowsOf(l, q)
      /\ \A r \in RowsOf(l, q) : OldOf(m, q, r) = OldOf(l, q, r)
  BY <1>3, SameChanges
<1>5. Inside(m, q) <=> Inside(l, q)
  BY <1>1, InsideAdded
<1> DEFINE j == Latest(l, Len(l), q)
<1>6. j \in 0..Len(l) /\ (j = 0 \/ j \in 1..Len(l))
  BY LatestPlace, RecordFacts
<1> HIDE DEF j
<1>7. /\ Out(m, j) = Out(l, j)
      /\ j # 0 => m[j] = l[j] /\ Opened(m, j) = Opened(l, j)
                  /\ Shut(m, j) = Shut(l, j)
  BY <1>6, ClassAdded
<1>8. Within(m, q) <=> Within(l, q)
  BY <1>2, <1>5, <1>7 DEF Within, j
<1>9. \A t, o : WhereIs(m, t, o, q) <=> WhereIs(l, t, o, q)
  BY <1>2, <1>7, <1>8 DEF WhereIs, j
<1>10. QED
  BY <1>2, <1>3, <1>4, <1>9

-----------------------------------------------------------------------------
(* The beginning of a rollback cancels the changes of the transaction.     *)
LEMMA CancelsChanges ==
  ASSUME NEW l, LogType(l), NEW p, Inside(l, p)
  PROVE  \A i \in 1..Len(l) :
           l[i].op \in Changing =>
             /\ Cancels(l, Mark(p, "RW"), i) <=> i \in ChangesOf(l, p)
             /\ i \in ChangesOf(l, p) => ~Cancelled(l, i)
<1> DEFINE s == StartOf(l, p)
<1>1. /\ s \in 1..Len(l) /\ Len(l) \in Nat /\ l[s] = Mark(p, "BW")
      /\ \A k \in (s + 1)..Len(l) : l[k].proc = p => l[k].op \notin Ending
  BY StartFacts DEF Inside
<1>2. l[s].proc = p /\ l[s].op = "BW"
  BY <1>1 DEF Mark, Record
<1>3. ChangesOf(l, p) =
        {i \in (s + 1)..Len(l) : l[i].proc = p /\ l[i].op \in Changing}
  BY DEF ChangesOf
<1>4. Mark(p, "RW").op = "RW" /\ Mark(p, "RW").proc = p
  BY DEF Mark, Record
<1> HIDE DEF s
<1>5. ASSUME NEW i \in 1..Len(l), l[i].op \in Changing
      PROVE  Cancels(l, Mark(p, "RW"), i) <=> i \in ChangesOf(l, p)
  <2>1. CASE i > s
    <3>1. i \in (s + 1)..Len(l)
      BY <1>1, <2>1
    <3>2. \A k \in (i + 1)..Len(l) : k \in (s + 1)..Len(l)
      BY <1>1, <2>1
    <3>3. QED
      BY <1>1, <1>3, <1>4, <1>5, <3>1, <3>2 DEF Cancels
  <2>2. CASE i = s
    BY <1>2, <1>5, <2>2 DEF Changing
  <2>3. CASE i < s
    <3>1. s \in (i + 1)..Len(l) /\ i \notin ChangesOf(l, p)
      BY <1>1, <1>3, <2>3
    <3>2. ~Cancels(l, Mark(p, "RW"), i)
      BY <1>2, <1>4, <3>1 DEF Cancels, Ending
    <3>3. QED
      BY <3>1, <3>2
  <2>4. QED
    BY <1>1, <2>1, <2>2, <2>3
<1>6. ASSUME NEW i \in ChangesOf(l, p) PROVE ~Cancelled(l, i)
  <2>1. \A x \in (i + 1)..Len(l) : x \in (s + 1)..Len(l) /\ l[i].proc = p
    BY <1>1, <1>3
  <2>2. QED
    BY <1>1, <2>1 DEF Cancelled, Ending
<1>7. QED
  BY <1>5, <1>6

(* When the transaction of p is cancelled, a row at any point n of the log *)
(* is either as it was or back to what it was before the first change of p,*)
(* as nobody else has changed it since.                                    *)
LEMMA CancelRow ==
  ASSUME NEW l, LogInv(l), NEW p, Inside(l, p), AloneIn(l, p), NEW m,
         Added(l, m, Mark(p, "RW")), NEW n \in 0..Len(l), NEW r
  PROVE  \/ /\ RowAt(m, n, r) = RowAt(l, n, r)
            /\ \A i \in ChangesOf(l, p) : i <= n => l[i].number # r
         \/ \E f \in ChangesOf(l, p) :
              /\ f <= n /\ l[f].number = r
              /\ \A j \in ChangesOf(l, p) : l[j].number = r => f <= j
              /\ RowAt(m, n, r) = l[f].old
<1> DEFINE C == ChangesOf(l, p)
<1>1. LogType(l)
  BY DEF LogInv
<1>2. /\ Len(l) \in Nat /\ n \in Nat /\ \A i \in 1..Len(l) : m[i] = l[i]
      /\ \A i \in 1..n : i \in 1..Len(l)
  BY <1>1, RecordFacts DEF Added
<1>3. /\ C \in SUBSET (1..Len(l))
      /\ \A i \in C : l[i].proc = p /\ l[i].op \in Changing
                      /\ i > StartOf(l, p)
  BY <1>1, ChangesFacts
<1>4. \A i \in 1..Len(l) : l[i].op \in Changing =>
        /\ Cancelled(m, i) <=> Cancelled(l, i) \/ i \in C
        /\ i \in C => ~Cancelled(l, i)
  BY <1>1, CancelledAdded, CancelsChanges
<1>5. Lasting(m, n, r) = Lasting(l, n, r) \ C
  <2> HIDE DEF C
  <2>1. QED
    BY <1>2, <1>4 DEF Lasting
<1>6. CASE \A i \in C : i <= n => l[i].number # r
  <2>1. Lasting(l, n, r) \ C = Lasting(l, n, r)
    <3> HIDE DEF C
    <3>1. QED
      BY <1>6 DEF Lasting
  <2>2. \A i \in Lasting(l, n, r) : m[i] = l[i]
    BY <1>2 DEF Lasting
  <2>3. RowAt(m, n, r) = RowAt(l, n, r)
    <3>1. Lasting(m, n, r) = Lasting(l, n, r)
      BY <1>5, <2>1
    <3> HIDE DEF C
    <3>2. QED
      BY <1>2, <2>2, <3>1, RowAtSame
  <2>4. QED
    BY <1>6, <2>3
<1>7. CASE ~ \A i \in C : i <= n => l[i].number # r
  <2>1. PICK i0 \in C : i0 <= n /\ l[i0].number = r
    BY <1>7
  <2>2. r \in RowsOf(l, p)
    BY <2>1 DEF RowsOf
  <2>3. PICK f \in C : /\ l[f].number = r
                       /\ \A j \in C : l[j].number = r => f <= j
    BY <1>1, <2>2, FirstChange
  <2>4. f <= n /\ f \in 1..Len(l) /\ f - 1 \in Nat
    BY <1>2, <1>3, <2>1, <2>3
  <2>5. Lasting(l, n, r) \ C = Lasting(l, f - 1, r)
    <3>1. ASSUME NEW x \in Lasting(l, n, r), x \notin C
          PROVE  x \in Lasting(l, f - 1, r)
      <4>1. x \in 1..n /\ x \in 1..Len(l) /\ x \in Nat /\ f \in Nat
            /\ l[x].op \in Changing /\ l[x].number = r
        BY <1>2, <2>4, <3>1 DEF Lasting
      <4>2. x # f
        BY <2>3, <3>1
      <4>3. ASSUME x > f PROVE FALSE
        <5>1. x \in (f + 1)..Len(l)
          BY <4>1, <4>3
        <5>2. l[x].proc = p
          BY <2>3, <4>1, <5>1 DEF AloneIn
        <5>3. StartOf(l, p) \in 0..Len(l) /\ f > StartOf(l, p)
          BY <1>1, <1>3, <2>3, StartFacts
        <5>4. x \in (StartOf(l, p) + 1)..Len(l)
          BY <4>1, <4>3, <5>3
        <5>5. QED
          BY <3>1, <4>1, <5>2, <5>4 DEF ChangesOf
      <4>4. x \in 1..(f - 1)
        BY <4>1, <4>2, <4>3
      <4>5. QED
        BY <3>1, <4>4 DEF Lasting
    <3>2. ASSUME NEW x \in Lasting(l, f - 1, r)
          PROVE  x \in Lasting(l, n, r) /\ x \notin C
      <4>1. x \in 1..(f - 1) /\ l[x].number = r
        BY DEF Lasting
      <4>2. x \in 1..n /\ ~(f <= x)
        BY <1>2, <2>4, <4>1
      <4>3. x \notin C
        BY <2>3, <4>1, <4>2
      <4>4. QED
        BY <3>2, <4>2, <4>3 DEF Lasting
    <3> HIDE DEF C
    <3>3. QED
      BY <3>1, <3>2
  <2>6. \A i \in Lasting(l, f - 1, r) : m[i] = l[i]
    <3>1. \A i \in 1..(f - 1) : i \in 1..Len(l)
      BY <2>4, <1>2
    <3>2. QED
      BY <1>2, <3>1 DEF Lasting
  <2>7. RowAt(m, n, r) = RowAt(l, f - 1, r)
    BY <1>5, <2>4, <2>5, <2>6, RowAtSame
  <2>8. l[f].old = RowAt(l, f - 1, r)
    <3>1. Chained(l, f)
      BY <2>4 DEF LogInv
    <3>2. l[f].op \in Changing /\ ~Cancelled(l, f)
      BY <1>3, <1>4, <2>3, <2>4
    <3>3. QED
      BY <2>3, <3>1, <3>2 DEF Chained
  <2>9. QED
    BY <2>3, <2>4, <2>7, <2>8
<1>8. QED
  BY <1>6, <1>7

(* The RW record keeps the rules of the log, and a recovery from then on   *)
(* makes the rows as they were before the transaction: what isrollback will*)
(* make of them in the table.                                              *)
LEMMA RollbackAdded ==
  ASSUME NEW l, LogInv(l), NEW p \in Proc, Inside(l, p), AloneIn(l, p), NEW m,
         Added(l, m, Mark(p, "RW")), Follows(m, Len(m))
  PROVE  /\ LogInv(m)
         /\ \A r : IF r \in RowsOf(l, p)
                   THEN RowAt(m, Len(m), r) = OldOf(l, p, r)
                   ELSE RowAt(m, Len(m), r) = RowAt(l, Len(l), r)
<1> DEFINE e == Mark(p, "RW")
           C == ChangesOf(l, p)
<1>1. /\ LogType(l) /\ e.op = "RW" /\ e.op \notin Changing
      /\ e.op \notin Counting \union {"FO"}
      /\ KeysFit(e)
  BY DEF LogInv, Mark, Record, Changing, Counting, KeysFit
<1> HIDE DEF e
<1>2. /\ Len(l) \in Nat /\ Len(m) = Len(l) + 1 /\ m[Len(m)] = e
      /\ Len(m) - 1 = Len(l) /\ Len(l) \in 0..Len(l)
      /\ Len(m) \in Nat /\ Len(m) # 0
      /\ \A i \in 1..Len(l) : m[i] = l[i]
  BY <1>1, RecordFacts DEF Added, e
<1>3. LogType(m)
  BY <1>1, AddedType DEF e
<1>4. /\ C \in SUBSET (1..Len(l))
      /\ \A i \in C : l[i].proc = p /\ l[i].op \in Changing
                      /\ i > StartOf(l, p)
                      /\ l[i].old \in {NoKey} \union KeyOf[p]
  BY <1>1, ChangesFacts
<1>5. ASSUME NEW i \in 1..Len(l) PROVE Chained(m, i)
  <2> SUFFICES ASSUME l[i].op \in Changing, ~Cancelled(m, i)
               PROVE  /\ l[i].old = RowAt(m, i - 1, l[i].number)
                      /\ l[i].new # NoKey =>
                           \A s \in Row \ {l[i].number} :
                             RowAt(m, i - 1, s) # l[i].new
    BY <1>2 DEF Chained
  <2>1. ~Cancelled(l, i) /\ i \notin C
    BY <1>1, CancelledAdded, CancelsChanges
  <2>2. /\ l[i].old = RowAt(l, i - 1, l[i].number)
        /\ l[i].new # NoKey =>
             \A s \in Row \ {l[i].number} : RowAt(l, i - 1, s) # l[i].new
    BY <2>1 DEF LogInv, Chained
  <2>3. i - 1 \in 0..Len(l) /\ i \in Nat
    BY <1>2
  <2>4. ASSUME NEW f \in C, f <= i - 1 PROVE l[i].proc # p
    <3>1. StartOf(l, p) \in 0..Len(l) /\ f > StartOf(l, p) /\ f \in 1..Len(l)
      BY <1>1, <1>4, StartFacts
    <3>2. i \in (StartOf(l, p) + 1)..Len(l)
      BY <2>3, <2>4, <3>1
    <3>3. QED
      BY <2>1, <3>2 DEF ChangesOf
  <2>5. ASSUME NEW f \in C, f <= i - 1 PROVE l[f].number # l[i].number
    <3>1. i \in (f + 1)..Len(l)
      BY <1>4, <2>3, <2>5
    <3>2. QED
      BY <2>4, <2>5, <3>1 DEF AloneIn
  <2>6. RowAt(m, i - 1, l[i].number) = RowAt(l, i - 1, l[i].number)
    BY <2>3, <2>5, CancelRow
  <2>7. ASSUME l[i].new # NoKey, NEW s \in Row \ {l[i].number}
        PROVE  RowAt(m, i - 1, s) # l[i].new
    <3>1. CASE RowAt(m, i - 1, s) = RowAt(l, i - 1, s)
      BY <2>2, <2>7, <3>1
    <3>2. CASE RowAt(m, i - 1, s) # RowAt(l, i - 1, s)
      <4>1. PICK f \in C : f <= i - 1 /\ RowAt(m, i - 1, s) = l[f].old
        BY <2>3, <3>2, CancelRow
      <4>2. l[i].proc # p /\ l[i].proc \in Proc
        BY <1>1, <2>4, <4>1, RecordFacts
      <4>3. l[i].new \in KeyOf[l[i].proc]
        BY <1>1, <2>7, RecordFacts DEF KeysFit
      <4>4. KeyOf[l[i].proc] \intersect KeyOf[p] = {}
        BY <4>2, RecoverAssumption
      <4>5. l[f].old \in {NoKey} \union KeyOf[p]
        BY <1>4
      <4>6. QED
        BY <2>7, <4>1, <4>3, <4>4, <4>5
    <3>3. QED
      BY <3>1, <3>2
  <2>8. QED
    BY <2>2, <2>6, <2>7
<1>6. /\ Begun(m, Len(m)) /\ Chained(m, Len(m)) /\ Counted(m, Len(m))
  BY <1>1, <1>2 DEF Begun, Opened, Chained, Counted, Changing, Counting
<1>7. ASSUME NEW i \in 1..Len(m)
      PROVE  Follows(m, i) /\ Begun(m, i) /\ Chained(m, i) /\ Counted(m, i)
  <2>1. CASE i = Len(m)
    BY <1>6, <2>1
  <2>2. CASE i # Len(m)
    <3>1. i \in 1..Len(l)
      BY <1>2, <2>2
    <3>2. QED
      BY <1>1, <1>5, <3>1, RulesAdded DEF LogInv
  <2>3. QED
    BY <2>1, <2>2
<1>8. LogInv(m)
  BY <1>3, <1>7 DEF LogInv
<1>9. ASSUME NEW r
      PROVE  IF r \in RowsOf(l, p)
             THEN RowAt(m, Len(m), r) = OldOf(l, p, r)
             ELSE RowAt(m, Len(m), r) = RowAt(l, Len(l), r)
  <2>1. RowAt(m, Len(m), r) = RowAt(m, Len(l), r)
    BY <1>1, <1>2, RowAtNext
  <2>2. CASE r \in RowsOf(l, p)
    <3>1. PICK g \in C : /\ l[g].number = r /\ OldOf(l, p, r) = l[g].old
                         /\ \A j \in C : l[j].number = r => g <= j
      BY <1>1, <2>2, FirstChange
    <3>2. g <= Len(l) /\ g \in Nat
      BY <1>2, <1>4
    <3>3. PICK f \in C : /\ l[f].number = r
                         /\ \A j \in C : l[j].number = r => f <= j
                         /\ RowAt(m, Len(l), r) = l[f].old
      BY <1>2, <3>1, <3>2, CancelRow
    <3>4. f <= g /\ g <= f /\ f \in Nat
      BY <1>4, <3>1, <3>3
    <3>5. f = g
      BY <3>2, <3>4
    <3>6. QED
      BY <2>1, <2>2, <3>1, <3>3, <3>5
  <2>3. CASE r \notin RowsOf(l, p)
    <3>1. \A f \in C : l[f].number # r
      BY <2>3 DEF RowsOf
    <3>2. RowAt(m, Len(l), r) = RowAt(l, Len(l), r)
      BY <1>2, <3>1, CancelRow
    <3>3. QED
      BY <2>1, <2>3, <3>2
  <2>4. QED
    BY <2>2, <2>3
<1>10. QED
  BY <1>8, <1>9

-----------------------------------------------------------------------------
(* What the records of a process leave alone.                              *)
OthersSee(l, m, p) ==
  \A q \in Proc \ {p} :
    /\ RowsOf(m, q) = RowsOf(l, q)
    /\ \A r \in RowsOf(l, q) : OldOf(m, q, r) = OldOf(l, q, r)
    /\ \A t, o : WhereIs(m, t, o, q) <=> WhereIs(l, t, o, q)

(* Rows of transactions stay theirs; the rows and the id of a recovery stay.*)
AloneKept(l, m, Q) == \A q \in Q : AloneIn(l, q) => AloneIn(m, q)

RowsKept(l, m) == \A r : RowAt(m, Len(m), r) = RowAt(l, Len(l), r)
IdsKept(l, m)  == \A u : IdAt(m, Len(m), u) <=> IdAt(l, Len(l), u)

(* All of it: the records of p from l to m disturb nothing.                *)
Kept(l, m, p) ==
  /\ LogInv(m)
  /\ OthersSee(l, m, p) /\ AloneKept(l, m, Proc \ {p})
  /\ RowsKept(l, m) /\ IdsKept(l, m)

(* A record leaves the other processes as they are.                        *)
LEMMA OthersAdded ==
  ASSUME NEW l, LogType(l), NEW e, NEW m, Added(l, m, e),
         NEW Q \in SUBSET (Proc \ {e.proc}),
         e.op \in Changing => \A q \in Q : e.number \notin RowsOf(l, q)
  PROVE  OthersSee(l, m, e.proc) /\ AloneKept(l, m, Q)
<1>1. ASSUME NEW q \in Q, AloneIn(l, q) PROVE AloneIn(m, q)
  <2>1. e # Mark(q, "BW")
    BY DEF Mark, Record
  <2>2. QED
    BY <1>1, <2>1, AloneAdded
<1>2. ASSUME NEW q \in Proc \ {e.proc}
      PROVE  /\ RowsOf(m, q) = RowsOf(l, q)
             /\ \A r \in RowsOf(l, q) : OldOf(m, q, r) = OldOf(l, q, r)
             /\ \A t, o : WhereIs(m, t, o, q) <=> WhereIs(l, t, o, q)
  BY OthersView
<1>3. QED
  BY <1>1, <1>2 DEF OthersSee, AloneKept

(* Two records one after the other.                                        *)
LEMMA KeptTwice ==
  ASSUME NEW l, NEW m, NEW n, NEW p, Kept(l, m, p), Kept(m, n, p)
  PROVE  Kept(l, n, p)
<1>1. OthersSee(l, n, p)
  BY DEF Kept, OthersSee
<1>2. RowsKept(l, n) /\ IdsKept(l, n) /\ LogInv(n)
      /\ AloneKept(l, n, Proc \ {p})
  BY DEF Kept, RowsKept, IdsKept, AloneKept
<1>3. QED
  BY <1>1, <1>2 DEF Kept

(* Records that neither change a row or the id nor undo a change.          *)
LEMMA QuietAdded ==
  ASSUME NEW l, LogInv(l), NEW p \in Proc, NEW x \in {"BW", "FO", "FC", "CW"},
         NEW m, Added(l, m, Mark(p, x)), Follows(m, Len(m)), Begun(m, Len(m))
  PROVE  Kept(l, m, p)
<1> DEFINE e == Mark(p, x)
<1>1. /\ e.op = x /\ e.proc = p /\ LogType(l)
  BY DEF Mark, Record, LogInv
<1>2. /\ e.op # "RW" /\ e.op \notin Changing /\ e.op \notin Counting
      /\ KeysFit(e)
  BY <1>1 DEF Changing, Counting, KeysFit
<1>3. Added(l, m, e) /\ m[Len(m)] = e
  BY DEF Added
<1> HIDE DEF e
<1>4. Counted(m, Len(m))
  BY <1>2, <1>3 DEF Counted, Counting
<1>5. LogInv(m)
  BY <1>2, <1>3, <1>4, LogAdded
<1>6. OthersSee(l, m, p) /\ AloneKept(l, m, Proc \ {p})
  BY <1>1, <1>2, <1>3, OthersAdded
<1>7. RowsKept(l, m)
  BY <1>1, <1>2, <1>3, RowAtAdded DEF RowsKept
<1>8. IdsKept(l, m)
  BY <1>1, <1>2, <1>3, IdsAdded DEF IdsKept
<1>9. QED
  BY <1>5, <1>6, <1>7, <1>8 DEF Kept

(* The last record of the process, before a record more and after it.      *)
LEMMA NewLatest ==
  ASSUME NEW l, LogType(l), NEW e, NEW m, Added(l, m, e), NEW p, e.proc = p
  PROVE  LET j == Latest(l, Len(l), p) IN
         /\ Len(m) \in Nat \ {0} /\ m[Len(m)] = e
         /\ Latest(m, Len(m), p) = Len(m)
         /\ Latest(m, Len(m) - 1, p) = j
         /\ Out(m, j) = Out(l, j)
         /\ j # 0 => /\ j \in 1..Len(l) /\ m[j] = l[j] /\ l[j].proc = p
                     /\ Opened(m, j) = Opened(l, j)
                     /\ Shut(m, j) = Shut(l, j)
<1> DEFINE j == Latest(l, Len(l), p)
<1>1. /\ Len(l) \in Nat /\ Len(m) = Len(l) + 1 /\ Len(m) - 1 = Len(l)
      /\ Len(l) \in 0..Len(l) /\ m[Len(m)] = e
  BY RecordFacts DEF Added
<1>2. Latest(m, Len(m), p) = Len(m) /\ Latest(m, Len(m) - 1, p) = j
  BY <1>1, LatestAdded
<1>3. j \in 0..Len(l) /\ (j # 0 => l[j].proc = p)
  BY <1>1, LatestFacts
<1> HIDE DEF j
<1>4. j # 0 => j \in 1..Len(l)
  BY <1>1, <1>3
<1>5. Out(m, j) = Out(l, j)
  BY <1>3, ClassAdded
<1>6. j # 0 => m[j] = l[j] /\ Opened(m, j) = Opened(l, j)
               /\ Shut(m, j) = Shut(l, j)
  BY <1>4, ClassAdded
<1>7. QED
  BY <1>1, <1>2, <1>3, <1>4, <1>5, <1>6 DEF j

(* The begin record of a transaction.                                      *)
LEMMA BeginAdded ==
  ASSUME NEW l, LogInv(l), NEW p \in Proc, Out(l, Latest(l, Len(l), p)),
         NEW m, Added(l, m, Mark(p, "BW"))
  PROVE  /\ Kept(l, m, p)
         /\ m[Latest(m, Len(m), p)].op = "BW" /\ Latest(m, Len(m), p) # 0
         /\ Inside(m, p) /\ ChangesOf(m, p) = {}
<1> DEFINE e == Mark(p, "BW")
           j == Latest(l, Len(l), p)
<1>1. /\ e.op = "BW" /\ e.proc = p /\ LogType(l) /\ KeysFit(e)
      /\ Added(l, m, e)
  BY DEF Mark, Record, LogInv, KeysFit, Changing
<1>2. /\ Len(m) \in Nat \ {0} /\ m[Len(m)] = e
      /\ Latest(m, Len(m), p) = Len(m)
      /\ Latest(m, Len(m) - 1, p) = j
      /\ Out(m, j) = Out(l, j)
  <2> HIDE DEF e
  <2>1. /\ Len(m) \in Nat \ {0} /\ m[Len(m)] = e
        /\ Latest(m, Len(m), p) = Len(m)
        /\ Latest(m, Len(m) - 1, p) = j
    BY <1>1, NewLatest
  <2>2. Out(m, j) = Out(l, j)
    BY <1>1, LatestPlace, ClassAdded
  <2>3. QED
    BY <2>1, <2>2
<1>3. LogType(m)
  BY <1>1, AddedType
<1>4. Follows(m, Len(m))
  <2>1. e.op \notin Changing \union Counting
    BY <1>1 DEF Changing, Counting
  <2>2. QED
    BY <1>1, <1>2, <2>1 DEF Follows
<1>5. Begun(m, Len(m))
  BY <1>1, <1>2 DEF Begun, Opened, Changing, Counting
<1>6. Kept(l, m, p)
  BY <1>4, <1>5, QuietAdded
<1>7. StartOf(m, p) = Len(m)
  BY <1>1, <1>3, StartAdded
<1>8. (Len(m) + 1)..Len(m) = {}
  BY <1>2
<1>9. Inside(m, p) /\ ChangesOf(m, p) = {}
  BY <1>2, <1>7, <1>8 DEF Inside, ChangesOf
<1>10. QED
  BY <1>1, <1>2, <1>6, <1>9

(* A record that is of a transaction that goes on.                         *)
LEMMA BegunAdded ==
  ASSUME NEW l, LogType(l), NEW e, NEW m, Added(l, m, e), Inside(l, e.proc),
         e.op \notin Ending
  PROVE  /\ Begun(m, Len(m)) /\ Inside(m, e.proc)
         /\ ChangesOf(m, e.proc) = ChangesOf(l, e.proc) \union
              (IF e.op \in Changing THEN {Len(m)} ELSE {})
<1> DEFINE s == StartOf(l, e.proc)
<1>1. /\ Len(l) \in Nat /\ Len(m) = Len(l) + 1 /\ m[Len(m)] = e
      /\ \A i \in 1..Len(l) : m[i] = l[i]
  BY RecordFacts DEF Added
<1>2. /\ s \in 1..Len(l) /\ l[s] = Mark(e.proc, "BW")
      /\ \A k \in (s + 1)..Len(l) : l[k].proc = e.proc => l[k].op \notin Ending
  BY <1>1, StartFacts DEF Inside
<1>3. e # Mark(e.proc, "BW")
  BY DEF Mark, Record, Ending
<1>4. Inside(m, e.proc)
  BY <1>3, InsideAdded
<1>5. ChangesOf(m, e.proc) = ChangesOf(l, e.proc) \union
        (IF e.op \in Changing THEN {Len(m)} ELSE {})
  <2>1. ChangesOf(m, e.proc) = ChangesOf(l, e.proc) \union
          (IF e.proc = e.proc /\ e.op \in Changing THEN {Len(m)} ELSE {})
    BY <1>3, ChangesAdded
  <2>2. QED
    BY <2>1
<1> HIDE DEF s
<1>6. s \in 1..(Len(m) - 1) /\ m[s] = Mark(m[Len(m)].proc, "BW")
  BY <1>1, <1>2
<1>7. ASSUME NEW k \in (s + 1)..Len(m), m[k].proc = m[Len(m)].proc
      PROVE  m[k].op \notin Ending
  <2>1. CASE k = Len(m)
    BY <1>1, <2>1
  <2>2. CASE k # Len(m)
    <3>1. k \in (s + 1)..Len(l) /\ k \in 1..Len(l)
      BY <1>1, <1>2, <2>2
    <3>2. QED
      BY <1>1, <1>2, <1>7, <3>1
  <2>3. QED
    BY <2>1, <2>2
<1>8. Begun(m, Len(m))
  BY <1>6, <1>7 DEF Begun
<1>9. QED
  BY <1>4, <1>5, <1>8

(* The open record of the handle.                                          *)
LEMMA OpenAdded ==
  ASSUME NEW l, LogInv(l), NEW p \in Proc, Inside(l, p),
         Latest(l, Len(l), p) # 0, l[Latest(l, Len(l), p)].op = "BW",
         NEW m, Added(l, m, Mark(p, "FO"))
  PROVE  /\ Kept(l, m, p) /\ Within(m, p)
         /\ ChangesOf(m, p) = ChangesOf(l, p)
<1> DEFINE e == Mark(p, "FO")
           j == Latest(l, Len(l), p)
<1>1. /\ e.op = "FO" /\ e.proc = p /\ LogType(l) /\ e.op \notin Ending
      /\ e.op \notin Changing \union Counting
  BY DEF Mark, Record, LogInv, Ending, Changing, Counting
<1>2. /\ Len(m) \in Nat \ {0} /\ m[Len(m)] = e
      /\ Latest(m, Len(m), p) = Len(m)
      /\ Latest(m, Len(m) - 1, p) = j
      /\ j # 0 => m[j] = l[j]
  BY <1>1, NewLatest
<1> HIDE DEF j
<1>3. Follows(m, Len(m))
  BY <1>1, <1>2 DEF Follows, j
<1>4. Begun(m, Len(m)) /\ Inside(m, p) /\ ChangesOf(m, p) = ChangesOf(l, p)
  BY <1>1, BegunAdded
<1>5. Kept(l, m, p)
  BY <1>3, <1>4, QuietAdded
<1>6. Within(m, p)
  BY <1>1, <1>2, <1>4 DEF Within, Opened
<1>7. QED
  BY <1>4, <1>5, <1>6

-----------------------------------------------------------------------------
(* The last record of a process that goes on is one of its transaction.    *)
LEMMA WithinFacts ==
  ASSUME NEW l, NEW p, Within(l, p)
  PROVE  LET j == Latest(l, Len(l), p) IN
         /\ j # 0 /\ Opened(l, j) /\ Inside(l, p)
         /\ l[j].op # "RW" /\ l[j].op # "BW"
BY DEF Within, Opened, Changing, Counting

(* A change or an id within a transaction keeps the order of records.      *)
LEMMA WithinAdded ==
  ASSUME NEW l, LogInv(l), NEW p \in Proc, Within(l, p),
         NEW e, e.proc = p, e.op \in Changing \union Counting,
         NEW m, Added(l, m, e)
  PROVE  /\ Follows(m, Len(m)) /\ Begun(m, Len(m)) /\ Within(m, p)
         /\ ChangesOf(m, p) = ChangesOf(l, p) \union
              (IF e.op \in Changing THEN {Len(m)} ELSE {})
<1> DEFINE j == Latest(l, Len(l), p)
<1>1. /\ LogType(l) /\ e.op \notin Ending
      /\ e.op \notin {"BW", "FO", "FC", "CW", "RW"}
  BY DEF LogInv, Ending, Changing, Counting
<1>2. j # 0 /\ Opened(l, j) /\ Inside(l, p)
  BY WithinFacts
<1>3. /\ Len(m) \in Nat \ {0} /\ m[Len(m)] = e
      /\ Latest(m, Len(m), p) = Len(m)
      /\ Latest(m, Len(m) - 1, p) = j
      /\ j # 0 => Opened(m, j) = Opened(l, j)
  BY <1>1, NewLatest
<1> HIDE DEF j
<1>4. Follows(m, Len(m))
  BY <1>1, <1>2, <1>3 DEF Follows
<1>5. /\ Begun(m, Len(m)) /\ Inside(m, p)
      /\ ChangesOf(m, p) = ChangesOf(l, p) \union
           (IF e.op \in Changing THEN {Len(m)} ELSE {})
  BY <1>1, <1>2, BegunAdded
<1>6. Within(m, p)
  BY <1>3, <1>5 DEF Within, Opened
<1>7. QED
  BY <1>4, <1>5, <1>6

(* The record of a change of a row.                                        *)
LEMMA ChangeAdded ==
  ASSUME NEW l, LogInv(l), NEW p \in Proc, Within(l, p), AloneIn(l, p),
         NEW e, e.proc = p, e.op \in Changing, KeysFit(e),
         e.old = RowAt(l, Len(l), e.number),
         e.new # NoKey =>
           \A s \in Row \ {e.number} : RowAt(l, Len(l), s) # e.new,
         NEW Q \in SUBSET (Proc \ {p}),
         \A q \in Q : e.number \notin RowsOf(l, q),
         NEW m, Added(l, m, e)
  PROVE  /\ LogInv(m) /\ Within(m, p) /\ AloneIn(m, p)
         /\ OthersSee(l, m, p) /\ AloneKept(l, m, Q) /\ IdsKept(l, m)
         /\ \A r : RowAt(m, Len(m), r) = IF e.number = r THEN e.new
                                         ELSE RowAt(l, Len(l), r)
<1>1. /\ LogType(l) /\ e.op # "RW" /\ e.op \notin Counting
      /\ m[Len(m)] = e
  BY DEF LogInv, Changing, Counting, Added
<1>2. Follows(m, Len(m)) /\ Begun(m, Len(m)) /\ Within(m, p)
  BY WithinAdded
<1>3. Counted(m, Len(m))
  BY <1>1 DEF Counted, Counting
<1>4. LogInv(m)
  BY <1>1, <1>2, <1>3, LogAdded
<1>5. e # Mark(p, "BW")
  BY DEF Mark, Record, Changing
<1>6. AloneIn(m, p)
  BY <1>1, <1>5, AloneAdded
<1>7. OthersSee(l, m, p) /\ AloneKept(l, m, Q)
  BY <1>1, OthersAdded
<1>8. IdsKept(l, m)
  BY <1>1, IdsAdded DEF IdsKept
<1>9. \A r : RowAt(m, Len(m), r) = IF e.number = r THEN e.new
                                   ELSE RowAt(l, Len(l), r)
  BY <1>1, RowAtAdded
<1>10. QED
  BY <1>2, <1>4, <1>6, <1>7, <1>8, <1>9

(* The ids that the log has seen, one record further.                      *)
LEMMA IdSetNext ==
  ASSUME NEW l, LogType(l), NEW a \in 1..Len(l)
  PROVE  /\ l[a].op \notin Counting => IdSet(l, a) = IdSet(l, a - 1)
         /\ l[a].op = "UN" =>
              IdSet(l, a) = IdSet(l, a - 1) \union {l[a].number + 1}
         /\ l[a].op = "SU" =>
              IdSet(l, a) = IdSet(l, a - 1) \union {l[a].number}
         /\ \A u \in IdSet(l, a - 1) : u \in Nat
<1>1. /\ Len(l) \in Nat /\ a \in Nat
      /\ \A i \in 1..Len(l) : l[i].number \in Nat
  BY RecordFacts
<1>2. 1..a = 1..(a - 1) \union {a} /\ \A i \in 1..(a - 1) : i \in 1..Len(l)
  BY <1>1
<1> DEFINE U(n) == {j \in 1..n : l[j].op = "UN"}
           S(n) == {j \in 1..n : l[j].op = "SU"}
<1>3. /\ U(a) = U(a - 1) \union (IF l[a].op = "UN" THEN {a} ELSE {})
      /\ S(a) = S(a - 1) \union (IF l[a].op = "SU" THEN {a} ELSE {})
  BY <1>2
<1>4. \A i \in U(a - 1) \union S(a - 1) : l[i].number \in Nat
  BY <1>1, <1>2
<1>5. \A n : IdSet(l, n) = {1} \union {l[i].number + 1 : i \in U(n)}
                               \union {l[i].number : i \in S(n)}
  BY DEF IdSet
<1> HIDE DEF U, S
<1>6. ASSUME l[a].op \notin Counting PROVE IdSet(l, a) = IdSet(l, a - 1)
  <2>1. U(a) = U(a - 1) /\ S(a) = S(a - 1)
    BY <1>3, <1>6 DEF Counting
  <2>2. QED
    BY <1>5, <2>1
<1>7. ASSUME l[a].op = "UN"
      PROVE  IdSet(l, a) = IdSet(l, a - 1) \union {l[a].number + 1}
  <2>1. U(a) = U(a - 1) \union {a} /\ S(a) = S(a - 1)
    BY <1>3, <1>7
  <2>2. QED
    BY <1>5, <2>1
<1>8. ASSUME l[a].op = "SU"
      PROVE  IdSet(l, a) = IdSet(l, a - 1) \union {l[a].number}
  <2>1. U(a) = U(a - 1) /\ S(a) = S(a - 1) \union {a}
    BY <1>3, <1>8
  <2>2. QED
    BY <1>5, <2>1
<1>9. \A u \in IdSet(l, a - 1) : u \in Nat
  BY <1>4, <1>5
<1>10. QED
  BY <1>6, <1>7, <1>8, <1>9

(* The ids that the log has seen, with the record of one more.             *)
LEMMA IdSetAdded ==
  ASSUME NEW l, LogType(l), NEW e, NEW m, Added(l, m, e), LogType(m)
  PROVE  /\ IdSet(m, Len(m) - 1) = IdSet(l, Len(l))
         /\ e.op = "UN" => IdSet(m, Len(m)) =
                             IdSet(l, Len(l)) \union {e.number + 1}
         /\ e.op = "SU" => IdSet(m, Len(m)) =
                             IdSet(l, Len(l)) \union {e.number}
         /\ \A u \in IdSet(l, Len(l)) : u \in Nat
<1>1. /\ Len(l) \in Nat /\ Len(m) - 1 = Len(l) /\ m[Len(m)] = e
      /\ Len(m) \in 1..Len(m) /\ \A i \in 1..Len(l) : m[i] = l[i]
  BY RecordFacts DEF Added
<1>2. IdSet(m, Len(l)) = IdSet(l, Len(l))
  <2>1. {j \in 1..Len(l) : m[j].op = "UN"} = {j \in 1..Len(l) : l[j].op = "UN"}
    BY <1>1
  <2>2. {j \in 1..Len(l) : m[j].op = "SU"} = {j \in 1..Len(l) : l[j].op = "SU"}
    BY <1>1
  <2>3. {m[i].number + 1 : i \in {j \in 1..Len(l) : l[j].op = "UN"}} =
        {l[i].number + 1 : i \in {j \in 1..Len(l) : l[j].op = "UN"}}
    BY <1>1
  <2>4. {m[i].number : i \in {j \in 1..Len(l) : l[j].op = "SU"}} =
        {l[i].number : i \in {j \in 1..Len(l) : l[j].op = "SU"}}
    BY <1>1
  <2>5. QED
    BY <2>1, <2>2, <2>3, <2>4 DEF IdSet
<1>3. /\ e.op = "UN" =>
           IdSet(m, Len(m)) = IdSet(m, Len(m) - 1) \union {e.number + 1}
      /\ e.op = "SU" =>
           IdSet(m, Len(m)) = IdSet(m, Len(m) - 1) \union {e.number}
      /\ \A u \in IdSet(m, Len(m) - 1) : u \in Nat
  BY <1>1, IdSetNext
<1>4. QED
  BY <1>1, <1>2, <1>3

(* A unique id handed out, or set, is one that the log goes on from.       *)
LEMMA CountAdded ==
  ASSUME NEW l, LogInv(l), NEW p \in Proc, Within(l, p), AloneIn(l, p),
         NEW e, e.proc = p, e.op \in Counting,
         NEW u, IdAt(l, Len(l), u), e.number \in Nat,
         e.op = "UN" => e.number = u,
         NEW m, Added(l, m, e)
  PROVE  /\ LogInv(m) /\ Within(m, p) /\ AloneIn(m, p)
         /\ OthersSee(l, m, p) /\ AloneKept(l, m, Proc \ {p})
         /\ RowsKept(l, m)
         /\ e.op = "UN" => IdAt(m, Len(m), u + 1)
         /\ e.op = "SU" => IdAt(m, Len(m), Max({u, e.number}))
<1>1. /\ LogType(l) /\ e.op # "RW" /\ e.op \notin Changing
      /\ m[Len(m)] = e /\ e.op \in {"UN", "SU"}
      /\ KeysFit(e)
  BY DEF LogInv, Changing, Counting, Added, KeysFit
<1>2. LogType(m)
  BY <1>1, AddedType
<1>3. Follows(m, Len(m)) /\ Begun(m, Len(m)) /\ Within(m, p)
  BY WithinAdded
<1>4. /\ IdSet(m, Len(m) - 1) = IdSet(l, Len(l))
      /\ u \in Nat /\ u \in IdSet(l, Len(l))
      /\ \A x \in IdSet(l, Len(l)) : x \in Nat /\ x <= u
  BY <1>2, <1>1, IdSetAdded DEF IdAt
<1>5. Counted(m, Len(m))
  BY <1>1, <1>4 DEF Counted, IdAt
<1>6. LogInv(m)
  BY <1>1, <1>3, <1>5, LogAdded
<1>7. AloneIn(m, p)
  <2>1. e # Mark(p, "BW")
    BY DEF Mark, Record, Counting
  <2>2. QED
    BY <1>1, <2>1, AloneAdded
<1>8. OthersSee(l, m, p) /\ AloneKept(l, m, Proc \ {p})
  BY <1>1, OthersAdded
<1>9. RowsKept(l, m)
  BY <1>1, RowAtAdded DEF RowsKept
<1>10. ASSUME e.op = "UN" PROVE IdAt(m, Len(m), u + 1)
  <2>1. IdSet(m, Len(m)) = IdSet(l, Len(l)) \union {u + 1}
    BY <1>2, <1>1, <1>10, IdSetAdded
  <2>2. QED
    BY <1>4, <2>1 DEF IdAt
<1>11. ASSUME e.op = "SU" PROVE IdAt(m, Len(m), Max({u, e.number}))
  <2>1. IdSet(m, Len(m)) = IdSet(l, Len(l)) \union {e.number}
    BY <1>2, <1>1, <1>11, IdSetAdded
  <2>2. PICK w : w = Max({u, e.number})
    OBVIOUS
  <2>3. w = IF u <= e.number THEN e.number ELSE u
    BY <1>4, <2>2, MaxOfTwo
  <2>4. w \in IdSet(m, Len(m)) /\ \A x \in IdSet(m, Len(m)) : x <= w
    BY <1>4, <2>1, <2>3
  <2>5. QED
    BY <2>2, <2>4 DEF IdAt
<1>12. QED
  BY <1>3, <1>6, <1>7, <1>8, <1>9, <1>10, <1>11

(* The close record of the handle.                                         *)
LEMMA CloseAdded ==
  ASSUME NEW l, LogInv(l), NEW p \in Proc, Latest(l, Len(l), p) # 0,
         Opened(l, Latest(l, Len(l), p)) \/ l[Latest(l, Len(l), p)].op = "RW",
         NEW m, Added(l, m, Mark(p, "FC"))
  PROVE  LET j == Latest(l, Len(l), p)
             k == Latest(m, Len(m), p) IN
         /\ Kept(l, m, p) /\ k # 0
         /\ IF l[j].op = "RW" THEN Out(m, k) ELSE Shut(m, k)
         /\ Inside(l, p) => /\ Inside(m, p)
                            /\ ChangesOf(m, p) = ChangesOf(l, p)
<1> DEFINE e == Mark(p, "FC")
           j == Latest(l, Len(l), p)
<1>1. /\ e.op = "FC" /\ e.proc = p /\ LogType(l) /\ Added(l, m, e)
      /\ e.op \notin {"BW", "FO", "CW", "RW"}
      /\ e.op \notin Changing \union Counting /\ e.op \notin Ending
  BY DEF Mark, Record, LogInv, Changing, Counting, Ending
<1> HIDE DEF e
<1>2. /\ Len(m) \in Nat \ {0} /\ m[Len(m)] = e
      /\ Latest(m, Len(m), p) = Len(m)
      /\ Latest(m, Len(m) - 1, p) = j
      /\ j # 0 => m[j] = l[j] /\ Opened(m, j) = Opened(l, j)
  BY <1>1, NewLatest
<1> HIDE DEF j
<1>3. Follows(m, Len(m))
  BY <1>1, <1>2 DEF Follows, j
<1>4. Begun(m, Len(m))
  BY <1>1, <1>2 DEF Begun, Opened
<1>5. Kept(l, m, p)
  BY <1>1, <1>3, <1>4, QuietAdded DEF e
<1>6. Outer(m, Len(m)) <=> l[j].op = "RW"
  BY <1>1, <1>2 DEF Outer, j
<1>7. IF l[j].op = "RW" THEN Out(m, Len(m)) ELSE Shut(m, Len(m))
  BY <1>1, <1>2, <1>6 DEF Out, Shut
<1>8. Inside(l, p) => Inside(m, p) /\ ChangesOf(m, p) = ChangesOf(l, p)
  BY <1>1, BegunAdded
<1>9. QED
  BY <1>2, <1>5, <1>7, <1>8 DEF j

(* The commit record of a transaction.                                     *)
LEMMA CommitAdded ==
  ASSUME NEW l, LogInv(l), NEW p \in Proc, Latest(l, Len(l), p) # 0,
         Shut(l, Latest(l, Len(l), p)),
         NEW m, Added(l, m, Mark(p, "CW"))
  PROVE  Kept(l, m, p) /\ Out(m, Latest(m, Len(m), p))
<1> DEFINE e == Mark(p, "CW")
           j == Latest(l, Len(l), p)
<1>1. /\ e.op = "CW" /\ e.proc = p /\ LogType(l) /\ Added(l, m, e)
      /\ e.op \notin {"BW", "FO", "FC", "RW"}
      /\ e.op \notin Changing \union Counting
  BY DEF Mark, Record, LogInv, Changing, Counting
<1> HIDE DEF e
<1>2. /\ Len(m) \in Nat \ {0} /\ m[Len(m)] = e
      /\ Latest(m, Len(m), p) = Len(m)
      /\ Latest(m, Len(m) - 1, p) = j
      /\ j # 0 => Shut(m, j) = Shut(l, j)
  <2>1. /\ Len(m) \in Nat \ {0} /\ m[Len(m)] = e
        /\ Latest(m, Len(m), p) = Len(m)
        /\ Latest(m, Len(m) - 1, p) = j
    BY <1>1, NewLatest
  <2>2. j # 0 => j \in 1..Len(l)
    BY <1>1, LatestPlace, RecordFacts
  <2>3. j # 0 => Shut(m, j) = Shut(l, j)
    <3> HIDE DEF j
    <3>1. QED
      BY <1>1, <2>2, ClassAdded
  <2>4. QED
    BY <2>1, <2>3
<1> HIDE DEF j
<1>3. Follows(m, Len(m))
  BY <1>1, <1>2 DEF Follows, j
<1>4. Begun(m, Len(m))
  BY <1>1, <1>2 DEF Begun, Opened
<1>5. Kept(l, m, p)
  BY <1>1, <1>3, <1>4, QuietAdded DEF e
<1>6. Out(m, Len(m))
  BY <1>1, <1>2 DEF Out
<1>7. QED
  BY <1>2, <1>5, <1>6

(* The record that begins a rollback.                                      *)
LEMMA UndoAdded ==
  ASSUME NEW l, LogInv(l), NEW p \in Proc, Latest(l, Len(l), p) # 0,
         \/ Opened(l, Latest(l, Len(l), p)) \/ Shut(l, Latest(l, Len(l), p)),
         Inside(l, p), AloneIn(l, p),
         NEW m, Added(l, m, Mark(p, "RW"))
  PROVE  /\ LogInv(m) /\ AloneIn(m, p) /\ IdsKept(l, m)
         /\ OthersSee(l, m, p) /\ AloneKept(l, m, Proc \ {p})
         /\ Latest(m, Len(m), p) # 0 /\ m[Latest(m, Len(m), p)].op = "RW"
         /\ RowsOf(m, p) = RowsOf(l, p)
         /\ \A r : RowAt(m, Len(m), r) = IF r \in RowsOf(m, p)
                                         THEN OldOf(m, p, r)
                                         ELSE RowAt(l, Len(l), r)
<1> DEFINE e == Mark(p, "RW")
           j == Latest(l, Len(l), p)
<1>1. /\ e.op = "RW" /\ e.proc = p /\ LogType(l) /\ Added(l, m, e)
      /\ e.op \notin {"BW", "FO", "FC", "CW"} /\ e # Mark(p, "BW")
      /\ e.op \notin Changing \union Counting
  BY DEF Mark, Record, LogInv, Changing, Counting
<1> HIDE DEF e
<1>2. /\ Len(m) \in Nat \ {0} /\ m[Len(m)] = e
      /\ Latest(m, Len(m), p) = Len(m)
      /\ Latest(m, Len(m) - 1, p) = j
      /\ j # 0 => Shut(m, j) = Shut(l, j) /\ Opened(m, j) = Opened(l, j)
  BY <1>1, NewLatest
<1> HIDE DEF j
<1>3. Follows(m, Len(m))
  BY <1>1, <1>2 DEF Follows, j
<1>4. /\ LogInv(m)
      /\ \A r : IF r \in RowsOf(l, p)
                THEN RowAt(m, Len(m), r) = OldOf(l, p, r)
                ELSE RowAt(m, Len(m), r) = RowAt(l, Len(l), r)
  BY <1>1, <1>3, RollbackAdded DEF e
<1>5. ChangesOf(m, p) = ChangesOf(l, p)
  <2>1. ChangesOf(m, p) = ChangesOf(l, p) \union
          (IF e.proc = p /\ e.op \in Changing THEN {Len(m)} ELSE {})
    BY <1>1, ChangesAdded
  <2>2. QED
    BY <1>1, <2>1
<1>6. /\ RowsOf(m, p) = RowsOf(l, p)
      /\ \A r \in RowsOf(l, p) : OldOf(m, p, r) = OldOf(l, p, r)
  BY <1>1, <1>5, SameChanges
<1>7. AloneIn(m, p) /\ IdsKept(l, m)
  BY <1>1, AloneAdded, IdsAdded DEF IdsKept
<1>8. OthersSee(l, m, p) /\ AloneKept(l, m, Proc \ {p})
  BY <1>1, OthersAdded
<1>9. Latest(m, Len(m), p) # 0 /\ m[Latest(m, Len(m), p)].op = "RW"
  BY <1>1, <1>2
<1>10. QED
  BY <1>4, <1>6, <1>7, <1>8, <1>9

(* What two transactions that go on have changed has no row in common.     *)
LEMMA RowsApart ==
  ASSUME NEW l, LogType(l), NEW p \in Proc, NEW q \in Proc \ {p},
         AloneIn(l, p), AloneIn(l, q)
  PROVE  RowsOf(l, p) \intersect RowsOf(l, q) = {}
<1>1. SUFFICES ASSUME NEW i \in ChangesOf(l, p), NEW j \in ChangesOf(l, q),
                      l[i].number = l[j].number
               PROVE  FALSE
  BY DEF RowsOf
<1>2. /\ i \in 1..Len(l) /\ l[i].proc = p /\ l[i].op \in Changing
      /\ j \in 1..Len(l) /\ l[j].proc = q /\ l[j].op \in Changing
      /\ Len(l) \in Nat
  BY ChangesFacts, RecordFacts
<1>3. CASE i < j
  <2>1. j \in (i + 1)..Len(l)
    BY <1>2, <1>3
  <2>2. QED
    BY <1>1, <1>2, <2>1 DEF AloneIn
<1>4. CASE j < i
  <2>1. i \in (j + 1)..Len(l)
    BY <1>2, <1>4
  <2>2. QED
    BY <1>1, <1>2, <2>1 DEF AloneIn
<1>5. QED
  BY <1>2, <1>3, <1>4

(* With the begin record and the open record that the first change of a    *)
(* transaction needs before it.                                            *)
LEMMA StartedAdded ==
  ASSUME NEW l, LogInv(l), NEW p \in Proc, Out(l, Latest(l, Len(l), p)),
         NEW k, Added(l, k, Mark(p, "BW")), NEW m, Added(k, m, Mark(p, "FO"))
  PROVE  Kept(l, m, p) /\ Within(m, p) /\ AloneIn(m, p)
<1>1. /\ Kept(l, k, p) /\ Inside(k, p) /\ ChangesOf(k, p) = {}
      /\ Latest(k, Len(k), p) # 0 /\ k[Latest(k, Len(k), p)].op = "BW"
  BY BeginAdded
<1>2. LogInv(k)
  BY <1>1 DEF Kept
<1>3. /\ Kept(k, m, p) /\ Within(m, p) /\ ChangesOf(m, p) = ChangesOf(k, p)
  BY <1>1, <1>2, OpenAdded
<1>4. AloneIn(m, p)
  BY <1>1, <1>3 DEF AloneIn
<1>5. QED
  BY <1>1, <1>3, <1>4, KeptTwice

-----------------------------------------------------------------------------
(* What the processes hold, when the records of one are written.           *)
LEMMA KeptSame ==
  ASSUME NEW l, LogInv(l), NEW p
  PROVE  Kept(l, l, p)
BY DEF Kept, OthersSee, AloneKept, RowsKept, IdsKept

(* The table fits the log when a process has come further without changing *)
(* it.                                                                     *)
LEMMA RunQuiet ==
  ASSUME NEW l, NEW t, NEW o, NEW d, NEW u, RunIn(l, t, o, d, u),
         DOMAIN t = Proc, NEW p \in Proc, NEW m,
         OthersSee(l, m, p), AloneKept(l, m, Proc \ {p}), RowsKept(l, m),
         NEW w, IdAt(m, Len(m), w),
         NEW x, t[p] # "rollback", x # "rollback", NEW v, v \ {p} = o \ {p},
         WhereIs(m, x, p \in v, p), x \in Active => AloneIn(m, p)
  PROVE  RunIn(m, [t EXCEPT ![p] = x], v, d, w)
<1> DEFINE y == [t EXCEPT ![p] = x]
<1>1. y[p] = x /\ \A q \in Proc \ {p} : y[q] = t[q] /\ (q \in v <=> q \in o)
  OBVIOUS
<1> HIDE DEF y
<1>2. ASSUME NEW q \in Proc
      PROVE  WhereIs(m, y[q], q \in v, q) /\ (y[q] \in Active => AloneIn(m, q))
  <2>1. CASE q = p
    BY <1>1, <2>1
  <2>2. CASE q # p
    BY <1>1, <2>2 DEF OthersSee, AloneKept, RunIn
  <2>3. QED
    BY <2>1, <2>2
<1>3. ASSUME NEW q \in Proc, y[q] = "rollback" \/ t[q] = "rollback"
      PROVE  /\ q # p /\ y[q] = t[q] /\ RowsOf(m, q) = RowsOf(l, q)
             /\ \A r \in RowsOf(l, q) : OldOf(m, q, r) = OldOf(l, q, r)
  BY <1>1, <1>3 DEF OthersSee
<1>4. RowsIn(m, y, d)
  BY <1>3 DEF RowsKept, RunIn, RowsIn
<1>5. QED
  BY <1>2, <1>4 DEF RunIn, y

(* A row that a rollback does not undo.                                    *)
LEMMA RowNow ==
  ASSUME NEW l, LogType(l), NEW t, NEW o, NEW d, NEW u, RunIn(l, t, o, d, u),
         NEW p \in Proc, t[p] # "rollback", NEW r \in Row
  PROVE  /\ (\A q \in Proc \ {p} : t[q] \in Active => r \notin RowsOf(l, q))
              => d[r] = RowAt(l, Len(l), r)
         /\ \A k \in KeyOf[p] : d[r] # k => RowAt(l, Len(l), r) # k
<1>1. ASSUME \A q \in Proc \ {p} : t[q] \in Active => r \notin RowsOf(l, q)
      PROVE  d[r] = RowAt(l, Len(l), r)
  BY <1>1 DEF RunIn, RowsIn, Active
<1>2. ASSUME NEW k \in KeyOf[p], d[r] # k PROVE RowAt(l, Len(l), r) # k
  <2>1. CASE \A q \in Proc : t[q] = "rollback" => r \notin RowsOf(l, q)
    BY <1>2, <2>1 DEF RunIn, RowsIn
  <2>2. CASE ~ \A q \in Proc : t[q] = "rollback" => r \notin RowsOf(l, q)
    <3>1. PICK q \in Proc : t[q] = "rollback" /\ r \in RowsOf(l, q)
      BY <2>2
    <3>2. RowAt(l, Len(l), r) = OldOf(l, q, r) /\ q # p
      BY <3>1 DEF RunIn, RowsIn
    <3>3. OldOf(l, q, r) \in {NoKey} \union KeyOf[q]
      BY <3>1, FirstChange, ChangesFacts
    <3>4. k \notin KeyOf[q] /\ k # NoKey
      BY <3>2, RecoverAssumption
    <3>5. QED
      BY <3>2, <3>3, <3>4
  <2>3. QED
    BY <2>1, <2>2
<1>3. QED
  BY <1>1, <1>2

(* A change of a row, after the records that begin its transaction.        *)
LEMMA RunChanged ==
  ASSUME NEW l, NEW t, NEW o, NEW d, NEW u, RunIn(l, t, o, d, u), LogInv(l),
         DOMAIN t = Proc, DOMAIN d = Row, NEW p \in Proc, t[p] # "rollback",
         NEW k, Kept(l, k, p), Within(k, p), AloneIn(k, p),
         NEW e, e.proc = p, e.op \in Changing, KeysFit(e),
         e.old = d[e.number],
         e.new # NoKey => \A s \in Row \ {e.number} : d[s] # e.new,
         \A q \in Proc \ {p} : t[q] \in Active => e.number \notin RowsOf(l, q),
         NEW m, Added(k, m, e)
  PROVE  /\ LogInv(m)
         /\ RunIn(m, [t EXCEPT ![p] = "needflush"], o \union {p},
                  [d EXCEPT ![e.number] = e.new], u)
<1> DEFINE y == [t EXCEPT ![p] = "needflush"]
           w == [d EXCEPT ![e.number] = e.new]
           v == o \union {p}
           Q == {q \in Proc \ {p} : t[q] \in Active}
<1>1. y[p] = "needflush" /\ p \in v
      /\ \A q \in Proc \ {p} : y[q] = t[q] /\ (q \in v <=> q \in o)
  OBVIOUS
<1>2. e.number \in Row /\ (e.new # NoKey => e.new \in KeyOf[p])
  BY DEF KeysFit
<1>3. \A r \in Row : w[r] = IF r = e.number THEN e.new ELSE d[r]
  BY <1>2
<1>4. \A q \in Q : q \in Proc \ {p} /\ e.number \notin RowsOf(l, q)
  OBVIOUS
<1>5. \A q \in Proc \ {p} : t[q] \in Active => q \in Q
  OBVIOUS
<1> HIDE DEF y, w, v, Q
<1>6. /\ LogType(l) /\ LogInv(k)
      /\ \A r : RowAt(k, Len(k), r) = RowAt(l, Len(l), r)
  BY DEF LogInv, Kept, RowsKept
<1>7. /\ e.old = RowAt(k, Len(k), e.number)
      /\ e.new # NoKey =>
           \A s \in Row \ {e.number} : RowAt(k, Len(k), s) # e.new
  BY <1>2, <1>6, RowNow
<1>8. \A q \in Q : e.number \notin RowsOf(k, q)
  BY <1>4 DEF Kept, OthersSee
<1>9. /\ LogInv(m) /\ Within(m, p) /\ AloneIn(m, p)
      /\ OthersSee(k, m, p) /\ AloneKept(k, m, Q) /\ IdsKept(k, m)
      /\ \A r : RowAt(m, Len(m), r) = IF e.number = r THEN e.new
                                      ELSE RowAt(k, Len(k), r)
  <2>1. Q \in SUBSET (Proc \ {p})
    BY <1>4
  <2>2. /\ LogInv(k) /\ Within(k, p) /\ AloneIn(k, p) /\ p \in Proc
        /\ e.proc = p /\ e.op \in Changing /\ KeysFit(e)
        /\ Added(k, m, e)
    BY <1>6
  <2>3. LogInv(m) /\ Within(m, p) /\ AloneIn(m, p)
    BY <1>7, <1>8, <2>1, <2>2, ChangeAdded
  <2>4. OthersSee(k, m, p) /\ AloneKept(k, m, Q)
    BY <1>7, <1>8, <2>1, <2>2, ChangeAdded
  <2>5. IdsKept(k, m)
    BY <1>7, <1>8, <2>1, <2>2, ChangeAdded
  <2>6. \A r : RowAt(m, Len(m), r) = IF e.number = r THEN e.new
                                    ELSE RowAt(k, Len(k), r)
    <3>1. LogType(k) /\ e.op # "RW"
      BY <2>2 DEF LogInv, Changing
    <3>2. QED
      BY <2>2, <3>1, RowAtAdded
  <2>7. QED
    BY <2>3, <2>4, <2>5, <2>6
<1>10. ASSUME NEW q \in Proc
       PROVE  /\ WhereIs(m, y[q], q \in v, q)
              /\ y[q] \in Active => AloneIn(m, q)
  <2>1. CASE q = p
    BY <1>1, <1>9, <2>1 DEF WhereIs
  <2>2. CASE q # p
    <3>1. WhereIs(m, y[q], q \in v, q)
      BY <1>1, <1>9, <2>2 DEF Kept, OthersSee, RunIn
    <3>2. y[q] \in Active => AloneIn(m, q)
      BY <1>1, <1>5, <1>9, <2>2 DEF Kept, AloneKept, RunIn
    <3>3. QED
      BY <3>1, <3>2
  <2>3. QED
    BY <2>1, <2>2
<1>11. ASSUME NEW q \in Proc, y[q] = "rollback" \/ t[q] = "rollback"
       PROVE  /\ q # p /\ y[q] = t[q] /\ RowsOf(m, q) = RowsOf(l, q)
              /\ \A r \in RowsOf(l, q) : OldOf(m, q, r) = OldOf(l, q, r)
              /\ e.number \notin RowsOf(l, q)
  <2>1. q # p /\ y[q] = t[q] /\ q \in Q
    BY <1>1, <1>5, <1>11 DEF Active
  <2>2. RowsOf(m, q) = RowsOf(l, q)
    BY <1>9, <2>1 DEF Kept, OthersSee
  <2>3. \A r \in RowsOf(l, q) : OldOf(m, q, r) = OldOf(l, q, r)
    BY <1>9, <2>1 DEF Kept, OthersSee
  <2>4. QED
    BY <1>4, <2>1, <2>2, <2>3
<1>12. ASSUME NEW r \in Row
       PROVE  /\ (\A q \in Proc : y[q] = "rollback" => r \notin RowsOf(m, q))
                   => w[r] = RowAt(m, Len(m), r)
              /\ \A q \in Proc : y[q] = "rollback" /\ r \in RowsOf(m, q)
                   => OldOf(m, q, r) = RowAt(m, Len(m), r)
  <2>1. CASE r = e.number
    BY <1>3, <1>9, <1>11, <2>1
  <2>2. CASE r # e.number
    <3>1. w[r] = d[r] /\ RowAt(m, Len(m), r) = RowAt(l, Len(l), r)
      BY <1>3, <1>6, <1>9, <2>2
    <3>2. QED
      BY <1>11, <3>1 DEF RunIn, RowsIn
  <2>3. QED
    BY <2>1, <2>2
<1>13. IdAt(m, Len(m), u)
  BY <1>9 DEF Kept, IdsKept, RunIn
<1>14. RunIn(m, y, v, w, u)
  BY <1>10, <1>12, <1>13 DEF RunIn, RowsIn
<1>15. QED
  BY <1>9, <1>14 DEF y, w, v

(* The same for a unique id.                                               *)
LEMMA RunCounted ==
  ASSUME NEW l, NEW t, NEW o, NEW d, NEW u, RunIn(l, t, o, d, u),
         DOMAIN t = Proc, NEW p \in Proc, t[p] # "rollback",
         NEW k, Kept(l, k, p), Within(k, p), AloneIn(k, p),
         NEW e, e.proc = p, e.op \in Counting, e.number \in Nat,
         e.op = "UN" => e.number = u, NEW m, Added(k, m, e)
  PROVE  /\ LogInv(m)
         /\ RunIn(m, [t EXCEPT ![p] = "needflush"], o \union {p}, d,
                  IF e.op = "UN" THEN u + 1 ELSE Max({u, e.number}))
<1> DEFINE w == IF e.op = "UN" THEN u + 1 ELSE Max({u, e.number})
<1>1. LogInv(k) /\ IdAt(k, Len(k), u)
  BY DEF Kept, IdsKept, RunIn
<1>2. /\ LogInv(m) /\ Within(m, p) /\ AloneIn(m, p)
      /\ OthersSee(k, m, p) /\ AloneKept(k, m, Proc \ {p})
      /\ RowsKept(k, m)
  BY <1>1, CountAdded
<1>3. IdAt(m, Len(m), w)
  <2>1. e.op \in {"UN", "SU"}
    BY DEF Counting
  <2>2. CASE e.op = "UN"
    <3>1. IdAt(m, Len(m), u + 1)
      BY <1>1, <2>2, CountAdded
    <3>2. QED
      BY <2>2, <3>1
  <2>3. CASE e.op = "SU"
    <3>1. IdAt(m, Len(m), Max({u, e.number}))
      BY <1>1, <2>3, CountAdded
    <3>2. QED
      BY <2>3, <3>1
  <2>4. QED
    BY <2>1, <2>2, <2>3
<1> HIDE DEF w
<1>4. OthersSee(l, m, p)
  BY <1>2 DEF Kept, OthersSee
<1>5. AloneKept(l, m, Proc \ {p}) /\ RowsKept(l, m)
  BY <1>2 DEF Kept, AloneKept, RowsKept
<1>6. WhereIs(m, "needflush", p \in o \union {p}, p)
  BY <1>2 DEF WhereIs
<1>7. (o \union {p}) \ {p} = o \ {p}
  OBVIOUS
<1>8. RunIn(m, [t EXCEPT ![p] = "needflush"], o \union {p}, d, w)
  BY <1>2, <1>3, <1>4, <1>5, <1>6, <1>7, RunQuiet
<1>9. QED
  BY <1>2, <1>8 DEF w

(* A rollback, when it begins.                                             *)
LEMMA RunUndone ==
  ASSUME NEW l, NEW t, NEW o, NEW d, NEW u, RunIn(l, t, o, d, u),
         DOMAIN t = Proc, NEW p \in Proc, t[p] = "needflush",
         NEW k, Kept(l, k, p), Inside(k, p), AloneIn(k, p),
         Latest(k, Len(k), p) # 0,
         \/ Opened(k, Latest(k, Len(k), p)) \/ Shut(k, Latest(k, Len(k), p)),
         NEW m, Added(k, m, Mark(p, "RW")), NEW v, v \ {p} = o \ {p}
  PROVE  LogInv(m) /\ RunIn(m, [t EXCEPT ![p] = "rollback"], v, d, u)
<1> DEFINE y == [t EXCEPT ![p] = "rollback"]
<1>1. /\ y[p] = "rollback"
      /\ \A q \in Proc \ {p} : y[q] = t[q] /\ (q \in v <=> q \in o)
  OBVIOUS
<1> HIDE DEF y
<1>2. LogInv(k) /\ LogType(k)
  BY DEF Kept, LogInv
<1>3. /\ LogInv(m) /\ AloneIn(m, p) /\ IdsKept(k, m)
      /\ OthersSee(k, m, p) /\ AloneKept(k, m, Proc \ {p})
      /\ Latest(m, Len(m), p) # 0 /\ m[Latest(m, Len(m), p)].op = "RW"
      /\ RowsOf(m, p) = RowsOf(k, p)
  BY <1>2, UndoAdded
<1>4. \A r : RowAt(m, Len(m), r) = IF r \in RowsOf(m, p) THEN OldOf(m, p, r)
                                   ELSE RowAt(k, Len(k), r)
  BY <1>2, UndoAdded
<1>5. ASSUME NEW q \in Proc \ {p}
      PROVE  /\ WhereIs(m, y[q], q \in v, q)
             /\ y[q] \in Active => AloneIn(m, q) /\ AloneIn(k, q)
             /\ RowsOf(m, q) = RowsOf(k, q) /\ RowsOf(k, q) = RowsOf(l, q)
             /\ \A r \in RowsOf(l, q) : OldOf(m, q, r) = OldOf(l, q, r)
  <2>1. WhereIs(m, y[q], q \in v, q)
    BY <1>1, <1>3 DEF Kept, OthersSee, RunIn
  <2>2. y[q] \in Active => AloneIn(m, q) /\ AloneIn(k, q)
    BY <1>1, <1>3 DEF Kept, AloneKept, RunIn
  <2>3. RowsOf(m, q) = RowsOf(k, q) /\ RowsOf(k, q) = RowsOf(l, q)
    BY <1>3 DEF Kept, OthersSee
  <2>4. \A r \in RowsOf(l, q) : OldOf(m, q, r) = OldOf(l, q, r)
    BY <1>3, <2>3 DEF Kept, OthersSee
  <2>5. QED
    BY <2>1, <2>2, <2>3, <2>4
<1>6. WhereIs(m, y[p], p \in v, p)
  BY <1>1, <1>3 DEF WhereIs
<1>7. ASSUME NEW r \in Row
      PROVE  /\ (\A q \in Proc : y[q] = "rollback" => r \notin RowsOf(m, q))
                  => d[r] = RowAt(m, Len(m), r)
             /\ \A q \in Proc : y[q] = "rollback" /\ r \in RowsOf(m, q)
                  => OldOf(m, q, r) = RowAt(m, Len(m), r)
  <2>1. RowAt(k, Len(k), r) = RowAt(l, Len(l), r)
    BY DEF Kept, RowsKept
  <2>2. ASSUME \A q \in Proc : y[q] = "rollback" => r \notin RowsOf(m, q)
        PROVE  d[r] = RowAt(m, Len(m), r)
    <3>1. RowAt(m, Len(m), r) = RowAt(l, Len(l), r)
      BY <1>1, <1>4, <2>1, <2>2
    <3>2. \A q \in Proc : t[q] = "rollback" => r \notin RowsOf(l, q)
      BY <1>1, <1>5, <2>2
    <3>3. QED
      BY <3>1, <3>2 DEF RunIn, RowsIn
  <2>3. ASSUME NEW q \in Proc, y[q] = "rollback", r \in RowsOf(m, q)
        PROVE  OldOf(m, q, r) = RowAt(m, Len(m), r)
    <3>1. CASE q = p
      BY <1>4, <2>3, <3>1
    <3>2. CASE q # p
      <4>1. r \in RowsOf(k, q) /\ r \in RowsOf(l, q) /\ t[q] = "rollback"
            /\ OldOf(m, q, r) = OldOf(l, q, r) /\ AloneIn(k, q)
        BY <1>1, <1>5, <2>3, <3>2 DEF Active
      <4>2. r \notin RowsOf(m, p)
        BY <1>2, <1>3, <3>2, <4>1, RowsApart
      <4>3. RowAt(m, Len(m), r) = RowAt(l, Len(l), r)
        BY <1>4, <2>1, <4>2
      <4>4. QED
        BY <4>1, <4>3 DEF RunIn, RowsIn
    <3>3. QED
      BY <3>1, <3>2
  <2>4. QED
    BY <2>2, <2>3
<1>8. IdAt(m, Len(m), u)
  BY <1>3 DEF Kept, IdsKept, RunIn
<1>9. RunIn(m, y, v, d, u)
  BY <1>1, <1>3, <1>5, <1>6, <1>7, <1>8 DEF RunIn, RowsIn
<1>10. QED
  BY <1>3, <1>9 DEF y

(* A rollback, when it has undone the changes.                             *)
LEMMA RunRestored ==
  ASSUME NEW l, NEW t, NEW o, NEW d, NEW u, RunIn(l, t, o, d, u),
         DOMAIN t = Proc, NEW p \in Proc, t[p] = "rollback",
         NEW m, Kept(l, m, p), Out(m, Latest(m, Len(m), p)),
         NEW w, \A r \in Row : w[r] = IF r \in RowsOf(l, p)
                                      THEN OldOf(l, p, r) ELSE d[r]
  PROVE  RunIn(m, [t EXCEPT ![p] = "none"], o \ {p}, w, u)
<1> DEFINE y == [t EXCEPT ![p] = "none"]
           v == o \ {p}
<1>1. /\ y[p] = "none" /\ p \notin v
      /\ \A q \in Proc \ {p} : y[q] = t[q] /\ (q \in v <=> q \in o)
  OBVIOUS
<1> HIDE DEF y, v
<1>2. ASSUME NEW q \in Proc \ {p}
      PROVE  /\ WhereIs(m, y[q], q \in v, q)
             /\ y[q] \in Active => AloneIn(m, q)
             /\ RowsOf(m, q) = RowsOf(l, q)
             /\ \A r \in RowsOf(l, q) : OldOf(m, q, r) = OldOf(l, q, r)
  <2>1. WhereIs(m, y[q], q \in v, q)
    BY <1>1 DEF Kept, OthersSee, RunIn
  <2>2. y[q] \in Active => AloneIn(m, q)
    BY <1>1 DEF Kept, AloneKept, RunIn
  <2>3. /\ RowsOf(m, q) = RowsOf(l, q)
        /\ \A r \in RowsOf(l, q) : OldOf(m, q, r) = OldOf(l, q, r)
    BY DEF Kept, OthersSee
  <2>4. QED
    BY <2>1, <2>2, <2>3
<1>3. WhereIs(m, y[p], p \in v, p) /\ (y[p] \in Active => AloneIn(m, p))
  BY <1>1 DEF WhereIs, Active
<1>4. ASSUME NEW r \in Row
      PROVE  /\ (\A q \in Proc : y[q] = "rollback" => r \notin RowsOf(m, q))
                  => w[r] = RowAt(m, Len(m), r)
             /\ \A q \in Proc : y[q] = "rollback" /\ r \in RowsOf(m, q)
                  => OldOf(m, q, r) = RowAt(m, Len(m), r)
  <2>1. RowAt(m, Len(m), r) = RowAt(l, Len(l), r)
    BY DEF Kept, RowsKept
  <2>2. ASSUME \A q \in Proc : y[q] = "rollback" => r \notin RowsOf(m, q)
        PROVE  w[r] = RowAt(m, Len(m), r)
    <3>1. CASE r \in RowsOf(l, p)
      BY <2>1, <3>1 DEF RunIn, RowsIn
    <3>2. CASE r \notin RowsOf(l, p)
      <4>1. \A q \in Proc : t[q] = "rollback" => r \notin RowsOf(l, q)
        BY <1>1, <1>2, <2>2, <3>2
      <4>2. QED
        BY <2>1, <3>2, <4>1 DEF RunIn, RowsIn
    <3>3. QED
      BY <3>1, <3>2
  <2>3. ASSUME NEW q \in Proc, y[q] = "rollback", r \in RowsOf(m, q)
        PROVE  OldOf(m, q, r) = RowAt(m, Len(m), r)
    <3>1. q # p
      BY <1>1, <2>3
    <3>2. t[q] = "rollback" /\ r \in RowsOf(l, q)
          /\ OldOf(m, q, r) = OldOf(l, q, r)
      BY <1>1, <1>2, <2>3, <3>1
    <3>3. QED
      BY <2>1, <3>2 DEF RunIn, RowsIn
  <2>4. QED
    BY <2>2, <2>3
<1>5. IdAt(m, Len(m), u)
  BY DEF Kept, IdsKept, RunIn
<1>6. RunIn(m, y, v, w, u)
  BY <1>2, <1>3, <1>4, <1>5 DEF RunIn, RowsIn
<1>7. QED
  BY <1>6 DEF y, v

-----------------------------------------------------------------------------
(* The calls.                                                              *)
Sound == TypeInv /\ LogInv(log) /\ RunInv

(* Touched and Before of VBRecover are those of its log.                   *)
LEMMA TouchedIs ==
  /\ \A p : Touched(p) = RowsOf(log, p)
  /\ \A p, r : Before(p, r) = OldOf(log, p, r)
<1>1. \A p : Changes(p) = ChangesOf(log, p)
  BY DEF Changes, ChangesOf, Start, StartOf, Changing
<1>2. QED
  BY <1>1 DEF Touched, RowsOf, Before, OldOf

(* The records that the calls write are records.                           *)
LEMMA RecordType ==
  ASSUME NEW p \in Proc
  PROVE  /\ \A x \in {"BW", "FO", "FC", "CW", "RW"} : Mark(p, x) \in Rec
         /\ \A x \in Changing \union Counting, n \in Nat, a, b \in Value :
              Record(p, x, n, a, b) \in Rec
BY DEF Mark, Record, Rec, Value

(* Nothing added to a log.                                                 *)
LEMMA NoConcat ==
  ASSUME NEW l \in Seq(Rec)
  PROVE  l \o <<>> = l /\ <<>> \o l = l
OBVIOUS

(* What the log is before the record of a change.                          *)
LEMMA LoggedFacts ==
  ASSUME Sound, NEW p \in Proc, NEW e \in Rec, e.proc = p,
         ivbintrans[p] \in {"begin", "needflush"}, Logged(p, e)
  PROVE  \E k : Kept(log, k, p) /\ Within(k, p) /\ AloneIn(k, p)
                /\ Added(k, log', e)
<1>1. /\ log \in Seq(Rec) /\ LogInv(log)
      /\ WhereIs(log, ivbintrans[p], p \in itransyet, p)
      /\ ivbintrans[p] = "needflush" => AloneIn(log, p)
  BY DEF Sound, LogInv, LogType, RunInv, RunIn, Active
<1>2. CASE ivbintrans[p] = "begin"
  <2>1. p \notin itransyet /\ Out(log, Latest(log, Len(log), p))
    BY <1>1, <1>2 DEF WhereIs
  <2> DEFINE j == log \o <<Mark(p, "BW")>>
             k == j \o <<Mark(p, "FO")>>
  <2>2. log' = k \o <<e>>
    BY <1>2, <2>1 DEF Logged
  <2>3. Added(log, j, Mark(p, "BW")) /\ j \in Seq(Rec)
    BY <1>1, RecordType, AppendAdds DEF Added
  <2> HIDE DEF j
  <2>4. Added(j, k, Mark(p, "FO")) /\ k \in Seq(Rec)
    BY <2>3, RecordType, AppendAdds DEF Added
  <2> HIDE DEF k
  <2>5. Kept(log, k, p) /\ Within(k, p) /\ AloneIn(k, p)
    BY <1>1, <2>1, <2>3, <2>4, StartedAdded
  <2>6. Added(k, log', e)
    BY <2>2, <2>4, AppendAdds
  <2>7. QED
    BY <2>5, <2>6
<1>3. CASE ivbintrans[p] = "needflush"
  <2>1. p \in itransyet /\ Within(log, p) /\ AloneIn(log, p)
    BY <1>1, <1>3 DEF WhereIs
  <2>2. log' = log \o <<e>>
    <3>1. log' = log \o <<>> \o <<>> \o <<e>>
      BY <1>3, <2>1 DEF Logged
    <3>2. QED
      BY <1>1, <3>1, NoConcat
  <2>3. Kept(log, log, p)
    BY <1>1, KeptSame
  <2>4. Added(log, log', e)
    BY <1>1, <2>2, AppendAdds
  <2>5. QED
    BY <2>1, <2>3, <2>4
<1>4. QED
  BY <1>2, <1>3

(* A call that writes nothing to the log.                                  *)
LEMMA UnloggedKeeps ==
  ASSUME Sound, NEW p \in Proc, NEW x, ivbintrans[p] # "rollback",
         x # "rollback", itransyet' \ {p} = itransyet \ {p},
         WhereIs(log, x, p \in itransyet', p), x \in Active => AloneIn(log, p),
         ivbintrans' = [ivbintrans EXCEPT ![p] = x],
         log' = log, data' = data, unique' = unique
  PROVE  LogInv(log)' /\ RunInv'
<1>1. /\ LogInv(log) /\ DOMAIN ivbintrans = Proc
      /\ RunIn(log, ivbintrans, itransyet, data, unique)
  BY DEF Sound, TypeInv, RunInv
<1>2. Kept(log, log, p)
  BY <1>1, KeptSame
<1>3. /\ OthersSee(log, log, p) /\ AloneKept(log, log, Proc \ {p})
      /\ RowsKept(log, log) /\ IdAt(log, Len(log), unique)
  BY <1>1, <1>2 DEF Kept, RunIn
<1>4. RunIn(log, [ivbintrans EXCEPT ![p] = x], itransyet', data, unique)
  BY <1>1, <1>3, RunQuiet
<1>5. QED
  BY <1>1, <1>4 DEF RunInv

(* isbegin logs nothing.                                                   *)
LEMMA isbeginKeeps ==
  ASSUME Sound, NEW p \in Proc, isbegin(p), UNCHANGED <<phase, rec>>
  PROVE  Sound'
<1>1. /\ ivbintrans[p] = "none" /\ log' = log /\ data' = data
      /\ ivbintrans' = [ivbintrans EXCEPT ![p] = "begin"]
      /\ unique' = unique /\ file' = file /\ itransyet' = itransyet
  BY DEF isbegin
<1>2. TypeInv'
  BY <1>1 DEF Sound, TypeInv
<1>3. WhereIs(log, "begin", p \in itransyet', p)
  BY <1>1 DEF Sound, RunInv, RunIn, WhereIs
<1>4. "begin" \notin Active
  BY DEF Active
<1>5. LogInv(log)' /\ RunInv'
  BY <1>1, <1>3, <1>4, UnloggedKeeps
<1>6. QED
  BY <1>2, <1>5 DEF Sound

(* isopen logs nothing, its record is written before the first change.     *)
LEMMA isopenKeeps ==
  ASSUME Sound, NEW p \in Proc, isopen(p), UNCHANGED <<phase, rec>>
  PROVE  Sound'
<1>1. /\ log' = log /\ data' = data /\ ivbintrans' = ivbintrans
      /\ unique' = unique /\ file' = [file EXCEPT ![p] = "open"]
      /\ itransyet' = itransyet
  BY DEF isopen
<1>2. TypeInv'
  BY <1>1 DEF Sound, TypeInv
<1>3. LogInv(log)' /\ RunInv'
  BY <1>1 DEF Sound, RunInv
<1>4. QED
  BY <1>2, <1>3 DEF Sound

(* isclose logs a close if the open is in the log, or puts it off in a     *)
(* transaction.                                                            *)
LEMMA iscloseKeeps ==
  ASSUME Sound, NEW p \in Proc, isclose(p), UNCHANGED <<phase, rec>>
  PROVE  Sound'
<1>1. /\ data' = data /\ unique' = unique /\ ivbintrans' = ivbintrans
      /\ log \in Seq(Rec) /\ file[p] = "open"
      /\ WhereIs(log, ivbintrans[p], p \in itransyet, p)
  BY DEF isclose, Sound, LogInv, LogType, RunInv, RunIn
<1>2. log' = log /\ itransyet' = itransyet
      /\ \/ ivbintrans[p] = "none" /\ file' = [file EXCEPT ![p] = "closed"]
         \/ file' = [file EXCEPT ![p] = "shut"]
  <2>1. CASE ivbintrans[p] = "none"
    <3>1. p \notin itransyet
      BY <1>1, <2>1 DEF WhereIs
    <3>2. /\ log' = log \o <<>> \o <<>> \o <<>>
          /\ itransyet' = itransyet \ {p}
          /\ file' = [file EXCEPT ![p] = "closed"]
      BY <2>1, <3>1 DEF isclose, ivbclose2, Closing
    <3>3. QED
      BY <1>1, <2>1, <3>1, <3>2, NoConcat
  <2>2. CASE ivbintrans[p] # "none"
    BY <2>2 DEF isclose
  <2>3. QED
    BY <2>1, <2>2
<1>3. TypeInv'
  <2>1. CASE ivbintrans[p] = "none" /\ file' = [file EXCEPT ![p] = "closed"]
    <3>1. p \notin itransyet
      BY <1>1, <2>1 DEF WhereIs
    <3>2. QED
      BY <1>1, <1>2, <2>1, <3>1 DEF Sound, TypeInv
  <2>2. CASE file' = [file EXCEPT ![p] = "shut"]
    BY <1>1, <1>2, <2>2 DEF Sound, TypeInv
  <2>3. QED
    BY <1>2, <2>1, <2>2
<1>4. LogInv(log)' /\ RunInv'
  BY <1>1, <1>2 DEF Sound, RunInv
<1>5. QED
  BY <1>3, <1>4 DEF Sound

(* The changes of a row.                                                   *)
LEMMA ChangeKeeps ==
  ASSUME Sound, NEW p \in Proc, CanChange(p), NEW r \in Row,
         NEW x \in Changing, NEW k \in Value,
         KeysFit(Record(p, x, r, data[r], k)), CanLock(p, r),
         k # NoKey => ~Duplicate(data, k, r),
         data' = [data EXCEPT ![r] = k],
         Logged(p, Record(p, x, r, data[r], k)),
         UNCHANGED <<unique, file, phase>>
  PROVE  Sound'
<1> DEFINE e == Record(p, x, r, data[r], k)
<1>1. /\ e.proc = p /\ e.op = x /\ e.number = r /\ e.old = data[r] /\ e.new = k
      /\ KeysFit(e) /\ Logged(p, e)
  BY DEF Record
<1>2. /\ LogInv(log) /\ RunIn(log, ivbintrans, itransyet, data, unique)
      /\ DOMAIN ivbintrans = Proc /\ DOMAIN data = Row /\ data[r] \in Value
  BY DEF Sound, RunInv, TypeInv
<1>3. ivbintrans[p] \in {"begin", "needflush"} /\ file[p] = "open"
  BY DEF CanChange, Calls
<1>4. e \in Rec
  <2>1. r \in Nat
    BY DEF Row
  <2>2. QED
    BY <1>2, <2>1, RecordType
<1> HIDE DEF e
<1>5. PICK j : /\ Kept(log, j, p) /\ Within(j, p) /\ AloneIn(j, p)
               /\ Added(j, log', e)
  BY <1>1, <1>3, <1>4, LoggedFacts
<1>6. \A q \in Proc \ {p} :
        ivbintrans[q] \in Active => e.number \notin RowsOf(log, q)
  BY <1>1, TouchedIs DEF CanLock, Active
<1>7. e.new # NoKey => \A s \in Row \ {e.number} : data[s] # e.new
  BY <1>1 DEF Duplicate
<1>8. /\ LogInv(log')
      /\ RunIn(log', [ivbintrans EXCEPT ![p] = "needflush"],
               itransyet \union {p}, [data EXCEPT ![e.number] = e.new], unique)
  <2>1. /\ ivbintrans[p] # "rollback"
        /\ e.op \in Changing /\ e.old = data[e.number]
    BY <1>1, <1>3
  <2>2. QED
    BY <1>1, <1>2, <1>5, <1>6, <1>7, <2>1, RunChanged
<1>9. /\ ivbintrans' = [ivbintrans EXCEPT ![p] = "needflush"]
      /\ itransyet' = itransyet \union {p}
  BY DEF Logged
<1>10. LogInv(log)' /\ RunInv'
  BY <1>1, <1>8, <1>9 DEF RunInv
<1>11. TypeInv'
  BY <1>3, <1>9 DEF Sound, TypeInv
<1>12. QED
  BY <1>10, <1>11 DEF Sound

(* iswrite takes a free row and a new key.                                 *)
LEMMA iswriteKeeps ==
  ASSUME Sound, NEW p \in Proc, iswrite(p), UNCHANGED <<phase, rec>>
  PROVE  Sound'
<1>1. PICK r \in Row, k \in KeyOf[p] :
        /\ CanChange(p) /\ data[r] = NoKey /\ CanLock(p, r)
        /\ ~Duplicate(data, k, r) /\ data' = [data EXCEPT ![r] = k]
        /\ Logged(p, Record(p, "IN", r, NoKey, k))
        /\ UNCHANGED <<unique, file>>
  BY DEF iswrite
<1>2. KeysFit(Record(p, "IN", r, data[r], k)) /\ k \in Value
  BY <1>1 DEF KeysFit, Record, Value
<1>3. "IN" \in Changing
  BY DEF Changing
<1>4. QED
  BY <1>1, <1>2, <1>3, ChangeKeeps

(* isdelete takes a row that it can lock.                                  *)
LEMMA isdeleteKeeps ==
  ASSUME Sound, NEW p \in Proc, isdelete(p), UNCHANGED <<phase, rec>>
  PROVE  Sound'
<1>1. PICK r \in Row :
        /\ CanChange(p) /\ data[r] \in KeyOf[p] /\ CanLock(p, r)
        /\ data' = [data EXCEPT ![r] = NoKey]
        /\ Logged(p, Record(p, "DE", r, data[r], NoKey))
        /\ UNCHANGED <<unique, file>>
  BY DEF isdelete
<1>2. KeysFit(Record(p, "DE", r, data[r], NoKey)) /\ NoKey \in Value
  BY <1>1 DEF KeysFit, Record, Value
<1>3. "DE" \in Changing
  BY DEF Changing
<1>4. QED
  BY <1>1, <1>2, <1>3, ChangeKeeps

(* isrewrite takes a row that it can lock, and a new key.                  *)
LEMMA isrewriteKeeps ==
  ASSUME Sound, NEW p \in Proc, isrewrite(p), UNCHANGED <<phase, rec>>
  PROVE  Sound'
<1>1. PICK r \in Row, k \in KeyOf[p] :
        /\ CanChange(p) /\ data[r] \in KeyOf[p] /\ CanLock(p, r)
        /\ ~Duplicate(data, k, r) /\ data' = [data EXCEPT ![r] = k]
        /\ Logged(p, Record(p, "UP", r, data[r], k))
        /\ UNCHANGED <<unique, file>>
  BY DEF isrewrite
<1>2. KeysFit(Record(p, "UP", r, data[r], k)) /\ k \in Value
  BY <1>1 DEF KeysFit, Record, Value
<1>3. "UP" \in Changing
  BY DEF Changing
<1>4. QED
  BY <1>1, <1>2, <1>3, ChangeKeeps

(* The calls that count.                                                   *)
LEMMA CountKeeps ==
  ASSUME Sound, NEW p \in Proc, CanChange(p), NEW x \in Counting,
         NEW n \in Nat, x = "UN" => n = unique,
         unique' = (IF x = "UN" THEN unique + 1 ELSE Max({unique, n})),
         unique' \in 1..MaxId,
         Logged(p, Record(p, x, n, NoKey, NoKey)),
         UNCHANGED <<data, file, phase>>
  PROVE  Sound'
<1> DEFINE e == Record(p, x, n, NoKey, NoKey)
<1>1. e.proc = p /\ e.op = x /\ e.number = n /\ Logged(p, e) /\ e \in Rec
  BY RecordType DEF Record, Value
<1>2. /\ LogInv(log) /\ RunIn(log, ivbintrans, itransyet, data, unique)
      /\ DOMAIN ivbintrans = Proc
  BY DEF Sound, RunInv, TypeInv
<1>3. ivbintrans[p] \in {"begin", "needflush"} /\ file[p] = "open"
  BY DEF CanChange, Calls
<1> HIDE DEF e
<1>4. PICK j : /\ Kept(log, j, p) /\ Within(j, p) /\ AloneIn(j, p)
               /\ Added(j, log', e)
  BY <1>1, <1>3, LoggedFacts
<1>5. /\ LogInv(log')
      /\ RunIn(log', [ivbintrans EXCEPT ![p] = "needflush"],
               itransyet \union {p}, data,
               IF e.op = "UN" THEN unique + 1 ELSE Max({unique, e.number}))
  <2>1. /\ ivbintrans[p] # "rollback" /\ e.op \in Counting
        /\ e.op = "UN" => e.number = unique
        /\ e.number \in Nat
    BY <1>1, <1>3
  <2>2. QED
    BY <1>1, <1>2, <1>4, <2>1, RunCounted
<1>6. /\ ivbintrans' = [ivbintrans EXCEPT ![p] = "needflush"]
      /\ itransyet' = itransyet \union {p}
  BY DEF Logged
<1>7. LogInv(log)' /\ RunInv'
  BY <1>1, <1>5, <1>6 DEF RunInv
<1>8. TypeInv'
  BY <1>3, <1>6 DEF Sound, TypeInv
<1>9. QED
  BY <1>7, <1>8 DEF Sound

(* isuniqueid hands out the id and moves on.                               *)
LEMMA isuniqueidKeeps ==
  ASSUME Sound, NEW p \in Proc, isuniqueid(p), UNCHANGED <<phase, rec>>
  PROVE  Sound'
<1>1. /\ CanChange(p) /\ unique < MaxId /\ unique' = unique + 1
      /\ Logged(p, Record(p, "UN", unique, NoKey, NoKey))
      /\ UNCHANGED <<data, file>>
  BY DEF isuniqueid
<1>2. unique \in 1..MaxId /\ MaxId \in Nat
  BY RecoverAssumption DEF Sound, TypeInv
<1>3. "UN" \in Counting /\ unique \in Nat /\ unique' \in 1..MaxId
  BY <1>1, <1>2 DEF Counting
<1>4. QED
  BY <1>1, <1>3, CountKeeps

(* issetunique moves the id forward only.                                  *)
LEMMA issetuniqueKeeps ==
  ASSUME Sound, NEW p \in Proc, issetunique(p), UNCHANGED <<phase, rec>>
  PROVE  Sound'
<1>1. PICK id \in SetIds :
        /\ CanChange(p) /\ unique' = Max({unique, id})
        /\ Logged(p, Record(p, "SU", id, NoKey, NoKey))
        /\ UNCHANGED <<data, file>>
  BY DEF issetunique
<1>2. unique \in 1..MaxId /\ MaxId \in Nat /\ id \in 1..MaxId
  BY RecoverAssumption DEF Sound, TypeInv
<1>3. "SU" \in Counting /\ id \in Nat /\ unique' \in 1..MaxId
  <2>1. Max({unique, id}) = IF unique <= id THEN id ELSE unique
    BY <1>2, MaxOfTwo
  <2>2. QED
    BY <1>1, <1>2, <2>1 DEF Counting
<1>4. QED
  BY <1>1, <1>3, CountKeeps

(* The ends of a transaction.                                              *)
LEMMA RunFacts ==
  ASSUME Sound, NEW p \in Proc
  PROVE  /\ LogInv(log) /\ log \in Seq(Rec) /\ DOMAIN ivbintrans = Proc
         /\ RunIn(log, ivbintrans, itransyet, data, unique)
         /\ WhereIs(log, ivbintrans[p], p \in itransyet, p)
         /\ ivbintrans[p] \in Active => AloneIn(log, p)
BY DEF Sound, LogInv, LogType, TypeInv, RunInv, RunIn

(* The close of a handle that is in the log.                               *)
LEMMA ClosingFacts ==
  ASSUME NEW l \in Seq(Rec), NEW p \in Proc
  PROVE  /\ p \in itransyet =>
              /\ l \o <<>> \o Closing(p) \o <<>> = l \o <<Mark(p, "FC")>>
              /\ \A e \in Rec : l \o <<>> \o Closing(p) \o <<e>> =
                                l \o <<Mark(p, "FC")>> \o <<e>>
         /\ p \notin itransyet =>
              /\ l \o <<>> \o Closing(p) \o <<>> = l
              /\ \A e \in Rec : l \o <<>> \o Closing(p) \o <<e>> = l \o <<e>>
<1>1. l \o <<>> = l
  BY NoConcat
<1>2. ASSUME p \in itransyet
      PROVE  /\ l \o <<>> \o Closing(p) \o <<>> = l \o <<Mark(p, "FC")>>
             /\ \A e \in Rec : l \o <<>> \o Closing(p) \o <<e>> =
                               l \o <<Mark(p, "FC")>> \o <<e>>
  <2>1. Closing(p) = <<Mark(p, "FC")>> /\ l \o <<Mark(p, "FC")>> \in Seq(Rec)
    BY <1>2, RecordType, AppendAdds DEF Closing, Added
  <2>2. QED
    BY <1>1, <2>1, NoConcat
<1>3. ASSUME p \notin itransyet
      PROVE  /\ l \o <<>> \o Closing(p) \o <<>> = l
             /\ \A e \in Rec : l \o <<>> \o Closing(p) \o <<e>> = l \o <<e>>
  BY <1>1, <1>3 DEF Closing
<1>4. QED
  BY <1>2, <1>3

(* iscommit logs the closes put off and the commit, in this order.         *)
LEMMA iscommitKeeps ==
  ASSUME Sound, NEW p \in Proc, iscommit(p), UNCHANGED <<phase, rec>>
  PROVE  Sound'
<1>1. /\ LogInv(log) /\ log \in Seq(Rec) /\ DOMAIN ivbintrans = Proc
      /\ RunIn(log, ivbintrans, itransyet, data, unique)
      /\ WhereIs(log, ivbintrans[p], p \in itransyet, p)
  BY RunFacts
<1>2. /\ ivbintrans[p] \in {"begin", "needflush"}
      /\ data' = data /\ unique' = unique
      /\ ivbintrans' = [ivbintrans EXCEPT ![p] =
                          IF ivbintrans[p] = "begin" THEN "none" ELSE "commit"]
  BY DEF iscommit
<1>3. CASE ivbintrans[p] = "begin"
  <2>1. p \notin itransyet /\ Out(log, Latest(log, Len(log), p))
    BY <1>1, <1>3 DEF WhereIs
  <2>2. /\ log' = log /\ itransyet' = itransyet
        /\ file' = file \/ file' = [file EXCEPT ![p] = "closed"]
    <3>1. CASE file[p] = "shut"
      <4>1. ivbclose2(p, <<>>, <<>>)
        BY <1>3, <3>1 DEF iscommit
      <4>2. log' = log
        BY <1>1, <2>1, <4>1, ClosingFacts DEF ivbclose2
      <4>3. QED
        BY <2>1, <4>1, <4>2 DEF ivbclose2
    <3>2. CASE file[p] # "shut"
      BY <1>3, <3>2 DEF iscommit
    <3>3. QED
      BY <3>1, <3>2
  <2>3. ivbintrans' = [ivbintrans EXCEPT ![p] = "none"]
    BY <1>2, <1>3
  <2>4. TypeInv'
    <3>1. CASE file' = file
      BY <1>2, <2>2, <2>3, <3>1 DEF Sound, TypeInv
    <3>2. CASE file' = [file EXCEPT ![p] = "closed"]
      BY <1>2, <2>1, <2>2, <2>3, <3>2 DEF Sound, TypeInv
    <3>3. QED
      BY <2>2, <3>1, <3>2
  <2>5. WhereIs(log, "none", p \in itransyet', p)
    BY <2>1, <2>2 DEF WhereIs
  <2>6. "none" \notin Active
    BY DEF Active
  <2>7. LogInv(log)' /\ RunInv'
    BY <1>2, <1>3, <2>2, <2>3, <2>5, <2>6, UnloggedKeeps
  <2>8. QED
    BY <2>4, <2>7 DEF Sound
<1>4. CASE ivbintrans[p] = "needflush"
  <2>1. p \in itransyet /\ Within(log, p) /\ file[p] \in {"open", "shut"}
    BY <1>1, <1>4 DEF WhereIs, Sound, TypeInv
  <2>2. /\ ivbclose2(p, <<>>, <<>>)
        /\ ivbintrans' = [ivbintrans EXCEPT ![p] = "commit"]
    BY <1>2, <1>4, <2>1 DEF iscommit
  <2>3. Added(log, log', Mark(p, "FC"))
    BY <1>1, <2>1, <2>2, ClosingFacts, RecordType, AppendAdds DEF ivbclose2
  <2> DEFINE j == Latest(log, Len(log), p)
  <2>4. j # 0 /\ Opened(log, j) /\ log[j].op # "RW"
    BY <2>1, WithinFacts
  <2>5. /\ Kept(log, log', p) /\ Latest(log', Len(log'), p) # 0
        /\ Shut(log', Latest(log', Len(log'), p))
    BY <1>1, <2>3, <2>4, CloseAdded
  <2> HIDE DEF j
  <2>6. itransyet' = itransyet \ {p} /\ file' = [file EXCEPT ![p] = "closed"]
    BY <2>2 DEF ivbclose2
  <2>7. /\ WhereIs(log', "commit", p \in itransyet', p)
        /\ "commit" \notin Active /\ itransyet' \ {p} = itransyet \ {p}
    BY <2>5, <2>6 DEF WhereIs, Active
  <2>8. LogInv(log)' /\ RunInv'
    <3>1. /\ OthersSee(log, log', p) /\ AloneKept(log, log', Proc \ {p})
          /\ RowsKept(log, log') /\ LogInv(log')
          /\ IdAt(log', Len(log'), unique)
      BY <1>1, <2>5 DEF Kept, IdsKept, RunIn
    <3>2. RunIn(log', [ivbintrans EXCEPT ![p] = "commit"], itransyet', data,
                unique)
      BY <1>1, <1>4, <2>7, <3>1, RunQuiet
    <3>3. QED
      BY <1>2, <2>2, <3>1, <3>2 DEF RunInv
  <2>9. TypeInv'
    BY <1>2, <2>2, <2>6 DEF Sound, TypeInv
  <2>10. QED
    BY <2>8, <2>9 DEF Sound
<1>5. QED
  BY <1>2, <1>3, <1>4

(* The end of a commit is not in the log.                                  *)
LEMMA CommitEndKeeps ==
  ASSUME Sound, NEW p \in Proc, CommitEnd(p), UNCHANGED <<phase, rec>>
  PROVE  Sound'
<1>1. /\ LogInv(log) /\ log \in Seq(Rec) /\ DOMAIN ivbintrans = Proc
      /\ RunIn(log, ivbintrans, itransyet, data, unique)
      /\ WhereIs(log, ivbintrans[p], p \in itransyet, p)
  BY RunFacts
<1>2. /\ ivbintrans[p] = "commit"
      /\ data' = data /\ unique' = unique /\ file' = file
      /\ itransyet' = itransyet /\ log' = Append(log, Mark(p, "CW"))
      /\ ivbintrans' = [ivbintrans EXCEPT ![p] = "none"]
  BY DEF CommitEnd
<1>3. /\ Latest(log, Len(log), p) # 0 /\ Shut(log, Latest(log, Len(log), p))
      /\ p \notin itransyet
  BY <1>1, <1>2 DEF WhereIs
<1>4. Added(log, log', Mark(p, "CW"))
  BY <1>1, <1>2, RecordType, AppendAdds
<1>5. Kept(log, log', p) /\ Out(log', Latest(log', Len(log'), p))
  BY <1>1, <1>3, <1>4, CommitAdded
<1>6. WhereIs(log', "none", p \in itransyet', p) /\ "none" \notin Active
  BY <1>2, <1>3, <1>5 DEF WhereIs, Active
<1>7. LogInv(log)' /\ RunInv'
  <2>1. /\ OthersSee(log, log', p) /\ AloneKept(log, log', Proc \ {p})
        /\ RowsKept(log, log') /\ LogInv(log')
        /\ IdAt(log', Len(log'), unique)
    BY <1>1, <1>5 DEF Kept, IdsKept, RunIn
  <2>2. RunIn(log', [ivbintrans EXCEPT ![p] = "none"], itransyet', data,
              unique)
    BY <1>1, <1>2, <1>6, <2>1, RunQuiet
  <2>3. QED
    BY <1>2, <2>1, <2>2 DEF RunInv
<1>8. TypeInv'
  BY <1>2 DEF Sound, TypeInv
<1>9. QED
  BY <1>7, <1>8 DEF Sound

(* isrollback logs RW before it undoes anything.                           *)
LEMMA isrollbackKeeps ==
  ASSUME Sound, NEW p \in Proc, isrollback(p), UNCHANGED <<phase, rec>>
  PROVE  Sound'
<1>1. /\ LogInv(log) /\ log \in Seq(Rec) /\ DOMAIN ivbintrans = Proc
      /\ RunIn(log, ivbintrans, itransyet, data, unique)
      /\ WhereIs(log, ivbintrans[p], p \in itransyet, p)
      /\ ivbintrans[p] \in Active => AloneIn(log, p)
  BY RunFacts
<1>2. /\ ivbintrans[p] \in {"begin", "needflush"}
      /\ data' = data /\ unique' = unique
  BY DEF isrollback
<1>3. CASE ivbintrans[p] = "begin"
  <2>1. p \notin itransyet
    BY <1>1, <1>3 DEF WhereIs
  <2>2. /\ ivbintrans' = [ivbintrans EXCEPT ![p] = "begin"]
        /\ \/ file[p] = "shut" /\ ivbclose2(p, <<>>, <<>>)
           \/ /\ log' = log \o <<>>
              /\ file' = file /\ itransyet' = itransyet
    BY <1>3, <2>1 DEF isrollback
  <2>3. /\ log' = log /\ itransyet' = itransyet
        /\ file' = file \/ file' = [file EXCEPT ![p] = "closed"]
    <3>1. CASE ivbclose2(p, <<>>, <<>>)
      <4>1. log' = log
        BY <1>1, <2>1, <3>1, ClosingFacts DEF ivbclose2
      <4>2. QED
        BY <2>1, <3>1, <4>1 DEF ivbclose2
    <3>2. CASE log' = log \o <<>> /\ file' = file /\ itransyet' = itransyet
      BY <1>1, <3>2, NoConcat
    <3>3. QED
      BY <2>2, <3>1, <3>2
  <2>4. ivbintrans' = ivbintrans
    BY <1>1, <1>3, <2>2 DEF Sound, TypeInv
  <2>5. TypeInv'
    <3>1. CASE file' = file
      BY <1>2, <2>3, <2>4, <3>1 DEF Sound, TypeInv
    <3>2. CASE file' = [file EXCEPT ![p] = "closed"]
      BY <1>2, <2>1, <2>3, <2>4, <3>2 DEF Sound, TypeInv
    <3>3. QED
      BY <2>3, <3>1, <3>2
  <2>6. LogInv(log)' /\ RunInv'
    BY <1>2, <2>3, <2>4 DEF Sound, RunInv
  <2>7. QED
    BY <2>5, <2>6 DEF Sound
<1>4. CASE ivbintrans[p] = "needflush"
  <2>1. p \in itransyet /\ Within(log, p) /\ AloneIn(log, p)
    BY <1>1, <1>4 DEF WhereIs, Active
  <2>2. ivbintrans' = [ivbintrans EXCEPT ![p] = "rollback"]
    BY <1>4 DEF isrollback
  <2>3. LogInv(log)' /\ RunInv' /\ TypeInv'
    <3>1. CASE file[p] = "shut"
      <4>1. ivbclose2(p, <<>>, <<Mark(p, "RW")>>)
        BY <1>4, <3>1 DEF isrollback
      <4> DEFINE k == log \o <<Mark(p, "FC")>>
      <4>2. /\ log' = k \o <<Mark(p, "RW")>> /\ itransyet' = itransyet \ {p}
            /\ file' = [file EXCEPT ![p] = "closed"]
        BY <1>1, <2>1, <4>1, ClosingFacts, RecordType DEF ivbclose2
      <4>3. Added(log, k, Mark(p, "FC")) /\ k \in Seq(Rec)
        BY <1>1, RecordType, AppendAdds DEF Added
      <4> HIDE DEF k
      <4>4. Added(k, log', Mark(p, "RW"))
        BY <4>2, <4>3, RecordType, AppendAdds
      <4>5. /\ Latest(log, Len(log), p) # 0
            /\ Opened(log, Latest(log, Len(log), p))
            /\ log[Latest(log, Len(log), p)].op # "RW" /\ Inside(log, p)
        BY <2>1, WithinFacts
      <4>6. /\ Kept(log, k, p) /\ Latest(k, Len(k), p) # 0
            /\ Shut(k, Latest(k, Len(k), p))
            /\ Inside(k, p) /\ ChangesOf(k, p) = ChangesOf(log, p)
        BY <1>1, <4>3, <4>5, CloseAdded
      <4>7. AloneIn(k, p)
        <5>1. LogType(log) /\ Mark(p, "FC") # Mark(p, "BW")
              /\ Mark(p, "FC").op \notin Changing
          BY <1>1 DEF LogInv, Mark, Record, Changing
        <5>2. QED
          BY <2>1, <4>3, <5>1, AloneAdded
      <4>8. itransyet' \ {p} = itransyet \ {p}
        BY <4>2
      <4>9. /\ LogInv(log')
            /\ RunIn(log', [ivbintrans EXCEPT ![p] = "rollback"], itransyet',
                     data, unique)
        BY <1>1, <1>4, <4>4, <4>6, <4>7, <4>8, RunUndone
      <4>10. TypeInv'
        BY <1>2, <2>2, <4>2 DEF Sound, TypeInv
      <4>11. QED
        BY <1>2, <2>2, <4>9, <4>10 DEF RunInv
    <3>2. CASE file[p] # "shut"
      <4>1. /\ log' = log \o <<Mark(p, "RW")>> /\ itransyet' = itransyet
            /\ file' = file
        BY <1>4, <3>2 DEF isrollback
      <4>2. Added(log, log', Mark(p, "RW"))
        BY <1>1, <4>1, RecordType, AppendAdds
      <4>3. /\ Latest(log, Len(log), p) # 0
            /\ Opened(log, Latest(log, Len(log), p)) /\ Inside(log, p)
        BY <2>1, WithinFacts
      <4>4. Kept(log, log, p) /\ itransyet' \ {p} = itransyet \ {p}
        BY <1>1, <4>1, KeptSame
      <4>5. /\ LogInv(log')
            /\ RunIn(log', [ivbintrans EXCEPT ![p] = "rollback"], itransyet',
                     data, unique)
        BY <1>1, <1>4, <2>1, <4>2, <4>3, <4>4, RunUndone
      <4>6. TypeInv'
        BY <1>2, <2>2, <4>1 DEF Sound, TypeInv
      <4>7. QED
        BY <1>2, <2>2, <4>5, <4>6 DEF RunInv
    <3>3. QED
      BY <3>1, <3>2
  <2>4. QED
    BY <2>3 DEF Sound
<1>5. QED
  BY <1>2, <1>3, <1>4

(* At its end the rows are what they were, and the close follows RW.       *)
LEMMA RollbackEndKeeps ==
  ASSUME Sound, NEW p \in Proc, RollbackEnd(p), UNCHANGED <<phase, rec>>
  PROVE  Sound'
<1>1. /\ LogInv(log) /\ log \in Seq(Rec) /\ DOMAIN ivbintrans = Proc
      /\ RunIn(log, ivbintrans, itransyet, data, unique)
      /\ WhereIs(log, ivbintrans[p], p \in itransyet, p)
      /\ LogType(log)
  BY RunFacts DEF LogInv
<1>2. /\ ivbintrans[p] = "rollback" /\ data' = Undone(p) /\ unique' = unique
      /\ ivbintrans' = [ivbintrans EXCEPT ![p] = "none"]
      /\ ivbclose2(p, <<>>, <<>>)
  BY DEF RollbackEnd
<1>3. /\ file' = [file EXCEPT ![p] = "closed"] /\ itransyet' = itransyet \ {p}
      /\ log' = log \o <<>> \o Closing(p) \o <<>>
  BY <1>2 DEF ivbclose2
<1> DEFINE j == Latest(log, Len(log), p)
<1>4. j # 0 /\ log[j].op = "RW"
  BY <1>1, <1>2 DEF WhereIs
<1>5. Kept(log, log', p) /\ Out(log', Latest(log', Len(log'), p))
  <2>1. CASE p \in itransyet
    <3>1. Added(log, log', Mark(p, "FC"))
      BY <1>1, <1>3, <2>1, ClosingFacts, RecordType, AppendAdds
    <3>2. QED
      BY <1>1, <1>4, <3>1, CloseAdded
  <2>2. CASE p \notin itransyet
    <3>1. log' = log
      BY <1>1, <1>3, <2>2, ClosingFacts
    <3>2. Out(log, j)
      BY <1>4 DEF Out
    <3>3. QED
      BY <1>1, <3>1, <3>2, KeptSame
  <2>3. QED
    BY <2>1, <2>2
<1> HIDE DEF j
<1>6. \A r \in Row : data'[r] = IF r \in RowsOf(log, p) THEN OldOf(log, p, r)
                                ELSE data[r]
  BY <1>2, TouchedIs DEF Undone
<1>7. LogInv(log)' /\ RunInv'
  <2>1. LogInv(log')
    BY <1>5 DEF Kept
  <2>2. RunIn(log', [ivbintrans EXCEPT ![p] = "none"], itransyet \ {p}, data',
              unique)
    BY <1>1, <1>2, <1>5, <1>6, RunRestored
  <2>3. QED
    BY <1>2, <1>3, <2>1, <2>2 DEF RunInv
<1>8. data' \in [Row -> Value]
  <2>1. ASSUME NEW r \in Row, r \in RowsOf(log, p)
        PROVE  OldOf(log, p, r) \in Value
    BY <1>1, <2>1, FirstChange, ChangesFacts DEF Value
  <2>2. ASSUME NEW r \in Row PROVE data[r] \in Value
    BY DEF Sound, TypeInv
  <2>3. \A r \in Row : data'[r] \in Value
    BY <1>6, <2>1, <2>2
  <2>4. data' = [r \in Row |-> data'[r]]
    BY <1>2 DEF Undone
  <2>5. QED
    BY <2>3, <2>4
<1>9. TypeInv'
  BY <1>2, <1>3, <1>8 DEF Sound, TypeInv
<1>10. QED
  BY <1>7, <1>9 DEF Sound

(* Every call keeps the table and the log sound.                           *)
LEMMA CallKeeps ==
  ASSUME Sound, NEW p \in Proc, Call(p)
  PROVE  Sound' /\ phase' = phase /\ rec' = rec /\ phase = "run"
<1>1. UNCHANGED <<phase, rec>>
  BY DEF Call
<1>2. phase = "run"
  BY DEF Call, isbegin, isopen, isclose, iswrite, isdelete, isrewrite,
         isuniqueid, issetunique, iscommit, CommitEnd, isrollback,
         RollbackEnd, CanChange, Calls
<1>3. Sound'
  BY <1>1, isbeginKeeps, isopenKeeps, iscloseKeeps, iswriteKeeps,
     isdeleteKeeps, isrewriteKeeps, isuniqueidKeeps, issetuniqueKeeps,
     iscommitKeeps, CommitEndKeeps, isrollbackKeeps, RollbackEndKeeps
     DEF Call
<1>4. QED
  BY <1>1, <1>2, <1>3

-----------------------------------------------------------------------------
(* The last record of a process, one record further.                       *)
LEMMA LatestNext ==
  ASSUME NEW l, NEW a \in Nat \ {0}, NEW q
  PROVE  Latest(l, a, q) = IF l[a].proc = q THEN a ELSE Latest(l, a - 1, q)
<1>1. a - 1 \in Nat /\ 1..a = 1..(a - 1) \union {a} /\ a \in 0..a
  OBVIOUS
<1>2. CASE l[a].proc = q
  <2>1. Latest(l, a, q) = a
    BY <1>1, <1>2, LatestIs
  <2>2. QED
    BY <1>2, <2>1
<1>3. CASE l[a].proc # q
  <2>1. {j \in 1..a : l[j].proc = q} = {j \in 1..(a - 1) : l[j].proc = q}
    BY <1>1, <1>3
  <2>2. QED
    BY <1>3, <2>1 DEF Latest
<1>4. QED
  BY <1>2, <1>3

(* What a record tells of the one before it of the same process.           *)
LEMMA CancelledNext ==
  ASSUME NEW l, LogType(l), NEW a \in 1..Len(l),
         Latest(l, a - 1, l[a].proc) # 0
  PROVE  LET j == Latest(l, a - 1, l[a].proc) IN
         /\ j \in 1..Len(l)
         /\ l[a].op \notin Ending => (Cancelled(l, j) <=> Cancelled(l, a))
         /\ l[a].op = "RW" => Cancelled(l, j)
<1> DEFINE p == l[a].proc
           j == Latest(l, a - 1, p)
<1>1. Len(l) \in Nat /\ a - 1 \in Nat
  BY RecordFacts
<1>2. /\ j \in 0..(a - 1) /\ j # 0 /\ l[j].proc = p
      /\ \A k \in 1..(a - 1) : l[k].proc = p => k <= j
  BY <1>1, LatestFacts
<1> HIDE DEF j
<1>3. j \in 1..Len(l) /\ j \in Nat /\ j < a
  BY <1>1, <1>2
<1>4. \A k \in (j + 1)..(a - 1) : l[k].proc # p
  BY <1>1, <1>2, <1>3
<1>5. ASSUME l[a].op = "RW" PROVE Cancelled(l, j)
  <2>1. a \in (j + 1)..Len(l)
    BY <1>1, <1>3
  <2>2. QED
    BY <1>2, <1>4, <1>5, <2>1 DEF Cancelled
<1>6. ASSUME l[a].op \notin Ending, Cancelled(l, a) PROVE Cancelled(l, j)
  <2>1. PICK e \in (a + 1)..Len(l) :
          /\ l[e].proc = p /\ l[e].op = "RW"
          /\ \A k \in (a + 1)..(e - 1) : l[k].proc = p => l[k].op \notin Ending
    BY <1>6 DEF Cancelled
  <2>2. e \in (j + 1)..Len(l)
    BY <1>1, <1>3, <2>1
  <2>3. ASSUME NEW k \in (j + 1)..(e - 1), l[k].proc = p
        PROVE  l[k].op \notin Ending
    <3>1. k \in (j + 1)..(a - 1) \/ k = a \/ k \in (a + 1)..(e - 1)
      BY <1>1, <1>3, <2>1
    <3>2. QED
      BY <1>4, <1>6, <2>1, <2>3, <3>1
  <2>4. QED
    BY <1>2, <2>1, <2>2, <2>3 DEF Cancelled
<1>7. ASSUME l[a].op \notin Ending, Cancelled(l, j) PROVE Cancelled(l, a)
  <2>1. PICK e \in (j + 1)..Len(l) :
          /\ l[e].proc = p /\ l[e].op = "RW"
          /\ \A k \in (j + 1)..(e - 1) : l[k].proc = p => l[k].op \notin Ending
    BY <1>2, <1>7 DEF Cancelled
  <2>2. e > a
    <3>1. e # a
      BY <1>7, <2>1 DEF Ending
    <3>2. ~(e < a)
      BY <1>1, <1>3, <1>4, <2>1
    <3>3. QED
      BY <1>3, <2>1, <3>1, <3>2
  <2>3. e \in (a + 1)..Len(l)
    BY <1>1, <1>3, <2>1, <2>2
  <2>4. \A k \in (a + 1)..(e - 1) : k \in (j + 1)..(e - 1)
    BY <1>3, <2>1
  <2>5. QED
    BY <2>1, <2>3, <2>4 DEF Cancelled
<1>8. QED
  BY <1>3, <1>5, <1>6, <1>7 DEF j

(* ircvchecktrans says whether the transaction was rolled back.            *)
LEMMA CheckIsCancelled ==
  ASSUME LogType(log), NEW i \in 1..Len(log)
  PROVE  ircvchecktrans(i) <=> Cancelled(log, i)
<1> DEFINE T == {j \in (i + 1)..Len(log) : /\ log[j].proc = log[i].proc
                                           /\ log[j].op \in {"BW", "CW", "RW"}}
<1>1. Len(log) \in Nat /\ T \in SUBSET Nat
  BY RecordFacts
<1>2. ircvchecktrans(i) <=> T # {} /\ log[Min(T)].op = "RW"
  BY DEF ircvchecktrans
<1>3. ASSUME T # {}, log[Min(T)].op = "RW" PROVE Cancelled(log, i)
  <2>1. Min(T) \in T /\ \A y \in T : Min(T) <= y
    <3> HIDE DEF T
    <3>1. QED
      BY <1>1, <1>3, MinNumber
  <2>2. PICK x : x = Min(T)
    OBVIOUS
  <2>3. /\ x \in (i + 1)..Len(log) /\ log[x].proc = log[i].proc
        /\ log[x].op = "RW" /\ \A y \in T : x <= y
    BY <1>3, <2>1, <2>2
  <2>4. ASSUME NEW k \in (i + 1)..(x - 1), log[k].proc = log[i].proc
        PROVE  log[k].op \notin Ending
    <3>1. k \in (i + 1)..Len(log) /\ ~(x <= k)
      BY <1>1, <2>3
    <3>2. k \notin T
      BY <2>3, <3>1
    <3>3. QED
      BY <2>4, <3>1, <3>2 DEF Ending
  <2>5. QED
    BY <2>3, <2>4 DEF Cancelled
<1>4. ASSUME Cancelled(log, i) PROVE T # {} /\ log[Min(T)].op = "RW"
  <2>1. PICK e \in (i + 1)..Len(log) :
          /\ log[e].proc = log[i].proc /\ log[e].op = "RW"
          /\ \A k \in (i + 1)..(e - 1) :
               log[k].proc = log[i].proc => log[k].op \notin Ending
    BY <1>4 DEF Cancelled
  <2>2. e \in T
    BY <2>1
  <2>3. Min(T) \in T /\ \A y \in T : Min(T) <= y
    <3> HIDE DEF T
    <3>1. QED
      BY <1>1, <2>2, MinNumber
  <2>4. PICK x : x = Min(T)
    OBVIOUS
  <2>5. /\ x \in (i + 1)..Len(log) /\ log[x].proc = log[i].proc
        /\ log[x].op \in Ending /\ x <= e
    BY <2>2, <2>3, <2>4 DEF Ending
  <2>6. ~(x < e)
    <3>1. x < e => x \in (i + 1)..(e - 1)
      BY <2>1, <2>5
    <3>2. QED
      BY <2>1, <2>5, <3>1
  <2>7. x = e
    BY <2>1, <2>5, <2>6
  <2>8. QED
    BY <2>1, <2>2, <2>4, <2>7
<1>5. QED
  BY <1>2, <1>3, <1>4

(* A change, or an id, of a transaction that was rolled back.              *)
LEMMA CancelledIsRolledBack ==
  ASSUME LogInv(log), NEW i \in 1..Len(log), Opened(log, i), Cancelled(log, i)
  PROVE  RolledBack(i)
<1> DEFINE p == log[i].proc
<1>1. LogType(log) /\ Len(log) \in Nat
  BY RecordFacts DEF LogInv
<1>2. PICK j \in 1..(i - 1) :
        /\ log[j] = Mark(p, "BW")
        /\ \A k \in (j + 1)..i : log[k].proc = p => log[k].op \notin Ending
  BY DEF LogInv, Begun
<1>3. PICK e \in (i + 1)..Len(log) :
        /\ log[e].proc = p /\ log[e].op = "RW"
        /\ \A k \in (i + 1)..(e - 1) :
             log[k].proc = p => log[k].op \notin Ending
  BY DEF Cancelled
<1>4. j \in 1..i /\ j \in 1..Len(log) /\ e \in (j + 1)..Len(log)
      /\ log[j].proc = p /\ log[j].op = "BW"
  BY <1>1, <1>2, <1>3 DEF Mark, Record
<1>5. ASSUME NEW k \in (j + 1)..(e - 1), log[k].proc = p
      PROVE  log[k].op \notin Ending
  <2>1. k \in (j + 1)..i \/ k \in (i + 1)..(e - 1)
    BY <1>1, <1>2, <1>3
  <2>2. QED
    BY <1>2, <1>3, <1>5, <2>1
<1>6. Cancelled(log, j)
  BY <1>3, <1>4, <1>5 DEF Cancelled
<1>7. ircvchecktrans(j)
  BY <1>1, <1>4, <1>6, CheckIsCancelled
<1>8. ASSUME NEW k \in j..i PROVE log[k] # Mark(p, "RW")
  <2>1. Mark(p, "RW").op = "RW" /\ Mark(p, "RW").proc = p
    BY DEF Mark, Record
  <2>2. k = j \/ k \in (j + 1)..i
    BY <1>2
  <2>3. QED
    BY <1>2, <1>4, <2>1, <2>2 DEF Ending
<1>9. QED
  BY <1>2, <1>4, <1>7, <1>8 DEF RolledBack

(* What was true of the log up to n stays true, but for the last record.   *)
LEMMA TogetherNext ==
  ASSUME NEW l, NEW a \in Nat \ {0}
  PROVE  /\ TogetherAt(l, a - 1) => TogetherAt(l, a)
         /\ CountedIn(l, a - 1) => CountedIn(l, a)
         /\ \A p : p # l[a].proc /\ BehindAt(l, a - 1, p) => BehindAt(l, a, p)
<1>1. 1..(a - 1) \in SUBSET (1..a)
  OBVIOUS
<1>2. TogetherAt(l, a - 1) => TogetherAt(l, a)
  BY <1>1 DEF TogetherAt
<1>3. CountedIn(l, a - 1) => CountedIn(l, a)
  BY <1>1 DEF CountedIn
<1>4. ASSUME NEW p, p # l[a].proc, BehindAt(l, a - 1, p)
      PROVE  BehindAt(l, a, p)
  <2>1. Latest(l, a, p) = Latest(l, a - 1, p)
    BY <1>4, LatestNext
  <2>2. QED
    BY <1>1, <1>4, <2>1 DEF BehindAt
<1>5. QED
  BY <1>2, <1>3, <1>4

(* A record that is read without a call on a handle, and closes its own if *)
(* it is open.                                                             *)
LEMMA HandlesRest ==
  ASSUME NEW l, NEW x \in Recs, HandlesIn(l, x), x.at # 0,
         NEW y \in Recs, y.at = x.at + 1, y.seen = x.seen,
         y.unique = x.unique, y.handle[l[x.at].proc] = 0,
         \A q \in Proc \ {l[x.at].proc} : y.handle[q] = x.handle[q]
  PROVE  HandlesIn(l, y)
<1>1. PICK a : a = x.at
  OBVIOUS
<1>2. a \in Nat \ {0} /\ y.at - 1 = a /\ Len(x.seen) \in Nat
  BY <1>1, RecsFacts
<1>3. ASSUME NEW p \in Proc
      PROVE  /\ y.handle[p] \in 0..Len(y.seen)
             /\ y.handle[p] # 0 =>
                  \/ y.seen[y.handle[p]] = y.unique
                  \/ TogetherAt(l, a) /\ BehindAt(l, a, p)
  <2>1. CASE p = l[a].proc
    BY <1>1, <1>2, <2>1
  <2>2. CASE p # l[a].proc
    <3>1. /\ y.handle[p] = x.handle[p] /\ x.handle[p] \in 0..Len(x.seen)
          /\ x.handle[p] # 0 =>
               \/ x.seen[x.handle[p]] = x.unique
               \/ TogetherAt(l, a - 1) /\ BehindAt(l, a - 1, p)
      BY <1>1, <2>2 DEF HandlesIn
    <3>2. QED
      BY <1>2, <2>2, <3>1, TogetherNext
  <2>3. QED
    BY <2>1, <2>2
<1>4. /\ Len(x.seen) <= 1 \/ TogetherAt(l, a)
      /\ \/ \A h \in 1..Len(x.seen) : x.seen[h] = x.unique
         \/ TogetherAt(l, a) /\ CountedIn(l, a)
  BY <1>1, <1>2, TogetherNext DEF HandlesIn
<1>5. QED
  BY <1>2, <1>3, <1>4 DEF HandlesIn

(* A call on the handle of the process: it has seen the unique id that the *)
(* call leaves, which is another one only if the record counts.            *)
LEMMA HandlesEnter ==
  ASSUME NEW l, NEW x \in Recs, HandlesIn(l, x), x.at # 0,
         l[x.at].proc \in Proc, x.handle[l[x.at].proc] # 0,
         NEW y \in Recs, y.at = x.at + 1, y.handle = x.handle,
         y.seen = [x.seen EXCEPT ![x.handle[l[x.at].proc]] = y.unique],
         l[x.at].op \in Counting \/ y.unique = x.unique
  PROVE  HandlesIn(l, y)
<1>1. PICK a : a = x.at
  OBVIOUS
<1>2. PICK h : h = x.handle[l[a].proc]
  OBVIOUS
<1>3. /\ a \in Nat \ {0} /\ y.at - 1 = a /\ Len(x.seen) \in Nat
      /\ x.seen \in Seq(Nat) /\ y.unique \in Nat
  BY <1>1, RecsFacts
<1>4. h \in 1..Len(x.seen)
  BY <1>1, <1>2, <1>3 DEF HandlesIn
<1>5. /\ Len(y.seen) = Len(x.seen) /\ y.seen[h] = y.unique
      /\ \A g \in 1..Len(x.seen) : g # h => y.seen[g] = x.seen[g]
  BY <1>1, <1>2, <1>3, <1>4
<1>6. ASSUME NEW p \in Proc
      PROVE  /\ y.handle[p] \in 0..Len(y.seen)
             /\ y.handle[p] # 0 =>
                  \/ y.seen[y.handle[p]] = y.unique
                  \/ TogetherAt(l, a) /\ BehindAt(l, a, p)
  <2>1. x.handle[p] \in 0..Len(x.seen) /\ y.handle[p] = x.handle[p]
    BY DEF HandlesIn
  <2>2. CASE x.handle[p] = h
    BY <1>5, <2>1, <2>2
  <2>3. CASE x.handle[p] = 0
    BY <1>5, <2>1, <2>3
  <2>4. CASE x.handle[p] # h /\ x.handle[p] # 0
    <3>1. x.handle[p] \in 1..Len(x.seen) /\ 2 <= Len(x.seen)
      BY <1>3, <1>4, <2>1, <2>4
    <3>2. y.seen[y.handle[p]] = x.seen[x.handle[p]]
      BY <1>5, <2>1, <2>4, <3>1
    <3>3. TogetherAt(l, a - 1)
      BY <1>1, <1>3, <3>1 DEF HandlesIn
    <3>4. p # l[a].proc
      BY <1>2, <2>4
    <3>5. CASE l[a].op \in Counting
      <4>1. Latest(l, a, p) = Latest(l, a - 1, p)
        BY <1>3, <3>4, LatestNext
      <4>2. Latest(l, a - 1, p) \in 0..(a - 1)
        BY <1>3, LatestFacts
      <4>3. BehindAt(l, a, p)
        <5>1. a \in 1..a /\ a > Latest(l, a, p)
          BY <1>3, <4>1, <4>2
        <5>2. QED
          BY <3>5, <5>1 DEF BehindAt
      <4>4. QED
        BY <1>3, <1>5, <2>1, <3>3, <4>3, TogetherNext
    <3>6. CASE y.unique = x.unique
      <4>1. \/ x.seen[x.handle[p]] = x.unique
            \/ TogetherAt(l, a - 1) /\ BehindAt(l, a - 1, p)
        BY <1>1, <2>4 DEF HandlesIn
      <4>2. QED
        BY <1>3, <1>5, <2>1, <3>2, <3>4, <3>6, <4>1, TogetherNext
    <3>7. QED
      BY <1>1, <3>5, <3>6
  <2>5. QED
    BY <2>2, <2>3, <2>4
<1>7. Len(y.seen) <= 1 \/ TogetherAt(l, a)
  BY <1>1, <1>3, <1>5, TogetherNext DEF HandlesIn
<1>8. \/ \A g \in 1..Len(y.seen) : y.seen[g] = y.unique
      \/ TogetherAt(l, a) /\ CountedIn(l, a)
  <2>1. CASE Len(x.seen) <= 1
    <3>1. \A g \in 1..Len(y.seen) : g = h
      BY <1>3, <1>4, <1>5, <2>1
    <3>2. QED
      BY <1>5, <3>1
  <2>2. CASE ~(Len(x.seen) <= 1) /\ l[a].op \in Counting
    <3>1. CountedIn(l, a) /\ TogetherAt(l, a - 1)
      BY <1>1, <1>3, <2>2 DEF HandlesIn, CountedIn
    <3>2. QED
      BY <1>3, <3>1, TogetherNext
  <2>3. CASE y.unique = x.unique
    <3>1. \/ \A g \in 1..Len(x.seen) : x.seen[g] = x.unique
          \/ TogetherAt(l, a - 1) /\ CountedIn(l, a - 1)
      BY <1>1 DEF HandlesIn
    <3>2. CASE \A g \in 1..Len(x.seen) : x.seen[g] = x.unique
      BY <1>5, <2>3, <3>2
    <3>3. QED
      BY <1>3, <3>1, <3>2, TogetherNext
  <2>4. QED
    BY <1>1, <2>1, <2>2, <2>3
<1>9. QED
  BY <1>3, <1>6, <1>7, <1>8 DEF HandlesIn

(* An isopen that is replayed: on a handle that was closed, whatever it has*)
(* seen, or on a new one; another process has one open if others are not   *)
(* closed.                                                                 *)
LEMMA HandlesOpen ==
  ASSUME NEW l, NEW x \in Recs, HandlesIn(l, x), x.at # 0,
         l[x.at].proc \in Proc, l[x.at].op = "FO",
         NEW h \in Nat, NEW y \in Recs, y.at = x.at + 1, y.unique = x.unique,
         y.handle = [x.handle EXCEPT ![l[x.at].proc] = h],
         \/ h \in 1..Len(x.seen) /\ y.seen = x.seen
         \/ /\ h = Len(x.seen) + 1 /\ y.seen = Append(x.seen, x.unique)
            /\ Len(x.seen) # 0 =>
                 \E q \in Proc \ {l[x.at].proc} :
                   LET j == Latest(l, x.at - 1, q) IN j # 0 /\ Opened(l, j)
  PROVE  HandlesIn(l, y)
<1>1. PICK a : a = x.at
  OBVIOUS
<1>2. /\ a \in Nat \ {0} /\ y.at - 1 = a /\ Len(x.seen) \in Nat
      /\ x.seen \in Seq(Nat) /\ x.unique \in Nat /\ x.handle \in [Proc -> Nat]
  <2>1. /\ x.at \in Nat /\ x.unique \in Nat /\ x.handle \in [Proc -> Nat]
        /\ x.seen \in Seq(Nat) /\ Len(x.seen) \in Nat
    BY RecsFacts
  <2>2. a \in Nat \ {0} /\ y.at - 1 = a
    BY <1>1, <2>1
  <2>3. QED
    BY <2>1, <2>2
<1>3. /\ y.handle[l[a].proc] = h
      /\ \A q \in Proc \ {l[a].proc} : y.handle[q] = x.handle[q]
  BY <1>1, <1>2
<1>4. /\ h \in 1..Len(y.seen) /\ Len(x.seen) <= Len(y.seen)
      /\ \A g \in 1..Len(x.seen) : y.seen[g] = x.seen[g]
      /\ \A g \in 1..Len(y.seen) : g \in 1..Len(x.seen) \/ y.seen[g] = x.unique
  <2>1. CASE h \in 1..Len(x.seen) /\ y.seen = x.seen
    BY <1>2, <2>1
  <2>2. CASE h = Len(x.seen) + 1 /\ y.seen = Append(x.seen, x.unique)
    <3>1. /\ Len(y.seen) = Len(x.seen) + 1
          /\ y.seen[Len(x.seen) + 1] = x.unique
          /\ \A g \in 1..Len(x.seen) : y.seen[g] = x.seen[g]
      BY <1>2, <2>2
    <3>2. \A g \in 1..Len(y.seen) :
            g \in 1..Len(x.seen) \/ g = Len(x.seen) + 1
      BY <1>2, <3>1
    <3>3. QED
      BY <1>2, <2>2, <3>1, <3>2
  <2>3. QED
    BY <2>1, <2>2
<1>5. Len(y.seen) <= 1 \/ TogetherAt(l, a)
  <2>1. CASE y.seen = x.seen
    BY <1>1, <1>2, <2>1, TogetherNext DEF HandlesIn
  <2>2. CASE y.seen = Append(x.seen, x.unique) /\ Len(x.seen) = 0
    BY <1>2, <2>2
  <2>3. CASE \E q \in Proc \ {l[x.at].proc} :
               LET j == Latest(l, x.at - 1, q) IN j # 0 /\ Opened(l, j)
    <3>1. a \in 1..a
      BY <1>2
    <3>2. QED
      BY <1>1, <2>3, <3>1 DEF TogetherAt
  <2>4. QED
    BY <2>1, <2>2, <2>3
<1>6. \/ \A g \in 1..Len(y.seen) : y.seen[g] = y.unique
      \/ TogetherAt(l, a) /\ CountedIn(l, a)
  <2>1. \/ \A g \in 1..Len(x.seen) : x.seen[g] = x.unique
        \/ TogetherAt(l, a - 1) /\ CountedIn(l, a - 1)
    BY <1>1 DEF HandlesIn
  <2>2. CASE \A g \in 1..Len(x.seen) : x.seen[g] = x.unique
    BY <1>4, <2>2
  <2>3. QED
    BY <1>2, <2>1, <2>2, TogetherNext
<1>7. ASSUME NEW p \in Proc
      PROVE  /\ y.handle[p] \in 0..Len(y.seen)
             /\ y.handle[p] # 0 =>
                  \/ y.seen[y.handle[p]] = y.unique
                  \/ TogetherAt(l, a) /\ BehindAt(l, a, p)
  <2>1. CASE p = l[a].proc
    <3>1. Latest(l, a, p) = a
      BY <1>2, <2>1, LatestNext
    <3>2. CountedIn(l, a) => BehindAt(l, a, p)
      BY <1>1, <3>1 DEF CountedIn, BehindAt
    <3>3. QED
      BY <1>3, <1>4, <1>6, <2>1, <3>2
  <2>2. CASE p # l[a].proc
    <3>1. /\ y.handle[p] = x.handle[p] /\ x.handle[p] \in 0..Len(x.seen)
          /\ x.handle[p] # 0 =>
               \/ x.seen[x.handle[p]] = x.unique
               \/ TogetherAt(l, a - 1) /\ BehindAt(l, a - 1, p)
      BY <1>1, <1>3, <2>2 DEF HandlesIn
    <3>2. x.handle[p] # 0 => y.seen[x.handle[p]] = x.seen[x.handle[p]]
      BY <1>4, <3>1
    <3>3. y.handle[p] \in 0..Len(y.seen)
      BY <1>2, <1>4, <3>1
    <3>4. QED
      BY <1>2, <2>2, <3>1, <3>2, <3>3, TogetherNext
  <2>3. QED
    BY <2>1, <2>2
<1>8. QED
  BY <1>2, <1>5, <1>6, <1>7 DEF HandlesIn

(* What a recovery that has read a record more must have come to.          *)
LEMMA ReplayNext ==
  ASSUME NEW l, LogInv(l), NEW x, ReplayIn(l, x), x.at <= Len(l),
         NEW y \in Recs, y.at = x.at + 1, ~Outer(l, x.at),
         \A q \in Proc \ {l[x.at].proc} :
           y.trans[q] = x.trans[q] /\ (y.handle[q] # 0 <=> x.handle[q] # 0),
         y.trans[l[x.at].proc] = TransAt(l, x.at),
         y.handle[l[x.at].proc] # 0 <=> OpenAt(l, x.at),
         \A r \in Row :
           y.data[r] = IF /\ l[x.at].op \in Changing /\ l[x.at].number = r
                          /\ ~Cancelled(l, x.at)
                       THEN l[x.at].new ELSE x.data[r],
         CountsLast(l, x.at) /\ IdAt(l, x.at - 1, x.unique) =>
           IdAt(l, x.at, y.unique),
         HandlesIn(l, y)
  PROVE  ReplayIn(l, y)
<1>1. PICK a : a = x.at
  OBVIOUS
<1>2. /\ Len(l) \in Nat /\ a \in 1..Len(l) /\ a \in Nat \ {0}
      /\ LogType(l) /\ y.at - 1 = a /\ y.at \in 1..(Len(l) + 1)
      /\ 1..(a - 1) \in SUBSET (1..a)
  BY <1>1, RecordFacts DEF ReplayIn, LogInv
<1>3. ASSUME NEW p \in Proc PROVE Progress(l, y, p)
  <2>1. CASE p = l[a].proc
    <3>1. Latest(l, a, p) = a
      BY <1>2, <2>1, LatestNext
    <3>2. QED
      BY <1>1, <1>2, <2>1, <3>1 DEF Progress
  <2>2. CASE p # l[a].proc
    <3>1. Latest(l, a, p) = Latest(l, a - 1, p)
      BY <1>2, <2>2, LatestNext
    <3>2. Progress(l, x, p)
      BY DEF ReplayIn
    <3>3. QED
      BY <1>1, <1>2, <2>2, <3>1, <3>2 DEF Progress
  <2>3. QED
    BY <2>1, <2>2
<1>4. ASSUME NEW r \in Row PROVE y.data[r] = RowAt(l, a, r)
  <2>1. x.data[r] = RowAt(l, a - 1, r)
    BY <1>1 DEF ReplayIn
  <2>2. RowAt(l, a, r) =
          IF l[a].op \in Changing /\ l[a].number = r /\ ~Cancelled(l, a)
          THEN l[a].new ELSE RowAt(l, a - 1, r)
    BY <1>2, RowAtNext
  <2>3. QED
    BY <1>1, <2>1, <2>2
<1>5. ASSUME CountsLast(l, a) PROVE IdAt(l, a, y.unique)
  <2>1. CountsLast(l, a - 1)
    BY <1>2, <1>5 DEF CountsLast
  <2>2. IdAt(l, a - 1, x.unique)
    BY <1>1, <2>1 DEF ReplayIn
  <2>3. QED
    BY <1>1, <1>5, <2>2
<1>6. QED
  BY <1>2, <1>3, <1>4, <1>5 DEF ReplayIn

(* The record that is read, its process and the record before it.          *)
Who  == log[rec.at].proc
Prev == Latest(log, rec.at - 1, Who)

(* The recovery is under way.                                              *)
Replaying == Sound /\ phase = "replay" /\ ReplayIn(log, rec)

(* The record that is read, with the rules it obeys and what the recovery  *)
(* knows of its process.                                                   *)
LEMMA ReadFacts ==
  ASSUME Replaying, NEW x, Reading(x)
  PROVE  /\ rec.at \in 1..Len(log) /\ rec.at \in Nat /\ Who \in Proc
         /\ log[rec.at].op = x /\ KeysFit(log[rec.at])
         /\ log[rec.at].number \in Nat
         /\ Follows(log, rec.at) /\ Chained(log, rec.at)
         /\ Counted(log, rec.at)
         /\ Prev \in 0..(rec.at - 1)
         /\ Prev # 0 => ~Outer(log, Prev)
         /\ rec.trans[Who] = TransAt(log, Prev)
         /\ rec.handle[Who] # 0 <=> OpenAt(log, Prev)
         /\ rec \in Recs /\ LogType(log) /\ LogInv(log) /\ ReplayIn(log, rec)
<1>1. /\ LogInv(log) /\ LogType(log) /\ ReplayIn(log, rec) /\ rec \in Recs
      /\ Len(log) \in Nat
  BY RecordFacts DEF Replaying, Sound, LogInv, ReplayIn
<1>2. rec.at \in 1..Len(log) /\ rec.at \in Nat /\ log[rec.at].op = x
  BY <1>1 DEF Reading, ReplayIn
<1>3. Who \in Proc /\ KeysFit(log[rec.at]) /\ log[rec.at].number \in Nat
  BY <1>1, <1>2, RecordFacts DEF Who
<1>4. Follows(log, rec.at) /\ Chained(log, rec.at) /\ Counted(log, rec.at)
  BY <1>1, <1>2 DEF LogInv
<1>5. Prev \in 0..(rec.at - 1)
  BY <1>2, LatestFacts DEF Prev
<1>6. Progress(log, rec, Who)
  BY <1>1, <1>3 DEF ReplayIn
<1>7. QED
  BY <1>1, <1>2, <1>3, <1>4, <1>5, <1>6 DEF Progress, Prev

(* Going to the next record changes nothing else.                          *)
LEMMA AdvanceFacts ==
  ASSUME NEW x \in Recs
  PROVE  /\ Advance(x) \in Recs /\ Advance(x).at = x.at + 1
         /\ Advance(x).trans = x.trans /\ Advance(x).handle = x.handle
         /\ Advance(x).data = x.data /\ Advance(x).unique = x.unique
         /\ Advance(x).seen = x.seen
<1>1. Advance(x) = [x EXCEPT !.at = x.at + 1] /\ x.at + 1 \in Nat
  <2>1. Advance(x) = [x EXCEPT !.at = x.at + 1]
    BY DEF Advance
  <2>2. x.at \in Nat
    BY DEF Recs
  <2>3. QED
    BY <2>1, <2>2
<1>2. Advance(x) \in Recs
  BY <1>1 DEF Recs
<1>3. QED
  BY <1>1, <1>2 DEF Recs

(* A record of a transaction that is ignored.                              *)
LEMMA SkipKeeps ==
  ASSUME Replaying, NEW x, Reading(x), x \notin Ending,
         rec.trans[Who] = "ignored"
  PROVE  ReplayIn(log, Advance(rec))
<1>1. /\ rec.at \in 1..Len(log) /\ rec.at \in Nat /\ Who \in Proc
      /\ log[rec.at].op = x
      /\ rec.trans[Who] = TransAt(log, Prev)
      /\ rec.handle[Who] # 0 <=> OpenAt(log, Prev)
      /\ rec \in Recs /\ LogType(log) /\ LogInv(log) /\ ReplayIn(log, rec)
  BY ReadFacts
<1>2. ~Out(log, Prev) /\ Cancelled(log, Prev)
  BY <1>1 DEF TransAt
<1>3. Prev # 0 /\ log[Prev].op \notin {"RW", "CW"}
  BY <1>2 DEF Out
<1>4. Cancelled(log, rec.at)
  BY <1>1, <1>2, <1>3, CancelledNext DEF Prev, Who
<1>5. ~Outer(log, rec.at)
  BY <1>3 DEF Outer, Prev, Who
<1>6. ~Out(log, rec.at)
  BY <1>1, <1>5 DEF Out, Ending
<1> DEFINE y == Advance(rec)
<1>7. /\ y \in Recs /\ y.at = rec.at + 1 /\ y.trans = rec.trans
      /\ y.handle = rec.handle /\ y.data = rec.data
      /\ y.unique = rec.unique /\ y.seen = rec.seen
  BY <1>1, AdvanceFacts
<1> HIDE DEF y
<1>8. y.trans[Who] = TransAt(log, rec.at)
  BY <1>1, <1>2, <1>4, <1>6, <1>7 DEF TransAt
<1>9. y.handle[Who] # 0 <=> OpenAt(log, rec.at)
  BY <1>1, <1>2, <1>4, <1>7 DEF OpenAt
<1>10. CountsLast(log, rec.at) /\ IdAt(log, rec.at - 1, rec.unique) =>
         IdAt(log, rec.at, y.unique)
  <2>1. CASE x \in Counting
    <3>1. ~CountsLast(log, rec.at)
      BY <1>1, <1>4, <2>1 DEF CountsLast
    <3>2. QED
      BY <3>1
  <2>2. CASE x \notin Counting
    <3>1. IdSet(log, rec.at) = IdSet(log, rec.at - 1)
      BY <1>1, <2>2, IdSetNext
    <3>2. QED
      BY <1>7, <3>1 DEF IdAt
  <2>3. QED
    BY <2>1, <2>2
<1>11. HandlesIn(log, y)
  <2>1. y.handle[Who] = 0 /\ rec.at # 0 /\ HandlesIn(log, rec)
    BY <1>1, <1>2, <1>7 DEF OpenAt, ReplayIn
  <2>2. QED
    BY <1>1, <1>7, <2>1, HandlesRest DEF Who
<1>12. ReplayIn(log, y)
  <2>1. rec.at <= Len(log)
    BY <1>1
  <2>2. \A q \in Proc \ {log[rec.at].proc} :
          y.trans[q] = rec.trans[q] /\ (y.handle[q] # 0 <=> rec.handle[q] # 0)
    BY <1>7
  <2>3. \A r \in Row :
          y.data[r] = IF /\ log[rec.at].op \in Changing
                         /\ log[rec.at].number = r /\ ~Cancelled(log, rec.at)
                      THEN log[rec.at].new ELSE rec.data[r]
    BY <1>4, <1>7
  <2>4. QED
    BY <1>1, <1>5, <1>7, <1>8, <1>9, <1>10, <1>11, <2>1, <2>2, <2>3,
       ReplayNext DEF Who
<1>13. QED
  BY <1>12 DEF y

(* What a step of the recovery may come to.                                *)
Explained(error) ==
  CASE error \in {"none", "torn"} -> rec.data = Expected
    [] error = "ENOTOPEN" ->
         log[rec.at].op = "FC" /\ log[LastOf(rec.at, Who)].op = "RW"
    [] error = "EBADFILE" ->
         /\ log[rec.at].op = "UN"
         /\ \/ \E i \in 1..rec.at : log[i].op \in Counting /\ RolledBack(i)
            \/ Together(rec.at) /\ Behind(rec.at)
    [] OTHER -> FALSE

(* A step of the recovery reads a record and stays exact, or stops for a   *)
(* reason that RecoveryExact admits.                                       *)
Goes ==
  \/ \E y : Read(y) /\ ReplayIn(log, y)
  \/ \E error \in {"none", "torn", "ENOTOPEN", "EBADFILE"} :
       Stop(error) /\ Explained(error)

(* A change, or a unique id, that is not ignored finds its handle open.    *)
LEMMA GoesOn ==
  ASSUME Replaying, NEW x \in Changing \union Counting, Reading(x),
         rec.trans[Who] # "ignored"
  PROVE  /\ rec.handle[Who] # 0 /\ ~Cancelled(log, rec.at)
         /\ rec.trans[Who] = "replayed"
         /\ rec.handle[Who] \in 1..Len(rec.seen)
<1>1. /\ rec.at \in 1..Len(log) /\ rec.at \in Nat /\ Who \in Proc
      /\ log[rec.at].op = x /\ Follows(log, rec.at)
      /\ rec.trans[Who] = TransAt(log, Prev)
      /\ rec.handle[Who] # 0 <=> OpenAt(log, Prev)
      /\ LogType(log)
  BY ReadFacts
<1>2. Prev # 0 /\ Opened(log, Prev)
  BY <1>1 DEF Follows, Prev, Who
<1>3. ~Out(log, Prev)
  BY <1>2 DEF Out, Opened, Outer, Changing, Counting
<1>4. ~Cancelled(log, Prev) /\ rec.trans[Who] = "replayed"
  BY <1>1, <1>3 DEF TransAt
<1>5. x \notin Ending
  BY DEF Ending, Changing, Counting
<1>6. ~Cancelled(log, rec.at)
  BY <1>1, <1>2, <1>4, <1>5, CancelledNext DEF Prev, Who
<1>7. rec.handle[Who] # 0
  BY <1>1, <1>2, <1>4 DEF OpenAt
<1>8. rec.handle[Who] \in 1..Len(rec.seen)
  <2>1. HandlesIn(log, rec) /\ rec \in Recs
    BY <1>1, ReadFacts DEF ReplayIn
  <2>2. rec.handle[Who] \in 0..Len(rec.seen) /\ Len(rec.seen) \in Nat
    BY <1>1, <2>1, RecsFacts DEF HandlesIn
  <2>3. QED
    BY <1>7, <2>2
<1>9. QED
  BY <1>4, <1>6, <1>7, <1>8

(* What a call leaves: its unique id in the table and in the handle.       *)
LEMMA EnterFacts ==
  ASSUME NEW x \in Recs, NEW u \in Nat, rec.handle[Who] \in 1..Len(x.seen)
  PROVE  /\ Enter(x, u) \in Recs /\ Enter(x, u).at = x.at
         /\ Enter(x, u).trans = x.trans /\ Enter(x, u).handle = x.handle
         /\ Enter(x, u).data = x.data /\ Enter(x, u).unique = u
         /\ Enter(x, u).seen = [x.seen EXCEPT ![rec.handle[Who]] = u]
<1> DEFINE s == [x.seen EXCEPT ![rec.handle[Who]] = u]
<1>1. s \in Seq(Nat)
  <2>1. x.seen \in Seq(Nat)
    BY RecsFacts
  <2>2. QED
    BY <2>1, ExceptSeq
<1>2. Enter(x, u) = [x EXCEPT !.unique = u, !.seen = s]
  BY DEF Enter, Who
<1> HIDE DEF s
<1>3. /\ Enter(x, u) \in Recs /\ Enter(x, u).at = x.at
      /\ Enter(x, u).trans = x.trans /\ Enter(x, u).handle = x.handle
      /\ Enter(x, u).data = x.data /\ Enter(x, u).unique = u
      /\ Enter(x, u).seen = s
  BY <1>1, <1>2 DEF Recs
<1>4. QED
  BY <1>3 DEF s

(* A change or an id that is replayed.                                     *)
LEMMA ReplayedKeeps ==
  ASSUME Replaying, NEW x \in Changing \union Counting, Reading(x),
         rec.trans[Who] # "ignored",
         NEW z \in Recs, z.at = rec.at, z.trans = rec.trans,
         z.handle = rec.handle,
         z.seen = [rec.seen EXCEPT ![rec.handle[Who]] = z.unique],
         x \in Counting \/ z.unique = rec.unique,
         \A r \in Row : z.data[r] = IF x \in Changing /\ log[rec.at].number = r
                                    THEN log[rec.at].new ELSE rec.data[r],
         CountsLast(log, rec.at) /\ IdAt(log, rec.at - 1, rec.unique) =>
           IdAt(log, rec.at, z.unique)
  PROVE  ReplayIn(log, Advance(z))
<1>1. /\ rec.at \in 1..Len(log) /\ rec.at \in Nat /\ Who \in Proc
      /\ log[rec.at].op = x
      /\ LogInv(log) /\ ReplayIn(log, rec)
  BY ReadFacts
<1>2. /\ rec.handle[Who] # 0 /\ ~Cancelled(log, rec.at)
      /\ rec.trans[Who] = "replayed"
  BY GoesOn
<1> DEFINE y == Advance(z)
<1>3. /\ y \in Recs /\ y.at = rec.at + 1 /\ y.trans = rec.trans
      /\ y.handle = rec.handle /\ y.data = z.data /\ y.unique = z.unique
      /\ y.seen = z.seen
  BY AdvanceFacts
<1> HIDE DEF y
<1>4. /\ ~Outer(log, rec.at) /\ ~Out(log, rec.at) /\ Opened(log, rec.at)
      /\ rec.at # 0
  BY <1>1 DEF Outer, Out, Opened, Changing, Counting
<1>5. /\ y.trans[Who] = TransAt(log, rec.at)
      /\ y.handle[Who] # 0 <=> OpenAt(log, rec.at)
  BY <1>2, <1>3, <1>4 DEF TransAt, OpenAt
<1>6. rec.at <= Len(log)
  BY <1>1
<1>7. \A q \in Proc \ {log[rec.at].proc} :
        y.trans[q] = rec.trans[q] /\ (y.handle[q] # 0 <=> rec.handle[q] # 0)
  BY <1>3
<1>8. \A r \in Row :
        y.data[r] = IF /\ log[rec.at].op \in Changing
                       /\ log[rec.at].number = r /\ ~Cancelled(log, rec.at)
                    THEN log[rec.at].new ELSE rec.data[r]
  BY <1>1, <1>2, <1>3
<1>9. CountsLast(log, rec.at) /\ IdAt(log, rec.at - 1, rec.unique) =>
        IdAt(log, rec.at, y.unique)
  BY <1>3
<1>10. HandlesIn(log, y)
  <2>1. HandlesIn(log, rec) /\ rec \in Recs /\ rec.at # 0
    BY <1>1 DEF ReplayIn
  <2>2. /\ y.seen = [rec.seen EXCEPT ![rec.handle[Who]] = y.unique]
        /\ x \in Counting \/ y.unique = rec.unique
    BY <1>3
  <2>3. QED
    BY <1>1, <1>2, <1>3, <2>1, <2>2, HandlesEnter DEF Who
<1>11. ReplayIn(log, y)
  BY <1>1, <1>3, <1>4, <1>5, <1>6, <1>7, <1>8, <1>9, <1>10, ReplayNext
     DEF Who
<1>12. QED
  BY <1>11 DEF y

(* A change finds the row as the log says and no duplicate of its key.     *)
LEMMA ChangeFits ==
  ASSUME Replaying, NEW x \in Changing, Reading(x),
         rec.trans[Who] # "ignored"
  PROVE  LET e == log[rec.at] IN
         /\ e.number \in Row /\ e.op = x /\ e.new \in Value
         /\ e.old = rec.data[e.number]
         /\ IF x = "IN" THEN e.old = NoKey ELSE e.old # NoKey
         /\ IF x = "DE" THEN e.new = NoKey
            ELSE ~Duplicate(rec.data, e.new, e.number)
<1> DEFINE e == log[rec.at]
           r == e.number
<1>1. /\ rec.at \in 1..Len(log) /\ rec.at \in Nat /\ Who \in Proc
      /\ log[rec.at].op = x /\ KeysFit(log[rec.at]) /\ Chained(log, rec.at)
      /\ ReplayIn(log, rec)
  BY ReadFacts
<1>2. ~Cancelled(log, rec.at)
  BY GoesOn
<1>3. \A s \in Row : rec.data[s] = RowAt(log, rec.at - 1, s)
  BY <1>1 DEF ReplayIn
<1>4. /\ r \in Row
      /\ IF x = "IN" THEN e.old = NoKey ELSE e.old \in KeyOf[e.proc]
      /\ IF x = "DE" THEN e.new = NoKey ELSE e.new \in KeyOf[e.proc]
  BY <1>1 DEF KeysFit
<1>5. NoKey \notin KeyOf[e.proc] /\ KeyOf[e.proc] \in SUBSET Value
  BY <1>1, RecoverAssumption DEF Who, Value
<1>6. /\ e.old = RowAt(log, rec.at - 1, r)
      /\ e.new # NoKey =>
           \A s \in Row \ {r} : RowAt(log, rec.at - 1, s) # e.new
  BY <1>1, <1>2 DEF Chained
<1>7. e.new \in Value
  BY <1>4, <1>5 DEF Value
<1> HIDE DEF e, r
<1>8. IF x = "DE" THEN e.new = NoKey ELSE ~Duplicate(rec.data, e.new, r)
  BY <1>3, <1>4, <1>5, <1>6 DEF Duplicate
<1>9. IF x = "IN" THEN e.old = NoKey ELSE e.old # NoKey
  BY <1>4, <1>5
<1>10. e.old = rec.data[r]
  BY <1>3, <1>4, <1>6
<1>11. QED
  BY <1>1, <1>4, <1>7, <1>8, <1>9, <1>10 DEF e, r

(* A change is ignored or replayed.                                        *)
LEMMA ChangeGoes ==
  ASSUME Replaying, NEW x \in Changing, Reading(x),
         IF rec.trans[Who] = "ignored" THEN Read(Advance(rec))
         ELSE Read(Advance(Enter([rec EXCEPT !.data[log[rec.at].number] =
                                    log[rec.at].new], rec.unique)))
  PROVE  Goes
<1>1. CASE rec.trans[Who] = "ignored"
  <2>1. x \notin Ending
    BY DEF Changing, Ending
  <2>2. ReplayIn(log, Advance(rec))
    BY <1>1, <2>1, SkipKeeps
  <2>3. QED
    BY <1>1, <2>2 DEF Goes
<1>2. CASE rec.trans[Who] # "ignored"
  <2> DEFINE e == log[rec.at]
             w == [rec EXCEPT !.data[e.number] = e.new]
             z == Enter(w, rec.unique)
  <2>1. e.number \in Row /\ e.new \in Value /\ e.op = x
    BY <1>2, ChangeFits
  <2>2. rec \in Recs /\ LogType(log) /\ rec.at \in 1..Len(log)
    BY ReadFacts
  <2> HIDE DEF e
  <2>3. /\ w \in Recs /\ w.at = rec.at /\ w.trans = rec.trans
        /\ w.handle = rec.handle /\ w.seen = rec.seen
        /\ w.data = [rec.data EXCEPT ![e.number] = e.new]
        /\ rec.unique \in Nat
    BY <2>1, <2>2 DEF Recs
  <2> HIDE DEF w
  <2>4. /\ z \in Recs /\ z.at = rec.at /\ z.trans = rec.trans
        /\ z.handle = rec.handle /\ z.unique = rec.unique
        /\ z.data = [rec.data EXCEPT ![e.number] = e.new]
        /\ z.seen = [rec.seen EXCEPT ![rec.handle[Who]] = rec.unique]
    <3>1. rec.handle[Who] \in 1..Len(w.seen)
      BY <1>2, <2>3, GoesOn
    <3>2. QED
      BY <2>3, <3>1, EnterFacts
  <2>5. \A r \in Row : z.data[r] = IF x \in Changing /\ e.number = r
                                   THEN e.new ELSE rec.data[r]
    BY <2>1, <2>2, <2>4 DEF Recs
  <2>6. IdAt(log, rec.at - 1, rec.unique) => IdAt(log, rec.at, z.unique)
    <3>1. IdSet(log, rec.at) = IdSet(log, rec.at - 1)
      BY <2>1, <2>2, IdSetNext DEF e, Changing, Counting
    <3>2. QED
      BY <2>4, <3>1 DEF IdAt
  <2> HIDE DEF z
  <2>7. z.seen = [rec.seen EXCEPT ![rec.handle[Who]] = z.unique]
    BY <2>4
  <2>8. ReplayIn(log, Advance(z))
    BY <1>2, <2>4, <2>5, <2>6, <2>7, ReplayedKeeps DEF e
  <2>9. Read(Advance(z))
    BY <1>2 DEF z, w, e
  <2>10. QED
    BY <2>8, <2>9 DEF Goes
<1>3. QED
  BY <1>1, <1>2

(* ircvinsert: the row is free and the key new.                            *)
LEMMA ircvinsertGoes ==
  ASSUME Replaying, ircvinsert
  PROVE  Goes
<1>1. Reading("IN") /\ "IN" \in Changing
  BY DEF ircvinsert, Changing
<1> DEFINE r == log[rec.at].number
           k == log[rec.at].new
<1>2. ReplayOpen(rec.data[r] = NoKey /\ ~Duplicate(rec.data, k, r),
                 Enter([rec EXCEPT !.data[r] = k], rec.unique), "EDUPL")
  BY DEF ircvinsert
<1>3. rec.trans[Who] # "ignored" =>
        /\ rec.handle[Who] # 0 /\ rec.data[r] = NoKey
        /\ ~Duplicate(rec.data, k, r)
  BY <1>1, GoesOn, ChangeFits
<1>4. IF rec.trans[Who] = "ignored" THEN Read(Advance(rec))
      ELSE Read(Advance(Enter([rec EXCEPT !.data[r] = k], rec.unique)))
  BY <1>2, <1>3 DEF ReplayOpen, Replay, Who
<1>5. QED
  BY <1>1, <1>4, ChangeGoes

(* ircvdelete: the row is there.                                           *)
LEMMA ircvdeleteGoes ==
  ASSUME Replaying, ircvdelete
  PROVE  Goes
<1>1. Reading("DE") /\ "DE" \in Changing
  BY DEF ircvdelete, Changing
<1> DEFINE r == log[rec.at].number
<1>2. ReplayOpen(rec.data[r] # NoKey,
                 Enter([rec EXCEPT !.data[r] = NoKey], rec.unique), "ENOREC")
  BY DEF ircvdelete
<1>3. rec.trans[Who] # "ignored" =>
        /\ rec.handle[Who] # 0 /\ rec.data[r] # NoKey
        /\ log[rec.at].new = NoKey
  BY <1>1, GoesOn, ChangeFits
<1>4. IF rec.trans[Who] = "ignored" THEN Read(Advance(rec))
      ELSE Read(Advance(Enter([rec EXCEPT !.data[r] = log[rec.at].new],
                              rec.unique)))
  BY <1>2, <1>3 DEF ReplayOpen, Replay, Who
<1>5. QED
  BY <1>1, <1>4, ChangeGoes

(* ircvupdate: the row is there and the key new.                           *)
LEMMA ircvupdateGoes ==
  ASSUME Replaying, ircvupdate
  PROVE  Goes
<1>1. Reading("UP") /\ "UP" \in Changing
  BY DEF ircvupdate, Changing
<1> DEFINE r == log[rec.at].number
           k == log[rec.at].new
<1>2. ReplayOpen(rec.data[r] # NoKey /\ ~Duplicate(rec.data, k, r),
                 Enter([rec EXCEPT !.data[r] = k], rec.unique),
                 IF rec.data[r] = NoKey THEN "ENOREC" ELSE "EDUPL")
  BY DEF ircvupdate
<1>3. rec.trans[Who] # "ignored" =>
        /\ rec.handle[Who] # 0 /\ rec.data[r] # NoKey
        /\ ~Duplicate(rec.data, k, r)
  BY <1>1, GoesOn, ChangeFits
<1>4. IF rec.trans[Who] = "ignored" THEN Read(Advance(rec))
      ELSE Read(Advance(Enter([rec EXCEPT !.data[r] = k], rec.unique)))
  BY <1>2, <1>3 DEF ReplayOpen, Replay, Who
<1>5. QED
  BY <1>1, <1>4, ChangeGoes

(* The last record of the process, and what is said of the log before the  *)
(* record that is read.                                                    *)
LEMMA PositionFacts ==
  ASSUME rec.at \in Nat \ {0}
  PROVE  /\ LastOf(rec.at, Who) = Prev
         /\ TogetherAt(log, rec.at - 1) => Together(rec.at)
         /\ BehindAt(log, rec.at - 1, Who) => Behind(rec.at)
<1>1. \A n, p : LastOf(n, p) = Latest(log, n - 1, p)
  BY DEF LastOf, Latest
<1>2. ASSUME TogetherAt(log, rec.at - 1) PROVE Together(rec.at)
  <2>1. PICK b \in 1..(rec.at - 1), q \in Proc :
          /\ log[b].op = "FO" /\ q # log[b].proc
          /\ Latest(log, b - 1, q) # 0 /\ Opened(log, Latest(log, b - 1, q))
    BY <1>2 DEF TogetherAt
  <2>2. b \in 1..rec.at
    BY <2>1
  <2>3. log[LastOf(b, q)].op \in {"FO", "IN", "DE", "UP", "UN", "SU"}
    BY <1>1, <2>1 DEF Opened, Changing, Counting
  <2>4. QED
    BY <1>1, <2>1, <2>2, <2>3 DEF Together
<1>3. BehindAt(log, rec.at - 1, Who) => Behind(rec.at)
  BY <1>1 DEF BehindAt, Behind, Counting, Who
<1>4. QED
  BY <1>1, <1>2, <1>3 DEF Prev

(* ircvuniqueid: the id is the one the handle has seen, or one was rolled  *)
(* back before, or handed out on another handle.                           *)
LEMMA ircvuniqueidGoes ==
  ASSUME Replaying, ircvuniqueid
  PROVE  Goes
<1>1. Reading("UN") /\ "UN" \in Counting /\ "UN" \notin Changing
      /\ "UN" \notin Ending
  BY DEF ircvuniqueid, Counting, Changing, Ending
<1> DEFINE n == log[rec.at].number
<1>2. ReplayOpen(rec.seen[rec.handle[Who]] = n, Enter(rec, rec.unique + 1),
                 "EBADFILE")
  BY DEF ircvuniqueid, Who
<1>3. /\ rec.at \in 1..Len(log) /\ rec.at \in Nat /\ log[rec.at].op = "UN"
      /\ n \in Nat /\ Counted(log, rec.at) /\ rec \in Recs
      /\ LogType(log) /\ LogInv(log) /\ ReplayIn(log, rec) /\ Len(log) \in Nat
  BY <1>1, ReadFacts, RecordFacts
<1>4. CASE rec.trans[Who] = "ignored"
  <2>1. Read(Advance(rec))
    BY <1>2, <1>4 DEF ReplayOpen, Replay, Who
  <2>2. QED
    BY <1>1, <1>4, <2>1, SkipKeeps DEF Goes
<1>5. CASE rec.trans[Who] # "ignored" /\ rec.seen[rec.handle[Who]] = n
  <2>1. rec.handle[Who] # 0 /\ rec.handle[Who] \in 1..Len(rec.seen)
    BY <1>1, <1>5, GoesOn
  <2> DEFINE z == Enter(rec, rec.unique + 1)
  <2>2. Read(Advance(z))
    BY <1>2, <1>5, <2>1 DEF ReplayOpen, Replay, Who
  <2>3. rec.unique \in Nat /\ rec.unique + 1 \in Nat
    BY <1>3, RecsFacts
  <2>4. /\ z \in Recs /\ z.at = rec.at /\ z.trans = rec.trans
        /\ z.handle = rec.handle /\ z.data = rec.data
        /\ z.unique = rec.unique + 1
        /\ z.seen = [rec.seen EXCEPT ![rec.handle[Who]] = rec.unique + 1]
    BY <1>3, <2>1, <2>3, EnterFacts
  <2> HIDE DEF z
  <2>5. z.seen = [rec.seen EXCEPT ![rec.handle[Who]] = z.unique]
    BY <2>4
  <2>6. ASSUME IdAt(log, rec.at - 1, rec.unique)
        PROVE  IdAt(log, rec.at, z.unique)
    <3>1. /\ IdSet(log, rec.at) = IdSet(log, rec.at - 1) \union {n + 1}
          /\ \A u \in IdSet(log, rec.at - 1) : u \in Nat
      BY <1>3, IdSetNext
    <3>2. rec.unique = n
      <4>1. IdAt(log, rec.at - 1, n)
        BY <1>3 DEF Counted
      <4>2. rec.unique <= n /\ n <= rec.unique
        BY <2>6, <4>1 DEF IdAt
      <4>3. QED
        BY <1>3, <2>3, <4>2
    <3>3. z.unique = n + 1 /\ \A u \in IdSet(log, rec.at - 1) : u <= n
      BY <2>4, <2>6, <3>2 DEF IdAt
    <3>4. QED
      BY <1>3, <3>1, <3>3 DEF IdAt
  <2>7. ReplayIn(log, Advance(z))
    BY <1>1, <1>5, <2>4, <2>6, <2>5, ReplayedKeeps
  <2>8. QED
    BY <2>2, <2>7 DEF Goes
<1>6. CASE rec.trans[Who] # "ignored" /\ rec.seen[rec.handle[Who]] # n
  <2>1. rec.handle[Who] # 0
    BY <1>1, <1>6, GoesOn
  <2>2. Stop("EBADFILE")
    BY <1>2, <1>6, <2>1 DEF ReplayOpen, Replay, Who
  <2>3. ASSUME rec.seen[rec.handle[Who]] = rec.unique
        PROVE  Explained("EBADFILE")
    <3>1. IdAt(log, rec.at - 1, n)
      BY <1>3 DEF Counted
    <3>2. ~CountsLast(log, rec.at - 1)
      <4>1. SUFFICES ASSUME CountsLast(log, rec.at - 1) PROVE FALSE
        OBVIOUS
      <4>2. IdAt(log, rec.at - 1, rec.unique)
        BY <1>3, <4>1 DEF ReplayIn
      <4>3. rec.unique \in Nat /\ rec.unique <= n /\ n <= rec.unique
        BY <1>3, <3>1, <4>2 DEF IdAt, Recs
      <4>4. QED
        BY <1>3, <1>6, <2>3, <4>3
    <3>3. PICK i \in 1..(rec.at - 1) : log[i].op \in Counting
                                       /\ Cancelled(log, i)
      BY <3>2 DEF CountsLast
    <3>4. i \in 1..Len(log) /\ i \in 1..rec.at /\ Opened(log, i)
      BY <1>3, <3>3 DEF Opened
    <3>5. RolledBack(i)
      BY <1>3, <3>3, <3>4, CancelledIsRolledBack
    <3>6. \E j \in 1..rec.at : log[j].op \in Counting /\ RolledBack(j)
      BY <3>3, <3>4, <3>5
    <3>7. QED
      BY <1>3, <3>6 DEF Explained
  <2>4. ASSUME rec.seen[rec.handle[Who]] # rec.unique
        PROVE  Explained("EBADFILE")
    <3>1. Who \in Proc /\ HandlesIn(log, rec) /\ rec.at \in Nat \ {0}
      BY <1>1, <1>3, ReadFacts DEF ReplayIn
    <3>2. TogetherAt(log, rec.at - 1) /\ BehindAt(log, rec.at - 1, Who)
      BY <2>1, <2>4, <3>1 DEF HandlesIn
    <3>3. Together(rec.at) /\ Behind(rec.at)
      BY <3>1, <3>2, PositionFacts
    <3>4. QED
      BY <1>3, <3>3 DEF Explained
  <2>5. QED
    BY <2>2, <2>3, <2>4 DEF Goes
<1>7. QED
  BY <1>4, <1>5, <1>6

(* ircvsetunique never stops.                                              *)
LEMMA ircvsetuniqueGoes ==
  ASSUME Replaying, ircvsetunique
  PROVE  Goes
<1>1. Reading("SU") /\ "SU" \in Counting /\ "SU" \notin Changing
      /\ "SU" \notin Ending
  BY DEF ircvsetunique, Counting, Changing, Ending
<1> DEFINE n == log[rec.at].number
<1>2. ReplayOpen(TRUE, Enter(rec, Max({rec.unique, n})), "")
  BY DEF ircvsetunique
<1>3. /\ rec.at \in 1..Len(log) /\ rec.at \in Nat /\ log[rec.at].op = "SU"
      /\ n \in Nat /\ rec \in Recs /\ LogType(log) /\ rec.unique \in Nat
  BY <1>1, ReadFacts DEF Recs
<1>4. CASE rec.trans[Who] = "ignored"
  <2>1. Read(Advance(rec))
    BY <1>2, <1>4 DEF ReplayOpen, Replay, Who
  <2>2. QED
    BY <1>1, <1>4, <2>1, SkipKeeps DEF Goes
<1>5. CASE rec.trans[Who] # "ignored"
  <2>1. rec.handle[Who] # 0 /\ rec.handle[Who] \in 1..Len(rec.seen)
    BY <1>1, <1>5, GoesOn
  <2>2. PICK w : w = Max({rec.unique, n})
    OBVIOUS
  <2>3. w = (IF rec.unique <= n THEN n ELSE rec.unique) /\ w \in Nat
    BY <1>3, <2>2, MaxOfTwo
  <2> DEFINE z == Enter(rec, w)
  <2>4. Read(Advance(z))
    BY <1>2, <1>5, <2>1, <2>2 DEF ReplayOpen, Replay, Who
  <2>5. /\ z \in Recs /\ z.at = rec.at /\ z.trans = rec.trans
        /\ z.handle = rec.handle /\ z.data = rec.data /\ z.unique = w
        /\ z.seen = [rec.seen EXCEPT ![rec.handle[Who]] = w]
    BY <1>3, <2>1, <2>3, EnterFacts
  <2> HIDE DEF z
  <2>6. z.seen = [rec.seen EXCEPT ![rec.handle[Who]] = z.unique]
    BY <2>5
  <2>7. ASSUME IdAt(log, rec.at - 1, rec.unique)
        PROVE  IdAt(log, rec.at, z.unique)
    <3>1. /\ IdSet(log, rec.at) = IdSet(log, rec.at - 1) \union {n}
          /\ \A u \in IdSet(log, rec.at - 1) : u \in Nat
      BY <1>3, IdSetNext
    <3>2. /\ rec.unique \in IdSet(log, rec.at - 1)
          /\ \A u \in IdSet(log, rec.at - 1) : u <= rec.unique
      BY <2>7 DEF IdAt
    <3>3. w \in IdSet(log, rec.at) /\ \A u \in IdSet(log, rec.at) : u <= w
      BY <1>3, <2>3, <3>1, <3>2
    <3>4. QED
      BY <2>5, <3>3 DEF IdAt
  <2>8. ReplayIn(log, Advance(z))
    BY <1>1, <1>5, <2>5, <2>7, <2>6, ReplayedKeeps
  <2>9. QED
    BY <2>4, <2>8 DEF Goes
<1>6. QED
  BY <1>4, <1>5

(* Records of transactions and of handles.                                 *)
LEMMA MarkKeeps ==
  ASSUME Replaying, NEW x \in {"BW", "CW", "RW", "FO", "FC"}, Reading(x),
         ~Outer(log, rec.at), NEW z \in Recs, z.at = rec.at,
         z.data = rec.data, z.unique = rec.unique,
         \A q \in Proc \ {Who} :
           /\ z.trans[q] = rec.trans[q]
           /\ z.handle[q] # 0 <=> rec.handle[q] # 0,
         z.trans[Who] = TransAt(log, rec.at),
         z.handle[Who] # 0 <=> OpenAt(log, rec.at),
         HandlesIn(log, Advance(z))
  PROVE  ReplayIn(log, Advance(z))
<1>1. /\ rec.at \in 1..Len(log) /\ rec.at \in Nat /\ Who \in Proc
      /\ log[rec.at].op = x /\ LogType(log)
      /\ LogInv(log) /\ ReplayIn(log, rec)
  BY ReadFacts
<1> DEFINE y == Advance(z)
<1>2. /\ y \in Recs /\ y.at = rec.at + 1 /\ y.trans = z.trans
      /\ y.handle = z.handle /\ y.data = rec.data /\ y.unique = rec.unique
      /\ HandlesIn(log, y)
  BY AdvanceFacts
<1> HIDE DEF y
<1>3. rec.at <= Len(log)
  BY <1>1
<1>4. log[rec.at].op \notin Changing /\ log[rec.at].op \notin Counting
  BY <1>1 DEF Changing, Counting
<1>5. IdAt(log, rec.at - 1, rec.unique) => IdAt(log, rec.at, y.unique)
  <2>1. IdSet(log, rec.at) = IdSet(log, rec.at - 1)
    BY <1>1, <1>4, IdSetNext
  <2>2. QED
    BY <1>2, <2>1 DEF IdAt
<1>6. \A r \in Row :
        y.data[r] = IF /\ log[rec.at].op \in Changing
                       /\ log[rec.at].number = r /\ ~Cancelled(log, rec.at)
                    THEN log[rec.at].new ELSE rec.data[r]
  BY <1>2, <1>4
<1>7. \A q \in Proc \ {log[rec.at].proc} :
        y.trans[q] = rec.trans[q] /\ (y.handle[q] # 0 <=> rec.handle[q] # 0)
  BY <1>2 DEF Who
<1>8. /\ y.trans[log[rec.at].proc] = TransAt(log, rec.at)
      /\ y.handle[log[rec.at].proc] # 0 <=> OpenAt(log, rec.at)
  BY <1>2 DEF Who
<1>9. ReplayIn(log, y)
  BY <1>1, <1>2, <1>3, <1>5, <1>6, <1>7, <1>8, ReplayNext
<1>10. QED
  BY <1>9 DEF y

(* The handles, when the record is not of a call and leaves the process    *)
(* none.                                                                   *)
LEMMA MarkRests ==
  ASSUME Replaying, NEW x, Reading(x), NEW z \in Recs, z.at = rec.at,
         z.seen = rec.seen, z.unique = rec.unique, z.handle[Who] = 0,
         \A q \in Proc \ {Who} : z.handle[q] = rec.handle[q]
  PROVE  HandlesIn(log, Advance(z))
<1>1. rec \in Recs /\ HandlesIn(log, rec) /\ rec.at # 0
  BY ReadFacts DEF ReplayIn
<1> DEFINE y == Advance(z)
<1>2. /\ y \in Recs /\ y.at = rec.at + 1 /\ y.handle = z.handle
      /\ y.seen = rec.seen /\ y.unique = rec.unique
  BY AdvanceFacts
<1> HIDE DEF y
<1>3. HandlesIn(log, y)
  BY <1>1, <1>2, HandlesRest DEF Who
<1>4. QED
  BY <1>3 DEF y

(* ircvbegin: the process is in no transaction, and looks ahead for its end.*)
LEMMA ircvbeginGoes ==
  ASSUME Replaying, ircvbegin
  PROVE  Goes
<1>1. Reading("BW")
  BY DEF ircvbegin
<1>2. /\ rec.at \in 1..Len(log) /\ rec.at \in Nat /\ Who \in Proc
      /\ log[rec.at].op = "BW" /\ Follows(log, rec.at)
      /\ rec.handle[Who] # 0 <=> OpenAt(log, Prev)
      /\ rec \in Recs /\ LogType(log)
  BY <1>1, ReadFacts
<1> DEFINE v == IF ircvchecktrans(rec.at) THEN "ignored" ELSE "replayed"
           z == [rec EXCEPT !.trans[Who] = v]
<1>3. Read(Advance(z))
  BY DEF ircvbegin, Who
<1>4. v = IF Cancelled(log, rec.at) THEN "ignored" ELSE "replayed"
  BY <1>2, CheckIsCancelled
<1> HIDE DEF v
<1>5. v \in {"none", "ignored", "replayed"}
  BY <1>4
<1>6. /\ z \in Recs /\ z.at = rec.at /\ z.handle = rec.handle
      /\ z.data = rec.data /\ z.unique = rec.unique /\ z.seen = rec.seen
      /\ z.trans = [rec.trans EXCEPT ![Who] = v]
  BY <1>2, <1>5 DEF Recs
<1>7. z.trans[Who] = v /\ \A q \in Proc \ {Who} : z.trans[q] = rec.trans[q]
  BY <1>2, <1>6 DEF Recs
<1> HIDE DEF z
<1>8. /\ ~Outer(log, rec.at) /\ ~Out(log, rec.at) /\ ~Opened(log, rec.at)
  BY <1>2 DEF Outer, Out, Opened, Changing, Counting
<1>9. z.trans[Who] = TransAt(log, rec.at)
  BY <1>4, <1>7, <1>8 DEF TransAt
<1>10. z.handle[Who] # 0 <=> OpenAt(log, rec.at)
  <2>1. Out(log, Prev)
    BY <1>2 DEF Follows, Prev, Who
  <2>2. ~OpenAt(log, Prev)
    BY <2>1 DEF Out, Outer, OpenAt, Opened, Changing, Counting
  <2>3. QED
    BY <1>2, <1>6, <1>8, <2>2 DEF OpenAt
<1>11. HandlesIn(log, Advance(z))
  <2>1. z.handle[Who] = 0
    BY <1>8, <1>10 DEF OpenAt
  <2>2. QED
    BY <1>1, <1>6, <2>1, MarkRests
<1>12. ReplayIn(log, Advance(z))
  BY <1>1, <1>6, <1>7, <1>8, <1>9, <1>10, <1>11, MarkKeeps
<1>13. QED
  BY <1>3, <1>12 DEF Goes

(* The end of a transaction, commit or rollback.                           *)
LEMMA ForgetGoes ==
  ASSUME Replaying, NEW x \in {"CW", "RW"}, Reading(x), Forget
  PROVE  Goes
<1>1. /\ rec.at \in 1..Len(log) /\ rec.at \in Nat /\ Who \in Proc
      /\ log[rec.at].op = x /\ Follows(log, rec.at)
      /\ rec.trans[Who] = TransAt(log, Prev)
      /\ rec.handle[Who] # 0 <=> OpenAt(log, Prev)
      /\ rec \in Recs /\ LogType(log)
  BY ReadFacts
<1>2. /\ Prev # 0
      /\ x = "CW" => Shut(log, Prev)
      /\ x = "RW" => Opened(log, Prev) \/ Shut(log, Prev)
  BY <1>1 DEF Follows, Prev, Who
<1>3. ~Out(log, Prev)
  BY <1>2 DEF Out, Outer, Shut, Opened, Changing, Counting
<1>4. rec.trans[Who] # "none"
  BY <1>1, <1>3 DEF TransAt
<1> DEFINE z == [rec EXCEPT !.trans[Who] = "none"]
<1>5. Read(Advance(z))
  BY <1>4 DEF Forget, Who
<1>6. /\ z \in Recs /\ z.at = rec.at /\ z.handle = rec.handle
      /\ z.data = rec.data /\ z.unique = rec.unique /\ z.seen = rec.seen
      /\ z.trans = [rec.trans EXCEPT ![Who] = "none"]
  BY <1>1 DEF Recs
<1>7. z.trans[Who] = "none"
      /\ \A q \in Proc \ {Who} : z.trans[q] = rec.trans[q]
  BY <1>1, <1>6 DEF Recs
<1> HIDE DEF z
<1>8. ~Outer(log, rec.at) /\ Out(log, rec.at) /\ ~Opened(log, rec.at)
  BY <1>1 DEF Outer, Out, Opened, Changing, Counting
<1>9. z.trans[Who] = TransAt(log, rec.at)
  BY <1>7, <1>8 DEF TransAt
<1>10. ~OpenAt(log, Prev)
  <2>1. CASE x = "CW"
    BY <1>2, <2>1 DEF OpenAt, Opened, Shut, Changing, Counting
  <2>2. CASE x = "RW"
    <3>1. Cancelled(log, Prev)
      BY <1>1, <1>2, <2>2, CancelledNext DEF Prev, Who
    <3>2. QED
      BY <3>1 DEF OpenAt
  <2>3. QED
    BY <2>1, <2>2
<1>11. z.handle[Who] # 0 <=> OpenAt(log, rec.at)
  BY <1>1, <1>6, <1>8, <1>10 DEF OpenAt
<1>12. HandlesIn(log, Advance(z))
  <2>1. z.handle[Who] = 0
    BY <1>8, <1>11 DEF OpenAt
  <2>2. QED
    BY <1>6, <2>1, MarkRests
<1>13. ReplayIn(log, Advance(z))
  BY <1>6, <1>7, <1>8, <1>9, <1>11, <1>12, MarkKeeps
<1>14. QED
  BY <1>5, <1>13 DEF Goes

(* Which handle an open gets.                                              *)
LEMMA HandleFacts ==
  ASSUME Replaying, Reading("FO"), rec.handle[Who] = 0
  PROVE  /\ ReplayHandle \in Nat \ {0}
         /\ Closed # {} => ReplayHandle \in 1..Len(rec.seen)
         /\ Closed = {} => ReplayHandle = Len(rec.seen) + 1
         /\ Closed = {} /\ Len(rec.seen) # 0 =>
              \E q \in Proc \ {Who} :
                LET j == Latest(log, rec.at - 1, q) IN j # 0 /\ Opened(log, j)
<1>1. ReplayIn(log, rec) /\ rec \in Recs
  BY ReadFacts
<1>2. Len(rec.seen) \in Nat
  BY <1>1, RecsFacts
<1>3. Closed \in SUBSET (1..Len(rec.seen)) /\ Closed \in SUBSET Nat
  BY <1>2 DEF Closed
<1>4. ASSUME Closed # {} PROVE ReplayHandle \in 1..Len(rec.seen)
  BY <1>3, <1>4, MinNumber DEF ReplayHandle
<1>5. ASSUME Closed = {} PROVE ReplayHandle = Len(rec.seen) + 1
  BY <1>5 DEF ReplayHandle
<1>6. ASSUME Closed = {}, Len(rec.seen) # 0
      PROVE  \E q \in Proc \ {Who} :
               LET j == Latest(log, rec.at - 1, q) IN j # 0 /\ Opened(log, j)
  <2>1. 1 \in 1..Len(rec.seen)
    BY <1>2, <1>6
  <2>2. PICK q \in Proc : rec.handle[q] = 1
    BY <1>6, <2>1 DEF Closed
  <2>3. q # Who /\ Progress(log, rec, q)
    BY <1>1, <2>2 DEF ReplayIn
  <2>4. OpenAt(log, Latest(log, rec.at - 1, q))
    BY <2>2, <2>3 DEF Progress
  <2>5. QED
    BY <2>3, <2>4 DEF OpenAt
<1>7. QED
  BY <1>2, <1>4, <1>5, <1>6

(* ircvfileopen: the handle is not open yet.                               *)
LEMMA ircvfileopenGoes ==
  ASSUME Replaying, ircvfileopen
  PROVE  Goes
<1>1. Reading("FO") /\ "FO" \notin Ending
  BY DEF ircvfileopen, Ending
<1>2. /\ rec.at \in 1..Len(log) /\ rec.at \in Nat /\ Who \in Proc
      /\ log[rec.at].op = "FO" /\ Follows(log, rec.at)
      /\ rec.trans[Who] = TransAt(log, Prev)
      /\ rec.handle[Who] # 0 <=> OpenAt(log, Prev)
      /\ rec \in Recs /\ LogType(log)
  BY <1>1, ReadFacts
<1>3. Prev # 0 /\ log[Prev].op = "BW"
  BY <1>2 DEF Follows, Prev, Who
<1>4. rec.handle[Who] = 0 /\ ~Out(log, Prev)
  BY <1>2, <1>3 DEF OpenAt, Opened, Changing, Counting, Out, Outer
<1>5. CASE rec.trans[Who] = "ignored"
  <2>1. Read(Advance(rec))
    BY <1>5 DEF ircvfileopen, Replay, Who
  <2>2. QED
    BY <1>1, <1>5, <2>1, SkipKeeps DEF Goes
<1>6. CASE rec.trans[Who] # "ignored"
  <2> DEFINE h == ReplayHandle
             s == IF Closed = {} THEN Append(rec.seen, rec.unique)
                  ELSE rec.seen
             z == [rec EXCEPT !.handle[Who] = h, !.seen = s]
  <2>1. Read(Advance(z))
    BY <1>4, <1>6 DEF ircvfileopen, Replay, Who
  <2>2. h \in Nat \ {0}
    BY <1>1, <1>4, HandleFacts
  <2>3. s \in Seq(Nat)
    <3>1. rec.seen \in Seq(Nat) /\ rec.unique \in Nat
      BY <1>2 DEF Recs
    <3>2. QED
      BY <3>1
  <2>4. \/ h \in 1..Len(rec.seen) /\ s = rec.seen
        \/ /\ h = Len(rec.seen) + 1 /\ s = Append(rec.seen, rec.unique)
           /\ Len(rec.seen) # 0 =>
                \E q \in Proc \ {Who} :
                  LET j == Latest(log, rec.at - 1, q)
                  IN j # 0 /\ Opened(log, j)
    BY <1>1, <1>4, HandleFacts
  <2> HIDE DEF h, s
  <2>5. /\ z \in Recs /\ z.at = rec.at /\ z.trans = rec.trans
        /\ z.data = rec.data /\ z.unique = rec.unique
        /\ z.handle = [rec.handle EXCEPT ![Who] = h] /\ z.seen = s
    BY <1>2, <2>2, <2>3 DEF Recs
  <2>6. /\ z.handle[Who] = h
        /\ \A q \in Proc \ {Who} : z.handle[q] = rec.handle[q]
    BY <1>2, <2>5 DEF Recs
  <2> HIDE DEF z
  <2>7. ~Cancelled(log, Prev) /\ rec.trans[Who] = "replayed"
    BY <1>2, <1>4, <1>6 DEF TransAt
  <2>8. ~Cancelled(log, rec.at)
    BY <1>1, <1>2, <1>3, <2>7, CancelledNext DEF Prev, Who
  <2>9. ~Outer(log, rec.at) /\ ~Out(log, rec.at) /\ Opened(log, rec.at)
        /\ rec.at # 0
    BY <1>2 DEF Outer, Out, Opened
  <2>10. z.trans[Who] = TransAt(log, rec.at)
    BY <2>5, <2>7, <2>8, <2>9 DEF TransAt
  <2>11. z.handle[Who] # 0 <=> OpenAt(log, rec.at)
    BY <2>8, <2>9, <2>2, <2>6 DEF OpenAt
  <2>12. HandlesIn(log, Advance(z))
    <3> DEFINE y == Advance(z)
    <3>1. /\ y \in Recs /\ y.at = rec.at + 1 /\ y.handle = z.handle
          /\ y.seen = s /\ y.unique = rec.unique
      BY <2>5, AdvanceFacts
    <3> HIDE DEF y
    <3>2. HandlesIn(log, rec) /\ rec.at # 0
      BY <1>1, <1>2, ReadFacts DEF ReplayIn
    <3>3. h \in Nat /\ y.handle = [rec.handle EXCEPT ![Who] = h]
      BY <2>5, <2>2, <3>1
    <3>4. HandlesIn(log, y)
      BY <1>2, <2>4, <3>1, <3>2, <3>3, HandlesOpen DEF Who
    <3>5. QED
      BY <3>4 DEF y
  <2>13. ReplayIn(log, Advance(z))
    BY <1>1, <2>5, <2>9, <2>10, <2>11, <2>6, <2>12, MarkKeeps
  <2>14. QED
    BY <2>1, <2>13 DEF Goes
<1>7. QED
  BY <1>5, <1>6

(* ircvfileclose: the handle is open, or the record is behind a rollback and*)
(* the recovery stops.                                                     *)
LEMMA ircvfilecloseGoes ==
  ASSUME Replaying, ircvfileclose
  PROVE  Goes
<1>1. Reading("FC") /\ "FC" \notin Ending
  BY DEF ircvfileclose, Ending
<1>2. /\ rec.at \in 1..Len(log) /\ rec.at \in Nat /\ Who \in Proc
      /\ log[rec.at].op = "FC" /\ Follows(log, rec.at)
      /\ rec.trans[Who] = TransAt(log, Prev)
      /\ rec.handle[Who] # 0 <=> OpenAt(log, Prev)
      /\ rec \in Recs /\ LogType(log)
  BY <1>1, ReadFacts
<1>3. Prev # 0 /\ (Opened(log, Prev) \/ log[Prev].op = "RW")
  BY <1>2 DEF Follows, Prev, Who
<1>4. CASE rec.trans[Who] = "ignored"
  <2>1. Read(Advance(rec))
    BY <1>4 DEF ircvfileclose, ReplayOpen, Replay, Who
  <2>2. QED
    BY <1>1, <1>4, <2>1, SkipKeeps DEF Goes
<1>5. CASE log[Prev].op = "RW"
  <2>1. rec.trans[Who] = "none"
    BY <1>2, <1>5 DEF TransAt, Out
  <2>2. rec.handle[Who] = 0
    BY <1>2, <1>5 DEF OpenAt, Opened, Changing, Counting
  <2>3. Stop("ENOTOPEN")
    BY <2>1, <2>2 DEF ircvfileclose, ReplayOpen, Replay, Who
  <2>4. Explained("ENOTOPEN")
    <3>1. LastOf(rec.at, Who) = Prev
      BY <1>2, PositionFacts
    <3>2. QED
      BY <1>2, <1>5, <3>1 DEF Explained
  <2>5. QED
    BY <2>3, <2>4 DEF Goes
<1>6. CASE rec.trans[Who] # "ignored" /\ Opened(log, Prev)
  <2>1. log[Prev].op \notin {"RW", "CW", "BW", "FC"}
    BY <1>6 DEF Opened, Changing, Counting
  <2>2. ~Out(log, Prev)
    BY <1>3, <2>1 DEF Out, Outer
  <2>3. ~Cancelled(log, Prev) /\ rec.trans[Who] = "replayed"
    BY <1>2, <1>6, <2>2 DEF TransAt
  <2>4. rec.handle[Who] # 0
    BY <1>2, <1>3, <1>6, <2>3 DEF OpenAt
  <2> DEFINE z == [rec EXCEPT !.handle[Who] = 0]
  <2>5. Read(Advance(z))
    BY <1>6, <2>4 DEF ircvfileclose, ReplayOpen, Replay, Who
  <2>6. /\ z \in Recs /\ z.at = rec.at /\ z.trans = rec.trans
        /\ z.data = rec.data /\ z.unique = rec.unique /\ z.seen = rec.seen
        /\ z.handle = [rec.handle EXCEPT ![Who] = 0]
    BY <1>2 DEF Recs
  <2>7. /\ z.handle[Who] = 0
        /\ \A q \in Proc \ {Who} : z.handle[q] = rec.handle[q]
    BY <1>2, <2>6 DEF Recs
  <2> HIDE DEF z
  <2>8. ~Cancelled(log, rec.at)
    BY <1>1, <1>2, <1>3, <2>3, CancelledNext DEF Prev, Who
  <2>9. ~Outer(log, rec.at)
    BY <2>1 DEF Outer, Prev, Who
  <2>10. ~Out(log, rec.at) /\ ~Opened(log, rec.at)
    BY <1>2, <2>9 DEF Out, Opened, Changing, Counting
  <2>11. z.trans[Who] = TransAt(log, rec.at)
    BY <2>3, <2>6, <2>8, <2>10 DEF TransAt
  <2>12. z.handle[Who] # 0 <=> OpenAt(log, rec.at)
    BY <2>10, <2>7 DEF OpenAt
  <2>13. HandlesIn(log, Advance(z))
    BY <1>1, <2>6, <2>7, MarkRests
  <2>14. ReplayIn(log, Advance(z))
    BY <1>1, <2>6, <2>9, <2>11, <2>12, <2>7, <2>13, MarkKeeps
  <2>15. QED
    BY <2>5, <2>14 DEF Goes
<1>7. QED
  BY <1>3, <1>4, <1>5, <1>6

(* irollbackall changes no row, so the rows are those of the whole log.    *)
LEMMA irollbackallGoes ==
  ASSUME Replaying, irollbackall
  PROVE  Goes
<1>1. PICK error \in {"none", "torn"} : Stop(error)
  BY DEF irollbackall
<1>2. /\ ReplayIn(log, rec) /\ rec \in Recs /\ Len(log) \in Nat
      /\ RowsIn(log, ivbintrans, data)
  BY RecordFacts DEF Replaying, Sound, LogInv, ReplayIn, RunInv, RunIn
<1>3. rec.at - 1 = Len(log)
  BY <1>2 DEF irollbackall, ReplayIn
<1>4. ASSUME NEW r \in Row PROVE rec.data[r] = Expected[r]
  <2>1. rec.data[r] = RowAt(log, Len(log), r)
    BY <1>2, <1>3 DEF ReplayIn
  <2>2. CASE \E p \in Proc : ivbintrans[p] = "rollback" /\ r \in Touched(p)
    <3> DEFINE c == CHOOSE p \in Proc :
                      ivbintrans[p] = "rollback" /\ r \in Touched(p)
    <3>1. c \in Proc /\ ivbintrans[c] = "rollback" /\ r \in Touched(c)
      BY <2>2
    <3>2. Expected[r] = Before(c, r)
      BY <2>2 DEF Expected
    <3> HIDE DEF c
    <3>3. r \in RowsOf(log, c) /\ Before(c, r) = OldOf(log, c, r)
      BY <3>1, TouchedIs
    <3>4. OldOf(log, c, r) = RowAt(log, Len(log), r)
      BY <1>2, <3>1, <3>3 DEF RowsIn
    <3>5. QED
      BY <2>1, <3>2, <3>3, <3>4
  <2>3. CASE ~ \E p \in Proc : ivbintrans[p] = "rollback" /\ r \in Touched(p)
    <3>1. Expected[r] = data[r]
      BY <2>3 DEF Expected
    <3>2. \A p \in Proc : ivbintrans[p] = "rollback" => r \notin RowsOf(log, p)
      BY <2>3, TouchedIs
    <3>3. data[r] = RowAt(log, Len(log), r)
      BY <1>2, <3>2 DEF RowsIn
    <3>4. QED
      BY <2>1, <3>1, <3>3
  <2>4. QED
    BY <2>2, <2>3
<1>5. rec.data = Expected
  <2>1. rec.data = [r \in Row |-> rec.data[r]]
    BY <1>2 DEF Recs
  <2>2. Expected = [r \in Row |-> Expected[r]]
    BY DEF Expected
  <2>3. QED
    BY <1>4, <2>1, <2>2
<1>6. QED
  BY <1>1, <1>5 DEF Explained, Goes

(* isrecover: each record goes to its own operator.                        *)
LEMMA isrecoverGoes ==
  ASSUME Replaying, isrecover
  PROVE  Goes
<1>1. CASE ircvcommit
  BY <1>1, ForgetGoes DEF ircvcommit
<1>2. CASE ircvrollback
  BY <1>2, ForgetGoes DEF ircvrollback
<1>3. QED
  BY <1>1, <1>2, ircvbeginGoes, ircvfileopenGoes, ircvfilecloseGoes,
     ircvinsertGoes, ircvdeleteGoes, ircvupdateGoes, ircvuniqueidGoes,
     ircvsetuniqueGoes, irollbackallGoes DEF isrecover

-----------------------------------------------------------------------------
(* The machine goes down: the recovery begins with an empty table.         *)
LEMMA FreshReplays ==
  ASSUME NEW l, LogType(l)
  PROVE  ReplayIn(l, Fresh)
<1>1. /\ Fresh.at = 1 /\ Fresh.at - 1 = 0
      /\ Fresh.handle = [p \in Proc |-> 0] /\ Fresh.seen = <<>>
      /\ Fresh.trans = [p \in Proc |-> "none"]
      /\ Fresh.data = [r \in Row |-> NoKey]
      /\ Fresh.unique = 1 /\ Fresh.error = "none"
  BY DEF Fresh
<1>2. Fresh \in Recs
  BY DEF Fresh, Recs, Value
<1>3. Fresh.at \in 1..(Len(l) + 1)
  BY <1>1, RecordFacts
<1>4. ASSUME NEW p \in Proc PROVE Progress(l, Fresh, p)
  <2>1. Latest(l, 0, p) = 0
    BY LatestFacts
  <2>2. TransAt(l, 0) = "none" /\ ~OpenAt(l, 0)
    BY DEF TransAt, Out, OpenAt
  <2>3. QED
    BY <1>1, <2>1, <2>2 DEF Progress
<1>5. ASSUME NEW r \in Row PROVE Fresh.data[r] = RowAt(l, 0, r)
  <2>1. Lasting(l, 0, r) = {}
    BY DEF Lasting
  <2>2. QED
    BY <1>1, <2>1, RowAtFacts
<1>6. IdAt(l, 0, 1)
  BY DEF IdAt, IdSet
<1>7. HandlesIn(l, Fresh)
  <2>1. Len(Fresh.seen) = 0
    BY <1>1
  <2>2. \A p \in Proc : Fresh.handle[p] = 0
    BY <1>1
  <2>3. QED
    BY <2>1, <2>2 DEF HandlesIn
<1>8. QED
  BY <1>1, <1>2, <1>3, <1>4, <1>5, <1>6, <1>7 DEF ReplayIn

(* An empty table and an empty log.                                        *)
LEMMA InitInv ==
  Init => Inv
<1> SUFFICES ASSUME Init PROVE Inv
  OBVIOUS
<1>1. log = <<>> /\ Len(log) = 0 /\ log \in Seq(Rec)
  BY DEF Init
<1>2. TypeInv
  <2>1. 1 \in 1..MaxId
    BY RecoverAssumption
  <2>2. QED
    BY <2>1 DEF Init, TypeInv, Value
<1>3. LogInv(log)
  BY <1>1 DEF LogInv, LogType
<1>4. RunInv
  <2>1. ASSUME NEW p \in Proc
        PROVE  /\ WhereIs(log, ivbintrans[p], p \in itransyet, p)
               /\ ivbintrans[p] \in Active => AloneIn(log, p)
    <3>1. ivbintrans[p] = "none" /\ p \notin itransyet
      BY DEF Init
    <3>2. Latest(log, Len(log), p) = 0
      BY <1>1, LatestFacts
    <3>3. QED
      BY <3>1, <3>2 DEF WhereIs, Out, Active
  <2>2. RowsIn(log, ivbintrans, data)
    <3>1. \A p \in Proc : ivbintrans[p] # "rollback"
      BY DEF Init
    <3>2. ASSUME NEW r \in Row PROVE data[r] = RowAt(log, Len(log), r)
      <4>1. Lasting(log, 0, r) = {} /\ data[r] = NoKey
        BY DEF Lasting, Init
      <4>2. QED
        BY <1>1, <4>1, RowAtFacts
    <3>3. QED
      BY <3>1, <3>2 DEF RowsIn
  <2>3. IdAt(log, Len(log), unique)
    BY <1>1 DEF IdAt, IdSet, Init
  <2>4. QED
    BY <2>1, <2>2, <2>3 DEF RunInv, RunIn
<1>5. phase = "run" /\ rec = Fresh
  BY DEF Init, Fresh
<1>6. RecoveryExact
  BY <1>5 DEF RecoveryExact
<1>7. QED
  BY <1>2, <1>3, <1>4, <1>5, <1>6 DEF Inv

(* Calls, the crash, and the steps of the recovery.                        *)
LEMMA NextInv ==
  Inv /\ [Next]_vars => Inv'
<1> SUFFICES ASSUME Inv, [Next]_vars PROVE Inv'
  OBVIOUS
<1>1. Sound
  BY DEF Inv, Sound
<1>2. CASE \E p \in Proc : Call(p)
  <2>1. Sound' /\ phase' = "run" /\ rec' = rec /\ phase = "run"
    BY <1>1, <1>2, CallKeeps
  <2>2. rec' = Fresh' /\ RecoveryExact'
    BY <2>1 DEF Inv, Fresh, RecoveryExact, Row
  <2>3. QED
    BY <2>1, <2>2 DEF Inv, Sound
<1>3. CASE Crash
  <2>1. /\ phase = "run" /\ phase' = "replay" /\ rec' = rec
        /\ data' = data /\ unique' = unique /\ log' = log
        /\ ivbintrans' = ivbintrans /\ file' = file /\ itransyet' = itransyet
    BY <1>3 DEF Crash, run
  <2>2. ReplayIn(log, rec)
    BY <1>1, <2>1, FreshReplays DEF Inv, Sound, LogInv
  <2>3. Sound'
    BY <1>1, <2>1 DEF Sound, TypeInv, RunInv
  <2>4. RecoveryExact'
    BY <2>1 DEF RecoveryExact
  <2>5. ReplayIn(log, rec)'
    BY <2>1, <2>2
  <2>6. QED
    BY <2>1, <2>3, <2>4, <2>5 DEF Inv, Sound
<1>4. CASE isrecover
  <2>1. phase = "replay"
    BY <1>4 DEF isrecover, ircvbegin, ircvcommit, ircvrollback, ircvfileopen,
       ircvfileclose, ircvinsert, ircvdelete, ircvupdate, ircvuniqueid,
       ircvsetunique, irollbackall, Reading
  <2>2. Replaying
    BY <1>1, <2>1 DEF Inv, Replaying
  <2>3. Goes
    BY <1>4, <2>2, isrecoverGoes
  <2>4. /\ data' = data /\ unique' = unique /\ log' = log
        /\ ivbintrans' = ivbintrans /\ file' = file /\ itransyet' = itransyet
    BY <2>3 DEF Goes, Read, Stop, run
  <2>5. CASE \E y : Read(y) /\ ReplayIn(log, y)
    <3>1. phase' = "replay" /\ ReplayIn(log, rec')
      BY <2>1, <2>5 DEF Read
    <3>2. Sound' /\ RecoveryExact'
      BY <1>1, <2>4, <3>1 DEF Sound, TypeInv, RunInv, RecoveryExact
    <3>3. QED
      BY <2>4, <3>1, <3>2 DEF Inv, Sound
  <2>6. CASE \E error \in {"none", "torn", "ENOTOPEN", "EBADFILE"} :
               Stop(error) /\ Explained(error)
    <3>1. PICK error \in {"none", "torn", "ENOTOPEN", "EBADFILE"} :
            Stop(error) /\ Explained(error)
      BY <2>6
    <3>2. /\ phase' = "done" /\ rec' = [rec EXCEPT !.error = error]
          /\ rec \in Recs /\ ReplayIn(log, rec)
      BY <2>2, <3>1 DEF Stop, Replaying, ReplayIn
    <3>3. /\ rec' \in Recs /\ rec'.at = rec.at /\ rec'.trans = rec.trans
          /\ rec'.handle = rec.handle /\ rec'.seen = rec.seen
          /\ rec'.data = rec.data
          /\ rec'.unique = rec.unique /\ rec'.error = error
      BY <3>2 DEF Recs
    <3>4. ReplayIn(log, rec')
      BY <3>2, <3>3 DEF ReplayIn, Progress, HandlesIn
    <3>5. Sound'
      BY <1>1, <2>4, <3>2 DEF Sound, TypeInv, RunInv
    <3>6. RecoveryExact'
      <4>1. Expected' = Expected
        BY <2>4 DEF Expected, Touched, Before, Changes, Start
      <4>2. \A i : RolledBack(i)' <=> RolledBack(i)
        BY <2>4 DEF RolledBack, ircvchecktrans
      <4>3. /\ \A i, p : LastOf(i, p)' = LastOf(i, p)
            /\ \A i : Together(i)' <=> Together(i)
            /\ \A i : Behind(i)' <=> Behind(i)
        BY <2>4 DEF LastOf, Together, Behind
      <4>4. Explained(error) /\ rec'.at = rec.at /\ rec'.data = rec.data
            /\ rec'.error = error /\ log' = log
        BY <2>4, <3>1, <3>3
      <4>5. QED
        BY <4>1, <4>2, <4>3, <4>4
           DEF RecoveryExact, Explained, Counting, Who
    <3>7. QED
      BY <2>4, <3>2, <3>4, <3>5, <3>6 DEF Inv, Sound
  <2>7. QED
    BY <2>3, <2>5, <2>6 DEF Goes
<1>5. CASE UNCHANGED vars
  <2>1. /\ data' = data /\ unique' = unique /\ log' = log
        /\ ivbintrans' = ivbintrans /\ file' = file /\ itransyet' = itransyet
        /\ phase' = phase /\ rec' = rec
    BY <1>5 DEF vars, run
  <2>2. Sound'
    BY <1>1, <2>1 DEF Sound, TypeInv, RunInv
  <2>3. IF phase' = "run" THEN rec' = Fresh' ELSE ReplayIn(log, rec)'
    BY <2>1 DEF Inv, Fresh, Row
  <2>4. RecoveryExact'
    <3>1. Expected' = Expected
      BY <2>1 DEF Expected, Touched, Before, Changes, Start
    <3>2. \A i : RolledBack(i)' <=> RolledBack(i)
      BY <2>1 DEF RolledBack, ircvchecktrans
    <3>3. /\ \A i, p : LastOf(i, p)' = LastOf(i, p)
          /\ \A i : Together(i)' <=> Together(i)
          /\ \A i : Behind(i)' <=> Behind(i)
      BY <2>1 DEF LastOf, Together, Behind
    <3>4. RecoveryExact
      BY DEF Inv
    <3>5. QED
      BY <2>1, <3>1, <3>2, <3>3, <3>4 DEF RecoveryExact
  <2>5. QED
    BY <2>2, <2>3, <2>4 DEF Inv, Sound
<1>6. QED
  BY <1>2, <1>3, <1>4, <1>5 DEF Next

(* So it holds of every state.                                             *)
LEMMA InvHolds ==
  Spec => []Inv
<1>1. QED
  BY InitInv, NextInv, PTL DEF Spec

(* At any time the rows, the log, the state of the processes and the       *)
(* recovery have their types, and a recovery reads inside the log          *)
(* (isrecover.c), for any number of processes and rows and any length of the*)
(* log.                                                                    *)
THEOREM TypeCorrect ==
  Spec => []TypeOK
<1>1. Inv => TypeOK
  <2>1. SUFFICES ASSUME Inv PROVE rec.at \in 1..(Len(log) + 1)
    BY DEF Inv, TypeInv, TypeOK, Value
  <2>2. CASE phase = "run"
    <3>1. ReplayIn(log, rec)
      BY <2>1, <2>2, FreshReplays DEF Inv, LogInv
    <3>2. QED
      BY <3>1 DEF ReplayIn
  <2>3. CASE phase # "run"
    BY <2>1, <2>3 DEF Inv, ReplayIn
  <2>4. QED
    BY <2>2, <2>3
<1>2. QED
  BY <1>1, InvHolds, PTL

(* A recovery that comes to the end of the log (isrecover.c) has made the  *)
(* rows of the moment of the crash, but for those a rollback (istrans.c) had*)
(* begun to undo, which are as before its transaction. If it stops early it*)
(* is for one of the three reasons RecoveryExact names. For any number of  *)
(* processes and rows, and a crash between any two calls.                  *)
THEOREM RecoveryIsExact ==
  Spec => []RecoveryExact
<1>1. Inv => RecoveryExact
  BY DEF Inv
<1>2. QED
  BY <1>1, InvHolds, PTL
=============================================================================
