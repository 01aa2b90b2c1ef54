------------------------------ MODULE VBTrans ------------------------------
(***************************************************************************)
(* Transactions on one table: isbegin, iscommit and isrollback of          *)
(* libvbisam/istrans.c with the changes they log (iswrite.c, isdelete.c,   *)
(* isrewrite.c).                                                           *)
(*                                                                         *)
(* A change goes to the table at once and to the log.  A rollback walks    *)
(* the log backwards to the begin record of its process and undoes each    *)
(* record with an ordinary call; a commit walks it too, to free the rows   *)
(* the transaction deleted.  Each record of a walk is a step of its own:   *)
(* the dictionary lock is taken and released for it.                       *)
(*                                                                         *)
(* A row is its primary key.  The free list is the sequence VBFreeList     *)
(* models node by node.  The changes of a call are one step; calls that    *)
(* fail without effect are stuttering steps.  Each process has one handle. *)
(* A rollback closes one that was closed in the transaction before it      *)
(* undoes anything, and opens it again without ISTRANS: from then on it    *)
(* has no row locks and takes none.  Left to VBLocks: the other closes,    *)
(* and the open and close records.                                         *)
(*                                                                         *)
(* FreedLost, CanLockAny and the like are slips that no code here makes    *)
(* and no action uses: variants the properties must tell from the code.    *)
(***************************************************************************)
EXTENDS Integers, SequencesExt

CONSTANTS
  Proc,       (* processes that change the table                           *)
  Busy,       (* others read it: a call may find the dictionary locked, an *)
              (* open the table                                            *)
  Pid,        (* [Proc -> Nat], their process numbers                      *)
  Key,        (* primary keys                                              *)
  KeyOf,      (* [Proc -> SUBSET Key], the keys a process writes, of the   *)
              (* rows it changes                                           *)
  NoKey, NoProc,
  Istrans,    (* the table is opened with ISTRANS                          *)
  MaxRow,     (* bound on the row numbers                                  *)
  MaxLog      (* bound on the log when a change is logged                  *)

(* With readers a single process changes the table: then its copy of the   *)
(* dictionary is current even where it goes on without the dictionary lock.*)
ASSUME TransAssumption ==
  /\ NoProc \notin Proc
  /\ NoKey \notin Key
  /\ Pid \in [Proc -> Nat]
  /\ KeyOf \in [Proc -> SUBSET Key]
  /\ Istrans \in BOOLEAN /\ Busy \in BOOLEAN
  /\ MaxRow \in Nat /\ MaxLog \in Nat
  /\ Busy => \A p, q \in Proc : p = q

VARIABLES
  data,       (* [Row -> Key or NoKey], the rows and their keys            *)
  space,      (* [count, free]: cdatacount and the rows of the free list   *)
  log,        (* the log file                                              *)
  ivbintrans, (* of a process: none, begin, needflush, commit, rollback    *)
  at,         (* of a process: the log record a walk has come to           *)
  file,       (* of a process: open (with ISTRANS, if Istrans), shut       *)
              (* (iisopen = 1), closed (2), or plain (open without ISTRANS)*)
  rowlock,    (* fcntl on the rows: the process that locked a row          *)
  letgo       (* history, of a process: the rows its transaction changed   *)
              (* and has given up the lock of                              *)

vars == <<data, space, log, ivbintrans, at, file, rowlock, letgo>>

Row   == 1..MaxRow
Value == Key \union {NoKey}

(* What inl_stint and inl_ldint make of a number: 16 bits (unsigned where  *)
(* ALLOW_MISALIGNED is defined, on x86 for one).                           *)
Word     == 65536
Short(n) == n % Word

(* A log record; proc is history, the file has pid only.                   *)
Record(p, op, r, old) ==
  [proc |-> p, pid |-> Short(Pid[p]), op |-> op, row |-> r, old |-> old]

-----------------------------------------------------------------------------
(* Rows.                                                                   *)

FreedLost(s, r) == IF s.count = r THEN [s EXCEPT !.count = r - 1] ELSE s

Freed(s, r) ==                                    \* ivbdatafree
  IF s.count = r THEN [s EXCEPT !.count = r - 1]
  ELSE [s EXCEPT !.free = Append(@, r)]

NextRow(s) == IF s.free = <<>> THEN s.count + 1 ELSE Last(s.free)

TakenKeeps(s) ==
  IF s.free = <<>> THEN [s EXCEPT !.count = @ + 1] ELSE s
TakenTwice(s) ==
  IF s.free = <<>> THEN [s EXCEPT !.count = @ + 2]
  ELSE [s EXCEPT !.free = Front(@)]

Taken(s) ==                                       \* tvbdataallocate
  IF s.free = <<>> THEN [s EXCEPT !.count = @ + 1]
  ELSE [s EXCEPT !.free = Front(@)]

DuplicateBelow(k, r) == \E s \in 1..(r - 1) : data[s] = k

(* Another row has the key: EDUPL.                                         *)
Duplicate(k, r) == \E s \in Row \ {r} : data[s] = k

CanLockAny(p, r) == TRUE

(* The handle locks the rows it changes: "iopenmode & ISTRANS".            *)
Locks(p) == Istrans /\ file[p] = "open"

CanLock(p, r) == Locks(p) => rowlock[r] \in {p, NoProc}
LockRow(p, r) == IF Locks(p) THEN [rowlock EXCEPT ![r] = p] ELSE rowlock

Unlocked(p) == [r \in Row |-> IF rowlock[r] = p THEN NoProc ELSE rowlock[r]]

Init ==
  /\ data = [r \in Row |-> NoKey]
  /\ space = [count |-> 0, free |-> <<>>]
  /\ log = <<>>
  /\ ivbintrans = [p \in Proc |-> "none"]
  /\ at = [p \in Proc |-> 0]
  /\ file = [p \in Proc |-> "open"]
  /\ letgo = [p \in Proc |-> {}]
  /\ rowlock = [r \in Row |-> NoProc]

-----------------------------------------------------------------------------
(* Changes.  An ISTRANS table can be used in a transaction only.           *)

CanChange(p) ==
  /\ \/ ivbintrans[p] \in {"begin", "needflush"}
     \/ ~Istrans /\ ivbintrans[p] = "none"
  /\ file[p] = "open"
  /\ Len(log) + 2 <= MaxLog                                        \* bound

(* The first record of a transaction comes after its begin record.         *)
Logged(p, op, r, old) ==
  /\ log' = log \o (IF ivbintrans[p] = "begin"
                    THEN <<Record(p, "BW", 0, NoKey)>> ELSE <<>>)
                \o <<Record(p, op, r, old)>>
  /\ ivbintrans' =
       [ivbintrans EXCEPT ![p] = IF @ = "begin" THEN "needflush" ELSE @]

iswrite(p) ==
  LET r == NextRow(space) IN
  /\ CanChange(p)
  /\ r <= MaxRow                                                   \* bound
  /\ CanLock(p, r)
  /\ rowlock' = LockRow(p, r)
  /\ \E k \in KeyOf[p] :
       \/ /\ ~Duplicate(k, r)
          /\ data' = [data EXCEPT ![r] = k]
          /\ space' = Taken(space)
          /\ Logged(p, "IN", r, NoKey)
       \/ /\ Duplicate(k, r)          \* the row is given back, still locked
          /\ space' = Freed(Taken(space), r)
          /\ UNCHANGED <<data, log, ivbintrans>>
  /\ UNCHANGED <<at, file, letgo>>

(* isdelete, isdelcurr, isdelrec: an ISTRANS table keeps the row for the   *)
(* commit.                                                                 *)
isdelete(p) ==
  \E r \in Row :
    /\ CanChange(p)
    /\ data[r] \in KeyOf[p]
    /\ CanLock(p, r)
    /\ rowlock' = LockRow(p, r)
    /\ data' = [data EXCEPT ![r] = NoKey]
    /\ space' = IF Istrans THEN space ELSE Freed(space, r)
    /\ Logged(p, "DE", r, data[r])
    /\ UNCHANGED <<at, file, letgo>>

isrewrite(p) ==
  \E r \in Row, k \in KeyOf[p] :
    /\ CanChange(p)
    /\ data[r] \in KeyOf[p]
    /\ CanLock(p, r)
    /\ ~Duplicate(k, r)
    /\ rowlock' = LockRow(p, r)
    /\ data' = [data EXCEPT ![r] = k]
    /\ Logged(p, "UP", r, data[r])
    /\ UNCHANGED <<space, at, file, letgo>>

(* The changes of the transaction p is in: its records after the begin.    *)
Start(p) ==
  Max({0} \union {i \in 1..Len(log) : log[i].proc = p /\ log[i].op = "BW"})
Changes(p) == {i \in Start(p)..Len(log) :
                 i > 0 /\ log[i].proc = p /\ log[i].op \in {"IN", "DE", "UP"}}
Touched(p) == {log[i].row : i \in Changes(p)}

-----------------------------------------------------------------------------
(* The handle within a transaction.                                        *)

(* The close is put off to the end of the transaction, and an open takes   *)
(* it back.                                                                *)
isclose(p) ==
  /\ ivbintrans[p] = "needflush"
  /\ file[p] = "open"
  /\ file' = [file EXCEPT ![p] = "shut"]
  /\ UNCHANGED <<data, space, log, ivbintrans, at, rowlock, letgo>>

isopen(p) ==
  /\ ivbintrans[p] = "needflush"
  /\ file[p] = "shut"
  /\ file' = [file EXCEPT ![p] = "open"]
  /\ UNCHANGED <<data, space, log, ivbintrans, at, rowlock, letgo>>

(* isrelease and isrelcurr do nothing in a transaction; isrelrec unlocks a *)
(* row and isunlock all of them, those the transaction changed too (so     *)
(* does an islock that fails).                                             *)
isrelrec(p) ==
  \E r \in Touched(p) :
    /\ ivbintrans[p] = "needflush"
    /\ file[p] = "open"
    /\ rowlock[r] = p
    /\ rowlock' = [rowlock EXCEPT ![r] = NoProc]
    /\ letgo' = [letgo EXCEPT ![p] = @ \union {r}]
    /\ UNCHANGED <<data, space, log, ivbintrans, at, file>>

isunlock(p) ==
  /\ ivbintrans[p] = "needflush"
  /\ file[p] = "open"
  /\ rowlock' = Unlocked(p)
  /\ letgo' = [letgo EXCEPT ![p] = Touched(p)]
  /\ UNCHANGED <<data, space, log, ivbintrans, at, file>>

-----------------------------------------------------------------------------
(* Transactions.                                                           *)

(* "Is it OURS?"                                                           *)
Ours(p, i) == log[i].pid = Pid[p]

(* The next record of the walk below position i; 0 at the start of the log.*)
Prev(p, i) == Max({0} \union {j \in 1..(i - 1) : Ours(p, j)})

isbegin(p) ==
  /\ ivbintrans[p] = "none"
  /\ ivbintrans' = [ivbintrans EXCEPT ![p] = "begin"]
  /\ UNCHANGED <<data, space, log, at, file, rowlock, letgo>>

iscommit(p) ==
  /\ \/ /\ ivbintrans[p] = "begin"
        /\ ivbintrans' = [ivbintrans EXCEPT ![p] = "none"]
        /\ UNCHANGED at
     \/ /\ ivbintrans[p] = "needflush"
        /\ ivbintrans' = [ivbintrans EXCEPT ![p] = "commit"]
        /\ at' = [at EXCEPT ![p] = Prev(p, Len(log) + 1)]
  /\ UNCHANGED <<data, space, log, file, rowlock, letgo>>

(* A rollback of a transaction that logged nothing returns at once.  A     *)
(* handle that was closed in the transaction is closed now (ivbclose2),    *)
(* and the locks of the process on the table are gone.                     *)
isrollback(p) ==
  /\ ivbintrans[p] = "needflush"
  /\ IF file[p] = "shut"
     THEN /\ file' = [file EXCEPT ![p] = "closed"]
          /\ rowlock' = Unlocked(p)
          /\ letgo' = [letgo EXCEPT ![p] = Touched(p)]
     ELSE UNCHANGED <<file, rowlock, letgo>>
  /\ ivbintrans' = [ivbintrans EXCEPT ![p] = "rollback"]
  /\ at' = [at EXCEPT ![p] = Prev(p, Len(log) + 1)]
  /\ log' = Append(log, Record(p, "RW", 0, NoKey))
  /\ UNCHANGED <<data, space>>

Walking(p, how) == ivbintrans[p] = how /\ at[p] # 0 /\ log[at[p]].op # "BW"
Step(p) == at' = [at EXCEPT ![p] = Prev(p, @)]

(* idemotelocks; the table is opened again before it is used again.        *)
End(p) ==
  /\ ivbintrans' = [ivbintrans EXCEPT ![p] = "none"]
  /\ at' = [at EXCEPT ![p] = 0]
  /\ file' = [file EXCEPT ![p] = "open"]
  /\ rowlock' = Unlocked(p)
  /\ letgo' = [letgo EXCEPT ![p] = {}]

(* ivbrollmeforward: what ivbenter returns is ignored.                     *)
CommitStep(p) ==
  /\ Walking(p, "commit")
  /\ space' = IF log[at[p]].op = "DE" THEN Freed(space, log[at[p]].row)
              ELSE space
  /\ Step(p)
  /\ UNCHANGED <<data, log, ivbintrans, file, rowlock, letgo>>

CommitEnd(p) ==
  /\ ivbintrans[p] = "commit"
  /\ ~Walking(p, "commit")
  /\ log' = Append(log, Record(p, "CW", 0, NoKey))
  /\ End(p)
  /\ UNCHANGED <<data, space>>

(* ivbrollmeback, one action for each kind of record.  The first is the    *)
(* close record of a handle that isrollback closed: isopen with ISMANULOCK *)
(* and ISINOUT.                                                            *)
Reopen(p) ==
  /\ Walking(p, "rollback")
  /\ file[p] = "closed"
  /\ file' = [file EXCEPT ![p] = "plain"]
  /\ UNCHANGED <<data, space, log, ivbintrans, at, rowlock, letgo>>

Undoing(p) == Walking(p, "rollback") /\ file[p] # "closed"

UndoInsert(p) ==                                  \* isdelrec
  LET r == log[at[p]].row IN
  /\ Undoing(p)
  /\ log[at[p]].op = "IN"
  /\ data[r] # NoKey
  /\ CanLock(p, r)
  /\ data' = [data EXCEPT ![r] = NoKey]
  /\ space' = Freed(space, r)
  /\ rowlock' = LockRow(p, r)
  /\ Step(p)
  /\ UNCHANGED <<log, ivbintrans, file, letgo>>

UndoUpdateNot(p) ==
  /\ Undoing(p)
  /\ log[at[p]].op = "UP"
  /\ Step(p)
  /\ UNCHANGED <<data, space, log, ivbintrans, file, rowlock, letgo>>

UndoUpdate(p) ==                                  \* isrewrec
  LET r == log[at[p]].row
      k == log[at[p]].old
  IN
  /\ Undoing(p)
  /\ log[at[p]].op = "UP"
  /\ data[r] # NoKey
  /\ CanLock(p, r)
  /\ ~Duplicate(k, r)
  /\ data' = [data EXCEPT ![r] = k]
  /\ rowlock' = LockRow(p, r)
  /\ Step(p)
  /\ UNCHANGED <<space, log, ivbintrans, file, letgo>>

(* isopen, isdelrec or isrewrec fails: a return ends the walk.             *)
UndoFails(p) ==
  LET r == log[at[p]].row IN
  /\ Walking(p, "rollback")
  /\ \/ Busy /\ file[p] = "closed"
     \/ /\ file[p] # "closed"
        /\ log[at[p]].op \in {"IN", "UP"}
        /\ \/ Busy
           \/ data[r] = NoKey
           \/ ~CanLock(p, r)
           \/ log[at[p]].op = "UP" /\ Duplicate(log[at[p]].old, r)
  /\ End(p)
  /\ UNCHANGED <<data, space, log>>

(* ivbwriterow puts the row back where it was; the row was not taken from  *)
(* the free list.  What ivbenter returns is ignored.                       *)
UndoDelete(p) ==
  LET r == log[at[p]].row
      k == log[at[p]].old
      ok == CanLock(p, r) /\ ~Duplicate(k, r)
  IN
  /\ Undoing(p)
  /\ log[at[p]].op = "DE"
  /\ data' = IF ok THEN [data EXCEPT ![r] = k] ELSE data
  /\ space' = IF ok THEN space ELSE Freed(space, r)
  /\ rowlock' = IF CanLock(p, r) THEN LockRow(p, r) ELSE rowlock
  /\ Step(p)
  /\ UNCHANGED <<log, ivbintrans, file, letgo>>

RollbackEnd(p) ==
  /\ ivbintrans[p] = "rollback"
  /\ ~Walking(p, "rollback")
  /\ End(p)
  /\ UNCHANGED <<data, space, log>>

Next ==
  \E p \in Proc :
    \/ iswrite(p) \/ isdelete(p) \/ isrewrite(p)
    \/ isclose(p) \/ isopen(p) \/ isrelrec(p) \/ isunlock(p)
    \/ isbegin(p) \/ iscommit(p) \/ isrollback(p)
    \/ CommitStep(p) \/ CommitEnd(p)
    \/ Reopen(p) \/ UndoInsert(p) \/ UndoUpdate(p) \/ UndoDelete(p)
    \/ UndoFails(p) \/ RollbackEnd(p)

Spec == Init /\ [][Next]_vars

-----------------------------------------------------------------------------
(* Properties.                                                             *)

(* Every value has its type. *)
TypeOK ==
  /\ data \in [Row -> Value]
  /\ space \in [count : 0..MaxRow, free : Seq(Row)]
  /\ \A i \in 1..Len(log) :
       log[i] \in [proc : Proc, pid : 0..(Word - 1), row : 0..MaxRow,
                   old : Value, op : {"BW", "IN", "DE", "UP", "CW", "RW"}]
  /\ ivbintrans \in
       [Proc -> {"none", "begin", "needflush", "commit", "rollback"}]
  /\ at \in [Proc -> 0..Len(log)]
  /\ file \in [Proc -> {"open", "shut", "closed", "plain"}]
  /\ rowlock \in [Row -> Proc \union {NoProc}]
  /\ letgo \in [Proc -> SUBSET Row]

Before(p, r) == log[Min({i \in Changes(p) : log[i].row = r})].old

InTrans(p) == ivbintrans[p] \in {"needflush", "rollback"}

(* The rows a transaction changed that a rollback has not come to the      *)
(* first record of.                                                        *)
Unfinished(p) ==
  IF ~InTrans(p) THEN {}
  ELSE {log[i].row : i \in {j \in Changes(p) :
                              ivbintrans[p] = "needflush" \/ j <= at[p]}}

(* The rows a transaction has deleted and has not given back yet.          *)
Kept(p) ==
  IF ivbintrans[p] = "commit"
  THEN {log[i].row : i \in {j \in Changes(p) : j <= at[p] /\ log[j].op = "DE"}}
  ELSE {r \in Unfinished(p) : data[r] = NoKey}

(* A row on the free list holds no data and is listed once (ischeck.c:326, *)
(* "If the row is NOT deleted, then the free list is screwed"): no row is  *)
(* freed twice and no rollback brings back a row that was freed.           *)
FreeRowsDeleted ==
  /\ \A i \in 1..Len(space.free) : data[space.free[i]] = NoKey
  /\ IsInjective(space.free)

(* Every row below the row count holds data, is on the free list or is     *)
(* deleted by a transaction that has not come to free it, and a row has    *)
(* one of these states only.                                               *)
RowsAccounted ==
  LET live == {r \in Row : data[r] # NoKey}
      free == ToSet(space.free)
      kept == UNION {Kept(p) : p \in Proc}
  IN
  /\ 1..space.count \subseteq live \union free \union kept
  /\ live \union kept \subseteq 1..space.count
  /\ kept \intersect (live \union free) = {}

(* Two rows never have the same primary key, whatever is undone.           *)
KeysUnique ==
  \A r, s \in Row : r # s /\ data[r] # NoKey => data[r] # data[s]

(* A row that a transaction changed is locked by it until the transaction  *)
(* ends, so nobody builds on what may be undone: whatever the other        *)
(* processes undo, commit and unlock, it loses the lock by its own isrelrec*)
(* or isunlock only, or by a rollback after it closed the table            *)
(* (istrans.c:703).                                                        *)
ChangedIsLocked ==
  \A p \in Proc : InTrans(p) =>
    \A r \in Touched(p) \ letgo[p] : rowlock[r] = p

(* A rollback starts with the locks of its transaction, closed table or    *)
(* not (isopen.c:83, "to make sure that rowlocks held during a transaction *)
(* are retained").                                                         *)
LocksRetained ==
  [][\A p \in Proc : ivbintrans[p] = "needflush" /\ ivbintrans'[p] = "rollback"
       => rowlock' = rowlock]_vars

(* The transactions keep the promises of VBAtomic.                         *)
Committed ==
  [r \in Row |->
    LET old == {Before(p, r) : p \in {q \in Proc : r \in Unfinished(q)}}
    IN  IF old = {} THEN data[r] ELSE CHOOSE k \in old : TRUE]
Pending == [p \in Proc |-> [r \in IF ivbintrans[p] = "needflush"
                                  THEN Touched(p) ELSE {} |-> data[r]]]
Atomic == INSTANCE VBAtomic WITH table <- Committed, pending <- Pending
AtomicSpec == Atomic!Spec

(* A rollback that comes to its end has undone the transaction: what a     *)
(* transaction changed, keys included, is its own until then               *)
(* (ChangeLog:262, "any key deletion will *NOT* take effect until the      *)
(* transaction is completed").  Only a row that it inserted may be another *)
(* process's by then, with a key of that process.                          *)
RollbackUndoes ==
  [][\A p \in Proc : ivbintrans[p] = "rollback" /\ ivbintrans'[p] = "none"
       => \A r \in Touched(p) :
            \/ data'[r] = Before(p, r)
            \/ Before(p, r) = NoKey /\ data'[r] \notin KeyOf[p]]_vars
=============================================================================
