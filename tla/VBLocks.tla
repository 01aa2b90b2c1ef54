------------------------------ MODULE VBLocks ------------------------------
(***************************************************************************)
(* File and row locks of one table: libvbisam/vblocking.c, with the        *)
(* callers in isopen.c, isread.c, ishelper.c and istrans.c.                *)
(*                                                                         *)
(* A process opens the table through handles.  The operating system knows  *)
(* processes only: fcntl keeps the open lock and, for each row, the        *)
(* process that locked it, and lets go of all of a process's locks when    *)
(* its last descriptor of the file is closed.  Between its own handles a   *)
(* process arbitrates with a list of VBLOCK blocks sorted by row.  Blocks  *)
(* taken out of the list go to a free list through the same next pointer   *)
(* and keep their row number until they are used again.                    *)
(*                                                                         *)
(* A call is one step, except islock, which first unlocks rows one by one  *)
(* and then locks the whole range.  fcntl never waits: the library is      *)
(* built without HAVE_STRUCT_FLOCK64, and F_SETLKW is F_SETLK              *)
(* (vblowlevel.c:35).  A call that fails without any effect is a           *)
(* stuttering step.                                                        *)
(*                                                                         *)
(* InsertFirst, CanLockAny and the like are slips that no code here makes  *)
(* and no action uses: variants the properties must tell from the code.    *)
(***************************************************************************)
EXTENDS Integers, SequencesExt

CONSTANTS
  Proc,       (* processes                                                 *)
  NoProc,     (* owner of a row that is not locked                         *)
  Handle,     (* handles of the table, of all processes                    *)
  Home,       (* [Handle -> Proc], the process of a handle                 *)
  MaxRow,     (* rows of the table                                         *)
  MaxBlocks   (* bound on the VBLOCK blocks of a process                   *)

ASSUME LockAssumption ==
  /\ NoProc \notin Proc
  /\ Home \in [Handle -> Proc]
  /\ 0 \notin Handle
  /\ MaxRow \in Nat /\ MaxBlocks \in Nat

VARIABLES
  iisopen,    (* of a handle: absent, open, closing (1), buffered (2)      *)
  excl,       (* of a handle: its iopenmode has ISEXCLLOCK                 *)
  datalocked, (* of a handle: iisdatalocked                                *)
  ivbintrans, (* of a process: none, begin, needflush                      *)
  vblock,     (* of a process: [list, free], the blocks                    *)
  islocking,  (* of a process: the handle an islock is under way for, or 0 *)
  openlock,   (* fcntl on the open byte, of a process: none, rd, wr        *)
  os,         (* fcntl on the rows: the process that locked a row          *)
  held        (* history, of a handle: rows locked for it and not released *)

handles == <<iisopen, excl, datalocked, held>>
fcntl   == <<openlock, os>>
vars    == <<handles, fcntl, ivbintrans, vblock, islocking>>

Row   == 1..MaxRow
Of(p) == {h \in Handle : Home[h] = p}

-----------------------------------------------------------------------------
(* The block list.                                                         *)

Block(r, h)  == [row |-> r, handle |-> h]
RowsOfCleared(list) == [i \in 1..Len(list) |-> 0]
RowsOf(list) == [i \in 1..Len(list) |-> list[i].row]
OK          == 0
ELOCKED     == 107
Result(b, ret) == [b |-> b, ret |-> ret]

InsertFirst(b, i, r, h) ==
  [list |-> InsertAt(b.list, 1, Block(r, h)),
   free |-> IF b.free = <<>> THEN <<>> ELSE Tail(b.free)]

(* A block comes from the free list if it has one (psvblockallocate).      *)
Insert(b, i, r, h) ==
  [list |-> InsertAt(b.list, i, Block(r, h)),
   free |-> IF b.free = <<>> THEN <<>> ELSE Tail(b.free)]

(* Insertion looks for the place behind the last smaller row, and for the  *)
(* row itself only in the block it stops at.                               *)
ilockinsert(b, h, r) ==
  LET n    == Len(b.list)
      stop == Max({1} \union {k \in 2..n : b.list[k].row < r})
  IN
  CASE n = 0 \/ (n # 0 /\ r < b.list[1].row) ->
         Result(Insert(b, 1, r, h), OK)
    [] n # 0 /\ r > b.list[n].row ->
         Result(Insert(b, n + 1, r, h), OK)
    [] OTHER ->
         IF b.list[stop].row # r THEN Result(Insert(b, stop + 1, r, h), OK)
         ELSE IF b.list[stop].handle = h THEN Result(b, OK)
         ELSE Result(b, ELOCKED)

ilockdelete(b, h, r) ==
  LET at == {k \in 1..Len(b.list) : b.list[k].row = r}
      i  == Min(at)
  IN
  CASE at = {} -> Result(b, OK)
    [] at # {} /\ b.list[i].handle # h -> Result(b, ELOCKED)
    [] OTHER ->
         Result([list |-> RemoveAt(b.list, i), free |-> <<r>> \o b.free], OK)

(* What ivbdatalock does for row 0 before it comes to the range: a loop    *)
(* over the list that unlocks every row met.  The first block it deletes   *)
(* is on the free list by the time its next pointer is followed, so the    *)
(* loop goes on along the free list, over rows of earlier times.           *)
(* rows is what fcntl unlocked on the way.                                 *)
Visit(acc, h, r) ==
  LET o == ilockdelete(acc.b, h, r) IN
  [b |-> o.b, rows |-> IF o.ret = OK THEN acc.rows \union {r} ELSE acc.rows]

UnlockLoop(b, h) ==
  LET mine == {k \in 1..Len(b.list) :
                 /\ b.list[k].handle = h
                 /\ \A j \in 1..(k - 1) : b.list[j].row # b.list[k].row}
      path == IF mine = {} THEN <<>>
              ELSE <<b.list[Min(mine)].row>> \o b.free
      after[k \in 0..Len(path)] ==
        IF k = 0 THEN [b |-> b, rows |-> {}]
        ELSE Visit(after[k - 1], h, path[k])
  IN after[Len(path)]

-----------------------------------------------------------------------------
(* fcntl.                                                                  *)

CanOpen(p, mode) ==
  \A q \in Proc \ {p} :
    IF mode = "wr" THEN openlock[q] = "none" ELSE openlock[q] # "wr"

CanLockAny(p, rows) == \E r \in rows : os[r] \in {p, NoProc}
UnlockedShort(p, rows) ==
  [r \in Row |->
     IF r \in rows /\ r < MaxRow /\ os[r] = p THEN NoProc ELSE os[r]]

CanLock(p, rows)  == \A r \in rows : os[r] \in {p, NoProc}
Locked(p, rows)   == [r \in Row |-> IF r \in rows THEN p ELSE os[r]]
Unlocked(p, rows) ==
  [r \in Row |-> IF r \in rows /\ os[r] = p THEN NoProc ELSE os[r]]

-----------------------------------------------------------------------------
Init ==
  /\ iisopen = [h \in Handle |-> "absent"]
  /\ excl = [h \in Handle |-> FALSE]
  /\ datalocked = [h \in Handle |-> FALSE]
  /\ ivbintrans = [p \in Proc |-> "none"]
  /\ vblock = [p \in Proc |-> [list |-> <<>>, free |-> <<>>]]
  /\ islocking = [p \in Proc |-> 0]
  /\ openlock = [p \in Proc |-> "none"]
  /\ os = [r \in Row |-> NoProc]
  /\ held = [h \in Handle |-> {}]

Ready(p) == islocking[p] = 0

(* A call of an open handle whose mode makes it lock anything.             *)
Shared(h) == Ready(Home[h]) /\ iisopen[h] = "open" /\ ~excl[h]

(* ivbdatalock (h, VBUNLOCK, 0): isrelease outside of a transaction,       *)
(* isunlock, isstart.                                                      *)
UnlockFile(h) ==
  /\ vblock' = [vblock EXCEPT ![Home[h]] = UnlockLoop(@, h).b]
  /\ os' = Unlocked(Home[h], Row)
  /\ datalocked' = [datalocked EXCEPT ![h] = FALSE]
  /\ held' = [held EXCEPT ![h] = {}]

(* A handle that was closed is used again; if there is none, a new one is  *)
(* made, and isopen ends with an isstart, which releases locks.            *)
isopen(h, mode) ==
  LET p == Home[h] IN
  /\ Ready(p)
  /\ excl' = [excl EXCEPT ![h] = (mode = "wr")]
  /\ iisopen' = [iisopen EXCEPT ![h] = "open"]
  /\ \/ /\ iisopen[h] = "closing"          \* no lock is asked for
        /\ UNCHANGED <<fcntl, vblock, datalocked, held>>
     \/ /\ iisopen[h] = "buffered"
        /\ CanOpen(p, mode)
        /\ openlock' = [openlock EXCEPT ![p] = mode]
        /\ UNCHANGED <<os, vblock, datalocked, held>>
     \/ /\ iisopen[h] = "absent"
        /\ \A g \in Of(p) : iisopen[g] \notin {"closing", "buffered"}
        /\ CanOpen(p, mode)
        /\ openlock' = [openlock EXCEPT ![p] = mode]
        /\ IF ivbintrans[p] = "none" /\ mode = "rd"
           THEN UnlockFile(h)
           ELSE UNCHANGED <<os, vblock, datalocked, held>>
  /\ UNCHANGED <<ivbintrans, islocking>>

(* ivbclose2 for the handles S of p, which frees the list of the whole     *)
(* file, whoever put the blocks there.                                     *)
Closed(p, S, b) ==
  LET last == \A g \in Of(p) \ S : iisopen[g] \in {"absent", "buffered"} IN
  /\ iisopen' = [h \in Handle |-> IF h \in S THEN "buffered" ELSE iisopen[h]]
  /\ vblock' = [vblock EXCEPT ![p] =
                  [list |-> <<>>, free |-> Reverse(RowsOf(b.list)) \o b.free]]
  /\ openlock' = IF last THEN [openlock EXCEPT ![p] = "none"] ELSE openlock
  /\ held' = [h \in Handle |-> IF h \in S THEN {} ELSE held[h]]

isclose(h) ==
  LET p    == Home[h]
      last == \A g \in Of(p) \ {h} : iisopen[g] \in {"absent", "buffered"}
  IN
  /\ Ready(p)
  /\ iisopen[h] = "open"
  /\ \/ /\ ivbintrans[p] # "none"
        /\ iisopen' = [iisopen EXCEPT ![h] = "closing"]
        /\ UNCHANGED <<fcntl, vblock, datalocked, held>>
     \/ /\ ivbintrans[p] = "none"
        /\ Closed(p, {h},
                  IF excl[h] THEN vblock[p] ELSE UnlockLoop(vblock[p], h).b)
        /\ os' = IF last \/ ~excl[h] THEN Unlocked(p, Row) ELSE os
        /\ datalocked' = [datalocked EXCEPT ![h] = @ /\ excl[h]]
  /\ UNCHANGED <<excl, ivbintrans, islocking>>

(* ivbdatalock (h, VBWRLOCK, r): isread with ISLOCK, and the changes of an *)
(* ISTRANS table.  fcntl first, then the list: the row may be the          *)
(* process's already.                                                      *)
LockRow(h, r) ==
  LET p == Home[h]
      o == ilockinsert(vblock[p], h, r)
  IN
  /\ Shared(h)
  /\ CanLock(p, {r})
  /\ Len(vblock[p].list) < MaxBlocks                               \* bound
  /\ os' = Locked(p, {r})
  /\ vblock' = [vblock EXCEPT ![p] = o.b]
  /\ held' = IF o.ret = OK THEN [held EXCEPT ![h] = @ \union {r}] ELSE held
  /\ UNCHANGED <<iisopen, excl, datalocked, ivbintrans, islocking, openlock>>

(* isread of a table open with ISAUTOLOCK: isrelease, then the lock.       *)
ReadAutoLock(h, r) ==
  LET p == Home[h]
      o == ilockinsert(UnlockLoop(vblock[p], h).b, h, r)
  IN
  /\ Shared(h)
  /\ ivbintrans[p] = "none"
  /\ Len(vblock[p].list) < MaxBlocks                               \* bound
  /\ datalocked' = [datalocked EXCEPT ![h] = FALSE]
  /\ \/ /\ CanLock(p, {r})
        /\ os' = [Unlocked(p, Row) EXCEPT ![r] = p]
        /\ vblock' = [vblock EXCEPT ![p] = o.b]
        /\ held' = [held EXCEPT ![h] = IF o.ret = OK THEN {r} ELSE {}]
     \/ /\ ~CanLock(p, {r})
        /\ os' = Unlocked(p, Row)
        /\ vblock' = [vblock EXCEPT ![p] = UnlockLoop(@, h).b]
        /\ held' = [held EXCEPT ![h] = {}]
  /\ UNCHANGED <<iisopen, excl, ivbintrans, islocking, openlock>>

(* isrelrec, and isrelcurr outside of a transaction.                       *)
isrelrec(h, r) ==
  LET o == ilockdelete(vblock[Home[h]], h, r) IN
  /\ Shared(h)
  /\ o.ret = OK
  /\ vblock' = [vblock EXCEPT ![Home[h]] = o.b]
  /\ os' = Unlocked(Home[h], {r})
  /\ held' = [held EXCEPT ![h] = @ \ {r}]
  /\ UNCHANGED <<iisopen, excl, datalocked, ivbintrans, islocking, openlock>>

isrelease(h) ==
  /\ Shared(h)
  /\ ivbintrans[Home[h]] = "none"
  /\ UnlockFile(h)
  /\ UNCHANGED <<iisopen, excl, ivbintrans, islocking, openlock>>

isunlock(h) ==
  /\ Shared(h)
  /\ UnlockFile(h)
  /\ UNCHANGED <<iisopen, excl, ivbintrans, islocking, openlock>>

(* islock, up to the range lock and from it on.                            *)
islock(h) ==
  LET p == Home[h]
      o == UnlockLoop(vblock[p], h)
  IN
  /\ Shared(h)
  /\ vblock' = [vblock EXCEPT ![p] = o.b]
  /\ os' = Unlocked(p, o.rows)
  /\ datalocked' = [datalocked EXCEPT ![h] = TRUE]
  /\ islocking' = [islocking EXCEPT ![p] = h]
  /\ held' = [held EXCEPT ![h] = {}]
  /\ UNCHANGED <<iisopen, excl, ivbintrans, openlock>>

islockRange(p) ==
  /\ islocking[p] # 0
  /\ islocking' = [islocking EXCEPT ![p] = 0]
  /\ \/ /\ CanLock(p, Row)
        /\ os' = Locked(p, Row)
        /\ held' = [held EXCEPT ![islocking[p]] = Row]
     \/ /\ ~CanLock(p, Row)
        /\ UNCHANGED <<os, held>>
  /\ UNCHANGED <<iisopen, excl, datalocked, ivbintrans, vblock, openlock>>

isbegin(p) ==
  /\ Ready(p)
  /\ ivbintrans[p] = "none"
  /\ ivbintrans' = [ivbintrans EXCEPT ![p] = "begin"]
  /\ UNCHANGED <<handles, fcntl, vblock, islocking>>

(* iwritetrans: the first record a transaction logs.                       *)
LogRecord(p) ==
  /\ Ready(p)
  /\ ivbintrans[p] = "begin"
  /\ \E h \in Of(p) : iisopen[h] = "open"
  /\ ivbintrans' = [ivbintrans EXCEPT ![p] = "needflush"]
  /\ UNCHANGED <<handles, fcntl, vblock, islocking>>

(* iscommit and isrollback.  One that logged nothing finishes the closes   *)
(* it put off, and isrollback forgets to leave the transaction; the others *)
(* close every handle, and idemotelocks finds none to release.             *)
EndTrans(p, after) ==
  LET files == {h \in Of(p) : iisopen[h] \in {"open", "closing"}}
      S     == IF ivbintrans[p] = "begin"
               THEN {h \in Of(p) : iisopen[h] = "closing"} ELSE files
  IN
  /\ Ready(p)
  /\ ivbintrans[p] # "none"
  /\ ivbintrans' =
       [ivbintrans EXCEPT ![p] = IF @ = "begin" THEN after ELSE "none"]
  /\ \/ /\ S = {}
        /\ UNCHANGED <<iisopen, fcntl, vblock, held>>
     \/ /\ S # {}
        /\ Closed(p, S, vblock[p])
        /\ os' = IF S = files THEN Unlocked(p, Row) ELSE os
  /\ UNCHANGED <<excl, datalocked, islocking>>

iscommit(p)   == EndTrans(p, "none")
isrollback(p) == EndTrans(p, "begin")

(* The process dies: the system drops its locks.                           *)
Crash(p) ==
  /\ iisopen' = [h \in Handle |-> IF h \in Of(p) THEN "absent" ELSE iisopen[h]]
  /\ excl' = [h \in Handle |-> excl[h] /\ h \notin Of(p)]
  /\ datalocked' = [h \in Handle |-> datalocked[h] /\ h \notin Of(p)]
  /\ held' = [h \in Handle |-> IF h \in Of(p) THEN {} ELSE held[h]]
  /\ ivbintrans' = [ivbintrans EXCEPT ![p] = "none"]
  /\ vblock' = [vblock EXCEPT ![p] = [list |-> <<>>, free |-> <<>>]]
  /\ islocking' = [islocking EXCEPT ![p] = 0]
  /\ openlock' = [openlock EXCEPT ![p] = "none"]
  /\ os' = Unlocked(p, Row)

Next ==
  \/ \E h \in Handle, mode \in {"rd", "wr"} : isopen(h, mode)
  \/ \E h \in Handle : isclose(h) \/ isrelease(h) \/ isunlock(h) \/ islock(h)
  \/ \E h \in Handle, r \in Row :
       LockRow(h, r) \/ ReadAutoLock(h, r) \/ isrelrec(h, r)
  \/ \E p \in Proc : islockRange(p) \/ isbegin(p) \/ LogRecord(p)
                     \/ iscommit(p) \/ isrollback(p) \/ Crash(p)

Spec == Init /\ [][Next]_vars

-----------------------------------------------------------------------------
(* Properties.                                                             *)

(* Every value has its type. *)
TypeOK ==
  /\ iisopen \in [Handle -> {"absent", "open", "closing", "buffered"}]
  /\ excl \in [Handle -> BOOLEAN]
  /\ datalocked \in [Handle -> BOOLEAN]
  /\ ivbintrans \in [Proc -> {"none", "begin", "needflush"}]
  /\ vblock \in [Proc -> [list : Seq([row : Row, handle : Handle]),
                          free : Seq(Row)]]
  /\ islocking \in [Proc -> Handle \union {0}]
  /\ openlock \in [Proc -> {"none", "rd", "wr"}]
  /\ os \in [Row -> Proc \union {NoProc}]
  /\ held \in [Handle -> SUBSET Row]

(* A row that was locked for a handle and not released is locked against   *)
(* the other processes: through isclose within a transaction, a reopen, a  *)
(* failed islock of another process or its crash.                          *)
HeldIsLocked == \A h \in Handle : \A r \in held[h] : os[r] = Home[h]

(* The block list is sorted, which both ilockinsert and ilockdelete rely   *)
(* on to find a row, and holds blocks of open or closing handles only.     *)
ListWellFormed ==
  \A p \in Proc : \A i \in 1..Len(vblock[p].list) :
    /\ i > 1 => vblock[p].list[i - 1].row <= vblock[p].list[i].row
    /\ iisopen[vblock[p].list[i].handle] \in {"open", "closing"}

(* What a process locked is dropped at the latest when its last handle is  *)
(* closed: no lock outlives the handles.                                   *)
NoLockWithoutHandle ==
  \A p \in Proc :
    (\A h \in Of(p) : iisopen[h] \in {"absent", "buffered"})
      => openlock[p] = "none" /\ \A r \in Row : os[r] # p

(* vblocking.c:165, "Exclusive file open lock (i.e. ISEXCLLOCK)": nobody   *)
(* else has a table open that is open exclusively.                         *)
ExclusiveAlone ==
  \A h, g \in Handle :
    iisopen[h] = "open" /\ excl[h] /\ iisopen[g] = "open" => Home[g] = Home[h]
=============================================================================
