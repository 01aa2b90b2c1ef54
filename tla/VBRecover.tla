----------------------------- MODULE VBRecover -----------------------------
(***************************************************************************)
(* The log and its replay: what processes that work on an ISTRANS table    *)
(* write to the log (the ivbtrans* functions of libvbisam/istrans.c, the   *)
(* opens and closes of isopen.c), the machine going down at any moment,    *)
(* and isrecover (libvbisam/isrecover.c), which replays the log on the     *)
(* table as it was when the log was empty.                                 *)
(*                                                                         *)
(* Each process has one handle.  What VBTrans models record by record is   *)
(* one step here: the walk of a commit or a rollback over its log.  The    *)
(* space allocator is VBSpace: any row that is free may be handed out.     *)
(*                                                                         *)
(* ircvchecktransNone and ivbclose2Again are slips that no code here makes *)
(* and no action uses: variants the properties must tell from the code.    *)
(***************************************************************************)
EXTENDS Integers, SequencesExt

CONSTANTS
  Proc,       (* processes                                                 *)
  KeyOf,      (* [Proc -> sets of keys], the keys each writes              *)
  NoKey,
  MaxRow,     (* bound on the row numbers                                  *)
  MaxId,      (* bound on the unique ids                                   *)
  SetIds,     (* the unique ids that issetunique is called with            *)
  MaxLog      (* bound on the log when a transaction goes on               *)

ASSUME RecoverAssumption ==
  /\ MaxRow \in Nat /\ MaxId \in Nat \ {0} /\ MaxLog \in Nat
  /\ SetIds \subseteq 1..MaxId
  /\ \A p, q \in Proc : p # q => KeyOf[p] \intersect KeyOf[q] = {}
  /\ NoKey \notin UNION {KeyOf[p] : p \in Proc}

VARIABLES
  data,       (* [Row -> key or NoKey], the rows                           *)
  unique,     (* cuniqueid of the dictionary                               *)
  log,        (* the log file                                              *)
  ivbintrans, (* of a process: none, begin, needflush, commit, rollback    *)
  file,       (* of a process: new (never opened), open, shut (closed in a *)
              (* transaction, iisopen = 1) or closed                       *)
  itransyet,  (* the processes whose handle has its open record in the log *)
  phase,      (* run, replay or done                                       *)
  rec         (* what isrecover has come to: its position, the transactions*)
              (* it is in, the handle it has open for a process (0 if      *)
              (* none), the cuniqueid that each of its handles has seen    *)
              (* last, and the table                                       *)

run  == <<data, unique, log, ivbintrans, file, itransyet>>
vars == <<run, phase, rec>>

Row == 1..MaxRow

(* cuniqueid is counted from 1 (isbuild).                                  *)
Init ==
  /\ data = [r \in Row |-> NoKey]
  /\ unique = 1
  /\ log = <<>>
  /\ ivbintrans = [p \in Proc |-> "none"]
  /\ file = [p \in Proc |-> "new"]
  /\ itransyet = {}
  /\ phase = "run"
  /\ rec = [at |-> 1, trans |-> [p \in Proc |-> "none"],
            handle |-> [p \in Proc |-> 0], seen |-> <<>>,
            data |-> data, unique |-> 1, error |-> "none"]

-----------------------------------------------------------------------------
(* The log.  number is a row or, of UN and SU, a unique id.                *)

Record(p, op, n, old, new) ==
  [proc |-> p, op |-> op, number |-> n, old |-> old, new |-> new]
Mark(p, op) == Record(p, op, 0, NoKey, NoKey)

(* A transaction starts with its begin record and a handle with its open   *)
(* record: they come before the first change.                              *)
Logged(p, record) ==
  /\ log' = log \o (IF ivbintrans[p] = "begin" THEN <<Mark(p, "BW")>>
                    ELSE <<>>)
                \o (IF p \in itransyet THEN <<>> ELSE <<Mark(p, "FO")>>)
                \o <<record>>
  /\ ivbintrans' = [ivbintrans EXCEPT ![p] = "needflush"]
  /\ itransyet' = itransyet \union {p}

(* The changes p has made since its begin record, and undone.              *)
Start(p) == Max({0} \union {i \in 1..Len(log) : log[i] = Mark(p, "BW")})
Changes(p) == {i \in (Start(p) + 1)..Len(log) :
                 log[i].proc = p /\ log[i].op \in {"IN", "DE", "UP"}}
Touched(p) == {log[i].number : i \in Changes(p)}
Before(p, r) == log[Min({i \in Changes(p) : log[i].number = r})].old
Undone(p) ==
  [r \in Row |-> IF r \in Touched(p) THEN Before(p, r) ELSE data[r]]

-----------------------------------------------------------------------------
(* Calls.                                                                  *)

(* Between calls, with room for the call and the end of the transaction.   *)
Calls(p) ==
  /\ phase = "run"
  /\ ivbintrans[p] \in {"none", "begin", "needflush"}
  /\ Len(log) + 2 <= MaxLog                                        \* bound

isbegin(p) ==
  /\ Calls(p)
  /\ ivbintrans[p] = "none"
  /\ ivbintrans' = [ivbintrans EXCEPT ![p] = "begin"]
  /\ UNCHANGED <<data, unique, log, file, itransyet>>

(* An ISTRANS table is opened the first time in a transaction only: the    *)
(* call of isstart fails otherwise.  So the open is never logged at once.  *)
isopen(p) ==
  /\ Calls(p)
  /\ file[p] # "open"
  /\ file[p] = "new" => ivbintrans[p] # "none"
  /\ file' = [file EXCEPT ![p] = "open"]
  /\ UNCHANGED <<data, unique, log, ivbintrans, itransyet>>

Closing(p) == IF p \in itransyet THEN <<Mark(p, "FC")>> ELSE <<>>

ivbclose2Again(p, before, after) ==
  /\ file' = [file EXCEPT ![p] = "closed"]
  /\ log' = log \o before \o Closing(p) \o after
  /\ UNCHANGED itransyet

(* The handle is closed and the close logged, between the records of the   *)
(* caller.                                                                 *)
ivbclose2(p, before, after) ==
  /\ file' = [file EXCEPT ![p] = "closed"]
  /\ log' = log \o before \o Closing(p) \o after
  /\ itransyet' = itransyet \ {p}

isclose(p) ==
  /\ Calls(p)
  /\ file[p] = "open"
  /\ IF ivbintrans[p] = "none"
     THEN ivbclose2(p, <<>>, <<>>)
     ELSE /\ file' = [file EXCEPT ![p] = "shut"]
          /\ UNCHANGED <<log, itransyet>>
  /\ UNCHANGED <<data, unique, ivbintrans>>

CanChange(p) ==
  Calls(p) /\ file[p] = "open" /\ ivbintrans[p] # "none"

(* Another transaction that goes on has changed the row: it is not free    *)
(* yet, or holds a key of that process (so whether its lock was given up,  *)
(* see VBTrans, does not matter here).                                     *)
CanLock(p, r) ==
  \A q \in Proc \ {p} :
    ivbintrans[q] \in {"needflush", "rollback"} => r \notin Touched(q)

Duplicate(table, k, r) == \E s \in Row \ {r} : table[s] = k

iswrite(p) ==
  \E r \in Row, k \in KeyOf[p] :
    /\ CanChange(p)
    /\ data[r] = NoKey
    /\ ivbintrans[p] = "needflush" => r \notin Touched(p)
    /\ CanLock(p, r)
    /\ ~Duplicate(data, k, r)
    /\ data' = [data EXCEPT ![r] = k]
    /\ Logged(p, Record(p, "IN", r, NoKey, k))
    /\ UNCHANGED <<unique, file>>

isdelete(p) ==
  \E r \in Row :
    /\ CanChange(p)
    /\ data[r] \in KeyOf[p]
    /\ CanLock(p, r)
    /\ data' = [data EXCEPT ![r] = NoKey]
    /\ Logged(p, Record(p, "DE", r, data[r], NoKey))
    /\ UNCHANGED <<unique, file>>

isrewrite(p) ==
  \E r \in Row, k \in KeyOf[p] :
    /\ CanChange(p)
    /\ data[r] \in KeyOf[p]
    /\ CanLock(p, r)
    /\ ~Duplicate(data, k, r)
    /\ data' = [data EXCEPT ![r] = k]
    /\ Logged(p, Record(p, "UP", r, data[r], k))
    /\ UNCHANGED <<unique, file>>

isuniqueid(p) ==
  /\ CanChange(p)
  /\ unique < MaxId                                                \* bound
  /\ unique' = unique + 1
  /\ Logged(p, Record(p, "UN", unique, NoKey, NoKey))
  /\ UNCHANGED <<data, file>>

issetunique(p) ==
  \E id \in SetIds :
    /\ CanChange(p)
    /\ unique' = Max({unique, id})
    /\ Logged(p, Record(p, "SU", id, NoKey, NoKey))
    /\ UNCHANGED <<data, file>>

(* A commit closes every handle, before it logs its end; one of a          *)
(* transaction that logged nothing, those that were closed in it.          *)
iscommit(p) ==
  /\ phase = "run"
  /\ ivbintrans[p] \in {"begin", "needflush"}
  /\ ivbintrans' = [ivbintrans EXCEPT ![p] =
                      IF @ = "begin" THEN "none" ELSE "commit"]
  /\ IF file[p] \in (IF ivbintrans[p] = "begin" THEN {"shut"}
                     ELSE {"open", "shut"})
     THEN ivbclose2(p, <<>>, <<>>)
     ELSE UNCHANGED <<file, log, itransyet>>
  /\ UNCHANGED <<data, unique>>

CommitEnd(p) ==
  /\ phase = "run"
  /\ ivbintrans[p] = "commit"
  /\ log' = Append(log, Mark(p, "CW"))
  /\ ivbintrans' = [ivbintrans EXCEPT ![p] = "none"]
  /\ UNCHANGED <<data, unique, file, itransyet>>

(* A rollback first closes a handle that was closed in the transaction,    *)
(* which may be its only record; then it logs its beginning.               *)
isrollback(p) ==
  LET first == ivbintrans[p] = "begin"
      null  == first /\ ~(file[p] = "shut" /\ p \in itransyet)
      start == IF first /\ ~null THEN <<Mark(p, "BW")>> ELSE <<>>
      end   == IF null THEN <<>> ELSE <<Mark(p, "RW")>>
  IN
  /\ phase = "run"
  /\ ivbintrans[p] \in {"begin", "needflush"}
  /\ ivbintrans' = [ivbintrans EXCEPT ![p] =
                      IF null THEN "begin" ELSE "rollback"]
  /\ IF file[p] = "shut" THEN ivbclose2(p, start, end)
     ELSE log' = log \o end /\ UNCHANGED <<file, itransyet>>
  /\ UNCHANGED <<data, unique>>

(* The changes are undone, unique ids are not, and the handle is closed.   *)
RollbackEnd(p) ==
  /\ phase = "run"
  /\ ivbintrans[p] = "rollback"
  /\ data' = Undone(p)
  /\ ivbintrans' = [ivbintrans EXCEPT ![p] = "none"]
  /\ ivbclose2(p, <<>>, <<>>)
  /\ UNCHANGED unique

Call(p) ==
  /\ \/ isbegin(p) \/ isopen(p) \/ isclose(p)
     \/ iswrite(p) \/ isdelete(p) \/ isrewrite(p)
     \/ isuniqueid(p) \/ issetunique(p)
     \/ iscommit(p) \/ CommitEnd(p) \/ isrollback(p) \/ RollbackEnd(p)
  /\ UNCHANGED <<phase, rec>>

(* The machine goes down.                                                  *)
Crash ==
  /\ phase = "run"
  /\ phase' = "replay"
  /\ UNCHANGED <<run, rec>>

-----------------------------------------------------------------------------
(* isrecover reads the log forwards, one record at a time.                 *)

ircvchecktransNone(i) == FALSE

(* What comes first after a begin record of the process, an end or another *)
(* begin: a transaction that was rolled back is ignored.                   *)
ircvchecktrans(i) ==
  LET ends == {j \in (i + 1)..Len(log) :
                 /\ log[j].proc = log[i].proc
                 /\ log[j].op \in {"BW", "CW", "RW"}}
  IN ends # {} /\ log[Min(ends)].op = "RW"

Reading(op) ==
  phase = "replay" /\ rec.at <= Len(log) /\ log[rec.at].op = op

Advance(r) == [r EXCEPT !.at = @ + 1]

Read(r) ==
  /\ rec' = r
  /\ UNCHANGED <<run, phase>>

Stop(error) ==
  /\ rec' = [rec EXCEPT !.error = error]
  /\ phase' = "done"
  /\ UNCHANGED run

(* A record of an ignored transaction is skipped; any other does r, or     *)
(* stops the recovery.                                                     *)
Replay(ok, r, error) ==
  IF rec.trans[log[rec.at].proc] = "ignored" THEN Read(Advance(rec))
  ELSE IF ok THEN Read(Advance(r))
  ELSE Stop(error)

(* The record is of a handle that must be open.                            *)
ReplayOpen(ok, r, error) ==
  LET open == rec.handle[log[rec.at].proc] # 0 IN
  Replay(open /\ ok, r, IF open THEN error ELSE "ENOTOPEN")

(* A call that leaves the table with unique id u: its ivbenter reads the   *)
(* dictionary into the handle it is made on, no other handle sees it.      *)
Enter(r, u) ==
  [r EXCEPT !.unique = u,
            !.seen = [@ EXCEPT ![rec.handle[log[rec.at].proc]] = u]]

ircvbegin ==
  /\ Reading("BW")
  /\ Read(Advance([rec EXCEPT !.trans[log[rec.at].proc] =
             IF ircvchecktrans(rec.at) THEN "ignored" ELSE "replayed"]))

(* A commit or a rollback forgets the transaction.                         *)
Forget ==
  LET p == log[rec.at].proc IN
  IF rec.trans[p] = "none" THEN Stop("EBADLOG")
  ELSE Read(Advance([rec EXCEPT !.trans[p] = "none"]))

ircvcommit   == Reading("CW") /\ Forget
ircvrollback == Reading("RW") /\ Forget

(* The handle of the isopen that is replayed: one that was closed before,  *)
(* its dictionary as it was, or a new one, which reads it.  isclose closes *)
(* no file here: the recovery counts as a transaction.                     *)
Closed == 1..Len(rec.seen) \ {rec.handle[p] : p \in Proc}
ReplayHandle == IF Closed = {} THEN Len(rec.seen) + 1 ELSE Min(Closed)

ircvfileopen ==
  LET p == log[rec.at].proc IN
  /\ Reading("FO")
  /\ Replay(rec.handle[p] = 0,
            [rec EXCEPT !.handle[p] = ReplayHandle,
                        !.seen = IF Closed = {} THEN Append(@, rec.unique)
                                 ELSE @],
            "ENOTOPEN")

ircvfileclose ==
  /\ Reading("FC")
  /\ ReplayOpen(TRUE, [rec EXCEPT !.handle[log[rec.at].proc] = 0], "")

ircvinsert ==
  LET r == log[rec.at].number
      k == log[rec.at].new
  IN
  /\ Reading("IN")
  /\ ReplayOpen(rec.data[r] = NoKey /\ ~Duplicate(rec.data, k, r),
                Enter([rec EXCEPT !.data[r] = k], rec.unique), "EDUPL")

ircvdelete ==
  LET r == log[rec.at].number IN
  /\ Reading("DE")
  /\ ReplayOpen(rec.data[r] # NoKey,
             Enter([rec EXCEPT !.data[r] = NoKey], rec.unique), "ENOREC")

ircvupdate ==
  LET r == log[rec.at].number
      k == log[rec.at].new
  IN
  /\ Reading("UP")
  /\ ReplayOpen(rec.data[r] # NoKey /\ ~Duplicate(rec.data, k, r),
                Enter([rec EXCEPT !.data[r] = k], rec.unique),
                IF rec.data[r] = NoKey THEN "ENOREC" ELSE "EDUPL")

(* The number handed out must be the one that comes next, by the dictionary*)
(* that the handle has seen last: it is compared before the ivbenter.      *)
ircvuniqueid ==
  /\ Reading("UN")
  /\ ReplayOpen(rec.seen[rec.handle[log[rec.at].proc]] = log[rec.at].number,
                Enter(rec, rec.unique + 1), "EBADFILE")

ircvsetunique ==
  /\ Reading("SU")
  /\ ReplayOpen(TRUE, Enter(rec, Max({rec.unique, log[rec.at].number})), "")

(* After the last record may come one that the crash cut off: more of it   *)
(* than its length, less than all.  The transactions that never ended are  *)
(* forgotten: their changes stay.                                          *)
irollbackall ==
  /\ phase = "replay"
  /\ rec.at > Len(log)
  /\ \E error \in {"none", "torn"} : Stop(error)

isrecover ==
  \/ ircvbegin \/ ircvcommit \/ ircvrollback
  \/ ircvfileopen \/ ircvfileclose
  \/ ircvinsert \/ ircvdelete \/ ircvupdate
  \/ ircvuniqueid \/ ircvsetunique
  \/ irollbackall

Next == (\E p \in Proc : Call(p)) \/ Crash \/ isrecover

Spec == Init /\ [][Next]_vars

-----------------------------------------------------------------------------
(* Properties.                                                             *)

(* Every value has its type. *)
TypeOK ==
  /\ data \in [Row -> {NoKey} \union UNION {KeyOf[p] : p \in Proc}]
  /\ unique \in 1..MaxId
  /\ file \in [Proc -> {"new", "open", "shut", "closed"}]
  /\ itransyet \subseteq {p \in Proc : file[p] \in {"open", "shut"}}
  /\ rec.at \in 1..(Len(log) + 1)

(* The tables when the machine went down, without what a rollback was      *)
(* about to undo.                                                          *)
Expected ==
  [r \in Row |->
     IF \E p \in Proc : ivbintrans[p] = "rollback" /\ r \in Touched(p)
     THEN Before(CHOOSE p \in Proc :
                   ivbintrans[p] = "rollback" /\ r \in Touched(p), r)
     ELSE data[r]]

(* The position is in a transaction that was rolled back.                  *)
RolledBack(i) ==
  \E j \in 1..i :
    /\ log[j] = Mark(log[i].proc, "BW")
    /\ ircvchecktrans(j)
    /\ \A k \in j..i : log[k] # Mark(log[i].proc, "RW")

(* The position of the last record of p before position i.                 *)
LastOf(i, p) == Max({0} \union {j \in 1..(i - 1) : log[j].proc = p})

(* A handle was opened while another process had one open.                 *)
Together(i) ==
  \E b \in 1..i, q \in Proc :
    /\ log[b].op = "FO" /\ q # log[b].proc
    /\ LastOf(b, q) # 0
    /\ log[LastOf(b, q)].op \in {"FO", "IN", "DE", "UP", "UN", "SU"}

(* A unique id was handed out or set since the process of record i used    *)
(* its handle, or before it opened it with the record before.              *)
Behind(i) ==
  LET last == LastOf(i, log[i].proc) IN
  \E j \in 1..(i - 1) :
    log[j].op \in {"UN", "SU"} /\ (j > last \/ log[last].op = "FO")

(* Whenever the machine goes down, a recovery that comes to the end of the *)
(* log has made the rows what they were.  It stops before that at a close  *)
(* that follows the rollback of the transaction that opened the handle, or *)
(* at a unique id, and there for one of two reasons: another was handed    *)
(* out in a transaction that was rolled back, or handed out without the    *)
(* handle of this one seeing it, when processes had the table open         *)
(* together.                                                               *)
RecoveryExact ==
  phase = "done" =>
    CASE rec.error \in {"none", "torn"} -> rec.data = Expected
      [] rec.error = "ENOTOPEN" ->
           /\ log[rec.at].op = "FC"
           /\ log[LastOf(rec.at, log[rec.at].proc)].op = "RW"
      [] rec.error = "EBADFILE" ->
           /\ log[rec.at].op = "UN"
           /\ \/ \E i \in 1..rec.at :
                   log[i].op \in {"UN", "SU"} /\ RolledBack(i)
              \/ Together(rec.at) /\ Behind(rec.at)
      [] OTHER -> FALSE

(* A recovery comes to the end of the log (ChangeLog:236, "Fixed up the    *)
(* isrecover () code to truly recover things as it should!").              *)
RecoveryEnds == phase = "done" => rec.error \in {"none", "torn"}
=============================================================================
