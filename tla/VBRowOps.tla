------------------------------ MODULE VBRowOps ------------------------------
(***************************************************************************)
(* A row and its keys: iswrite.c, isdelete.c, isrewrite.c, and the indexes *)
(* isbuild.c adds and drops.  A call changes the indexes one after the     *)
(* other and then the row; it may fail in between, and nothing is undone.  *)
(*                                                                         *)
(* An index is the sequence of its entries (VBTree shows that the tree is  *)
(* one); the row numbers come from VBFreeList.  The table is open without  *)
(* ISTRANS (VBTrans has the transactions) and with ISEXCLLOCK, which       *)
(* isaddindex and isdelindex ask for.  Memory for a key may run out in an  *)
(* insertion, and the write of the row may fail: `f' is the index at which *)
(* a call fails, RowFault the row, NoFault nothing.                        *)
(***************************************************************************)
EXTENDS Integers, SequencesExt

CONSTANTS
  MaxRow,    (* bound on the row numbers                                   *)
  MaxVal,    (* [Parts -> Nat]: a key is 0..MaxVal[p], 0 all null          *)
  MaxDup,    (* bound on the duplicate numbers                             *)
  Parts,     (* the keys an index may be built on: 1 is the primary        *)
  IsDups,    (* those with ISDUPS                                          *)
  NullKey,   (* those with NULLKEY                                         *)
  MaxFailed  (* bound on the calls that fail half way                      *)

ASSUME RowOpsAssumption ==
  /\ {MaxRow, MaxDup, MaxFailed} \subseteq Nat
  /\ MaxVal \in [Parts -> Nat]
  /\ 1 \in Parts
  /\ IsDups \subseteq Parts \ {1} /\ NullKey \subseteq Parts \ {1}

NoFault  == 0
RowFault == -1

VARIABLES
  index,     (* pskeydesc and the trees: one record for each index         *)
  data,      (* the data file: [Row -> values, or NoRow if deleted]        *)
  count,     (* cdatacount                                                 *)
  failed,    (* history: the calls that failed after they had changed      *)
             (* something                                                  *)
  lost,      (* history: a row without a key in some index was deleted     *)
  crashed    (* the library followed a NULL pointer                        *)

vars == <<index, data, count, failed, lost, crashed>>

Row    == 1..MaxRow
Val    == UNION {0..MaxVal[p] : p \in Parts}
Values == {v \in [Parts -> Val] : \A p \in Parts : v[p] <= MaxVal[p]}
NoRow  == [p \in {} |-> 0]

Entries == [k : Val, d : 0..MaxDup, r : Row]
Live    == {r \in 1..count : data[r] # NoRow}

(* index[i].missed is history: the row that was the last of the file when  *)
(* the index was added, 0 if that place was free.                          *)
Index(p, ents, missed) == [part |-> p, ents |-> ents, missed |-> missed]
Entry(k, d, r)         == [k |-> k, d |-> d, r |-> r]

-----------------------------------------------------------------------------
(* One index: an outcome is its entries, and what the call on it gave.     *)

Below(e, k, d) == e.k < k \/ (e.k = k /\ e.d < d)

(* ivbkeysearch (ISGTEQ): the first place that is not below.               *)
Place(s, k, d) == 1 + Cardinality({i \in DOMAIN s : Below(s[i], k, d)})

(* ISGREAT and then ISPREV: the number for one more entry of the key, 0 if *)
(* there is none.                                                          *)
NumberFromLast(s, k, i) ==
  IF i > 1 /\ s[i - 1].k = k THEN s[i - 1].d + 1 ELSE 0

(* tdupnumberFirst, ConflictsNever and the like are slips that no code     *)
(* here makes and no action uses: variants the properties must tell from   *)
(* it.                                                                     *)
tdupnumberFirst(s, k) == 0

tdupnumber(s, k) == NumberFromLast(s, k, Place(s, k, MaxDup + 1))

Suppressed(p, k) == p \in NullKey /\ k = 0

ivbkeyinsert(ix, k, d, r) ==
  IF Suppressed(ix.part, k) THEN ix
  ELSE [ix EXCEPT !.ents = InsertAt(@, Place(@, k, d), Entry(k, d, r))]

(* ivbkeylocaterow: the place of an entry of the row, which is the one     *)
(* with its key or, if it happens to be current, another that a failed     *)
(* call has left; or else where the walk along the key ended: one behind   *)
(* the key, or at the last entry.  Place Len + 1 is the dummy of the tree. *)
EndOfWalk(s, k) ==
  LET start == Place(s, k, 0)
      after == {i \in DOMAIN s : i > start /\ s[i].k # k}
  IN CASE start > Len(s)                -> start
       [] start <= Len(s) /\ after # {} -> Min(after)
       [] OTHER                         -> Len(s)

ivbkeylocaterow(s, k, r) ==
  LET own    == {i \in DOMAIN s : s[i].r = r}
      walked == {i \in own : s[i].k = k}
  IN own \union (IF walked = {} THEN {EndOfWalk(s, k)} ELSE {})

Found(ix, at, r) == at <= Len(ix.ents) /\ ix.ents[at].r = r

(* Where the call finds the row: a place for each index.                   *)
Locations(r) ==
  LET of(i) == ivbkeylocaterow(index[i].ents, data[r][index[i].part], r)
  IN {at \in [DOMAIN index -> UNION {of(i) : i \in DOMAIN index}] :
        \A i \in DOMAIN index : at[i] \in of(i)}

-----------------------------------------------------------------------------
(* The loops over the indexes of the table.                                *)

EDUPL(v) ==
  \E i \in DOMAIN index :
    /\ index[i].part \notin IsDups
    /\ \E e \in Range(index[i].ents) : e.k = v[index[i].part]

NumbersFit(v) ==
  \A i \in DOMAIN index : tdupnumber(index[i].ents, v[index[i].part]) <= MaxDup

(* Step 2 of irowinsert: the indexes before the one that fails keep the    *)
(* key ("BUG - do something SANE here").                                   *)
irowinsertFirst(v, r, f) ==
  [i \in DOMAIN index |->
     IF i > 1 \/ i = f THEN index[i]
     ELSE ivbkeyinsert(index[i], v[1], 0, r)]

irowinsert(v, r, f) ==
  [i \in DOMAIN index |->
     LET p == index[i].part IN
     IF f # NoFault /\ f # RowFault /\ i >= f THEN index[i]
     ELSE ivbkeyinsert(index[i], v[p], tdupnumber(index[i].ents, v[p]), r)]

(* Step 1 of irowdelete and step 2 of irowupdate.                          *)
RowPresent(at, r) ==
  \A i \in DOMAIN index :
    index[i].part \in NullKey \/ Found(index[i], at[i], r)

(* Step 2 of irowdelete takes out what step 1 left current in each index,  *)
(* found or not.  The dummy leaves a list that ends in NULL.               *)
irowdelete(at) ==
  [i \in DOMAIN index |-> [index[i] EXCEPT !.ents = RemoveAt(@, at[i])]]

DeletesDummy(at) == \E i \in DOMAIN index : at[i] > Len(index[i].ents)

(* Step 1 of irowupdate: the first entry of a new unique key is another    *)
(* row's.                                                                  *)
ConflictsNever(v, r) == FALSE

Conflicts(v, r) ==
  \E i \in DOMAIN index :
    LET s == index[i].ents
        k == v[index[i].part]
        j == Place(s, k, 0)
    IN /\ index[i].part \notin IsDups
       /\ j <= Len(s) /\ s[j].k = k /\ s[j].d = 0
       /\ s[j].r # r

(* Step 3 for one index.  A key that was not present is not searched for   *)
(* again: the number comes from the entry before the place where           *)
(* ivbkeylocaterow gave up.                                                *)
Changed(ix, at, v, r) == Found(ix, at, r) => ix.ents[at].k # v[ix.part]

Without(ix, at, r) ==
  IF Found(ix, at, r) THEN [ix EXCEPT !.ents = RemoveAt(@, at)] ELSE ix

NewNumber(ix, at, v, r) ==
  LET k == v[ix.part]
      s == Without(ix, at, r).ents
  IN CASE ix.part \notin IsDups -> 0
       [] ix.part \in IsDups /\ Found(ix, at, r) -> tdupnumber(s, k)
       [] OTHER -> NumberFromLast(s, k, at)

Updated(ix, at, v, r) ==
  ivbkeyinsert(Without(ix, at, r), v[ix.part], NewNumber(ix, at, v, r), r)

irowupdate(at, v, r, f) ==
  [i \in DOMAIN index |->
     LET ix == index[i] IN
     CASE ~Changed(ix, at[i], v, r) \/ (f > 0 /\ i > f) -> ix
       [] Changed(ix, at[i], v, r) /\ i = f -> Without(ix, at[i], r)
       [] OTHER -> Updated(ix, at[i], v, r)]

(* imakekeysfromdata: the rows from 1 to cdatacount - 1.                   *)
imakekeysfromdata(p) ==
  LET missed == IF count \in Live THEN count ELSE 0
      made[r \in 0..MaxRow] ==
        IF r = 0 THEN Index(p, <<>>, missed)
        ELSE LET ix == made[r - 1] IN
             IF data[r] = NoRow THEN ix
             ELSE ivbkeyinsert(ix, data[r][p], tdupnumber(ix.ents, data[r][p]),
                               r)
  IN made[IF count = 0 THEN 0 ELSE count - 1]

-----------------------------------------------------------------------------
Init ==
  /\ index = <<Index(1, <<>>, 0)>>
  /\ data = [r \in Row |-> NoRow]
  /\ count = 0
  /\ failed = 0
  /\ lost = FALSE
  /\ crashed = FALSE

(* tvbdataallocate and ivbdatafree (VBFreeList).                           *)
FreeRows == (1..count) \ Live
tvbdataallocate ==
  IF FreeRows # {} THEN FreeRows ELSE {count + 1}

ivbdatafreeTwice(c, r) == IF r = c THEN c - 2 ELSE c

ivbdatafree(c, r) == IF r = c THEN c - 1 ELSE c

(* What fails in a call: an insertion, or the write of the row.            *)
Faults(v) ==
  {NoFault} \union
    (IF failed = MaxFailed THEN {}
     ELSE {RowFault} \union {i \in DOMAIN index :
                               ~Suppressed(index[i].part, v[index[i].part])})

Count(f) == IF f = NoFault THEN failed ELSE failed + 1

(* iswrite and iswrcurr.                                                   *)
Write(v, f) ==
  \E r \in tvbdataallocate \intersect Row :
    LET c == IF r > count THEN r ELSE count IN
    /\ ~crashed
    /\ ~EDUPL(v)
    /\ NumbersFit(v)
    /\ index' = irowinsert(v, r, f)
    /\ IF f = NoFault
       THEN data' = [data EXCEPT ![r] = v] /\ count' = c
       ELSE count' = ivbdatafree(c, r) /\ UNCHANGED data
    /\ failed' = Count(f)
    /\ UNCHANGED <<lost, crashed>>

(* iprocessdelete: isdelete, isdelcurr and isdelrec.                       *)
Delete(r) ==
  \E at \in Locations(r) :
    /\ ~crashed
    /\ RowPresent(at, r)
    /\ index' = irowdelete(at)
    /\ data' = [data EXCEPT ![r] = NoRow]
    /\ count' = ivbdatafree(count, r)
    /\ lost' = (lost \/ \E i \in DOMAIN index : ~Found(index[i], at[i], r))
    /\ crashed' = DeletesDummy(at)
    /\ UNCHANGED failed

(* isrewrite, isrewcurr and isrewrec.                                      *)
Rewrite(v, r, f) ==
  \E at \in Locations(r) :
    /\ ~crashed
    /\ ~Conflicts(v, r)
    /\ RowPresent(at, r)
    /\ \A i \in DOMAIN index : NewNumber(index[i], at[i], v, r) <= MaxDup
    /\ f > 0 => Changed(index[f], at[f], v, r)
    /\ index' = irowupdate(at, v, r, f)
    /\ data' = IF f = NoFault THEN [data EXCEPT ![r] = v] ELSE data
    /\ failed' = Count(f)
    /\ UNCHANGED <<count, lost, crashed>>

Built == {index[i].part : i \in DOMAIN index}

Unique(s) == \A i, j \in DOMAIN s : s[i].k = s[j].k => i = j

(* isaddindex.  If the new index cannot be filled it is dropped again.     *)
AddIndex(p) ==
  LET ix == imakekeysfromdata(p) IN
  /\ ~crashed
  /\ p \notin Built
  /\ p \in IsDups \/ Unique(ix.ents)
  /\ \A e \in Range(ix.ents) : e.d <= MaxDup                        \* bound
  /\ index' = Append(index, ix)
  /\ UNCHANGED <<data, count, failed, lost, crashed>>

(* isdelindex: the indexes behind it move up.                              *)
DelIndex(i) ==
  /\ ~crashed
  /\ i > 1
  /\ index' = RemoveAt(index, i)
  /\ UNCHANGED <<data, count, failed, lost, crashed>>

Next ==
  \/ \E v \in Values : \E f \in Faults(v) : Write(v, f)
  \/ \E r \in Live : Delete(r)
  \/ \E v \in Values, r \in Live : \E f \in Faults(v) : Rewrite(v, r, f)
  \/ \E p \in Parts : AddIndex(p)
  \/ \E i \in DOMAIN index : DelIndex(i)

Spec == Init /\ [][Next]_vars

-----------------------------------------------------------------------------
TypeOK ==
  /\ \A i \in DOMAIN index :
       /\ index[i].part \in Parts
       /\ Range(index[i].ents) \subseteq Entries
       /\ index[i].missed \in 0..MaxRow
  /\ data \in [Row -> Values \union {NoRow}]
  /\ count \in 0..MaxRow
  /\ failed \in 0..MaxFailed
  /\ {lost, crashed} \subseteq BOOLEAN

(* An index has exactly one entry for each row, with the key that the row  *)
(* has, but for the rows whose key is suppressed and the row isaddindex    *)
(* passes over.                                                            *)
Expected(ix) ==
  {<<data[r][ix.part], r>> : r \in {s \in Live :
                                      ~Suppressed(ix.part, data[s][ix.part])}}

Exact(ix) ==
  LET present == {<<e.k, e.r>> : e \in Range(ix.ents)} IN
  /\ Len(ix.ents) = Cardinality(present)
  /\ present \subseteq Expected(ix)
  /\ \A pair \in Expected(ix) \ present : pair[2] = ix.missed

(* So it is as long as no call has failed half way and no row with a       *)
(* suppressed key has been deleted.                                        *)
IndexesExact ==
  failed = 0 /\ ~lost => \A i \in DOMAIN index : Exact(index[i])

(* isdelete.c:43 expects the key of a row to be missing from an index with *)
(* NULLKEY: such a row can be deleted as any other, when no call failed    *)
(* and isaddindex passed over no row.  It cannot: the deletion takes       *)
(* another row's key, or the dummy.                                        *)
NullKeysDeleted ==
  failed = 0 /\ (\A i \in DOMAIN index : index[i].missed = 0) =>
    \A i \in DOMAIN index : Exact(index[i])

(* Whatever has failed, a unique index never has a key for two rows: the   *)
(* keys that a failed call leaves behind block their value.                *)
UniqueRows ==
  \A i \in DOMAIN index :
    index[i].part \notin IsDups =>
      \A e, g \in Range(index[i].ents) : e.k = g.k => e.r = g.r

(* Whatever has failed, the entries of an index with duplicates ascend: a  *)
(* new duplicate comes last, and no two have the same number. Not so in an *)
(* index that has NULLKEY as well (MCVBRowOpsDups.cfg): a row whose key was*)
(* suppressed gets its number from where ivbkeylocaterow gave up.          *)
EntriesOrdered ==
  \A i \in DOMAIN index :
    index[i].part \in IsDups =>
      \A j \in 2..Len(index[i].ents) :
        LET s == index[i].ents IN Below(s[j - 1], s[j].k, s[j].d)
=============================================================================
