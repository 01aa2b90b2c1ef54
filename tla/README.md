# A formal model of pyisam and its ISAM library

The repository holds two things: `pyisam`, a Python interface to ISAM tables,
and `libvbisam`, the C library (a fork of VBISAM) that does the work. The
behaviour that is hard to get right and hard to test is all in the library:
several processes share the files of a table with no server between them, and
whatever keeps them apart is byte range locks, a transaction number in the
dictionary of the table, and a log. This project models that core in TLA+,
checks it with TLC and proves most of it with TLAPS.

Paths below are relative to `src/`; C files without a directory are in
`src/libvbisam/`.

## 1. The system and its parts

A table is a data file of numbered rows (`.dat`) and an index file (`.idx`) of
numbered nodes. Node 1 of the index file is the *dictionary* (`struct DICTNODE`,
isinternal.h:479): the row count, the node count, the heads of the free lists
and a transaction number. A process opens a table through *handles*. Every call
on a table is bracketed by `ivbenter`, which locks and reads the dictionary, and
`ivbexit`, which writes it back and unlocks it (vblocking.c). In a transaction
a call also locks the rows it changes and writes a record to the log.

| Part | State | Operations | What is hard | What makes it correct |
|---|---|---|---|---|
| Space allocator, vbindexio.c | row and node counts, the data free list and the node free list, kept in nodes of the index file | `tvbdataallocate`, `ivbdatafree`, `ivbforcedataallocate`, `tvbnodeallocate`, `ivbnodefree` | a node changes roles (tree, row list, node list); a write fails between two writes of a call; a recovery asks for one particular row | a number is never handed out twice; no free row is lost; the lists are reachable |
| Row and file locks, vblocking.c, vblowlevel.c | `fcntl` locks (per process), the VBLOCK list of a file, `iisdatalocked`, `iisopen` | isopen, isclose, isread with a lock mode, isrelease, isrelrec, islock, isunlock, isbegin, iscommit, isrollback | `fcntl` knows processes, not handles; the loop that frees the list walks over freed blocks; islock is two steps; a close may be put off by a transaction | a lock lasts as long as it is held, and not longer than the handles |
| Dictionary lock and node cache, vblocking.c, isopen.c, vbnodememio.c | the dictionary in the file and in each handle, the transaction number, nodes in memory | `ivbenter`, `ivbexit`, `ivbnodeload`, `ivbnodesave`, opening and closing | stale nodes; stale dictionary; handles open with ISEXCLLOCK skip the whole protocol; a call fails half way | one writer at a time; a call works on current nodes; no update is lost |
| Transactions, istrans.c | the log, the state of the process (`ivbintrans`), row locks | isbegin, iscommit, isrollback, one log record for each change | a rollback is a series of ordinary calls between which others work; it may have lost the locks of the rows it undoes; keys and rows are given back at different times; two bytes for a process number | atomicity; no row freed twice; no duplicate key after a rollback |
| Row operations, iswrite.c, isdelete.c, isrewrite.c | the row, its key in every index | insert, delete, rewrite | a failure on the second index; an index that has no key for the row (NULLKEY) | every row is in every index once |
| Reading, isread.c | the position (`trowstart`, `trownumber`, `iisdisjoint`) | isstart, isread in eight modes | the row under the cursor is deleted by another process | a scan sees every row that stays, once |
| Key trees, vbkeysio.c, vbnodememio.c | nodes with keys in order, duplicates numbered; in memory, which nodes are the first and the last of their level | insert, split, delete, search, step | a split that reaches the root; an empty node; separators of deleted entries; marks that go stale in memory | order, no node and no key lost, every entry found |
| Variable length rows, vbdataio.c | full nodes and nodes of tails, on lists by their free space | write, read, delete of a tail | nodes that move between lists; tails that move in a node | a row reads back what was written |
| Building and indexes, isbuild.c | key descriptors | isbuild, isaddindex, isdelindex, isrename, iserase | isaddindex that fails | an index holds every row |
| Recovery, isrecover.c | the log, for each process in it its transaction and its open tables, for each handle a copy of the dictionary | isrecover | a log cut off anywhere; records of an ending transaction on both sides of its end; copies of the dictionary that are behind the table | the rows are what they were |
| Check and repair, ischeck.c | bit maps of rows and nodes | vbcheck | none: exclusive and sequential | - |
| Memory pools, vbmemio.c | free lists of blocks, keys and trees | allocate, free | the reuse of a VBLOCK while the list is walked (modelled with the locks) | - |
| Decimals, compatibility, audit | none | conversions, stubs | numeric edges | - |
| pyisam: tables, records, backends, definitions, utilities | the last index and mode of `ISAMtable.read` | one library call each | a cursor that changes index | - |

How they interact: the row operations call the allocator for a row, the trees
call it for nodes, both inside the dictionary lock. Opening and closing, reading
and the ends of transactions call the locks. A rollback calls the row operations
again. The dictionary that the allocator changes in memory is what `ivbexit`
writes. Nothing ever blocks: the library is built without `HAVE_STRUCT_FLOCK64`
and vblowlevel.c:35 defines `F_SETLKW` as `F_SETLK`, so a lock that is refused
fails the call (EFLOCKED, ELOCKED), in the waiting modes too.

`PROJECT.json` lists every component with its status and every hazard with its
line and the properties that cover it.

## 2. The modules

| Module | Models | Abstract specification |
|---|---|---|
| `VBSpace` | what an allocator of rows and nodes promises | |
| `VBFreeList` | vbindexio.c with its callers | implements `VBSpace` |
| `VBLocks` | vblocking.c (rows, open byte), the callers in isopen.c, isread.c, ishelper.c, istrans.c | |
| `VBDictCache` | `ivbenter`, `ivbexit`, the open and close paths, node cache | |
| `VBAtomic` | what transactions promise | |
| `VBTrans` | istrans.c with the changes it logs | implements `VBAtomic`, under a discipline, see 3.4 |
| `VBIndex` | what an index promises | |
| `VBTree` | vbkeysio.c, vbnodememio.c and the positioning of isread.c | implements `VBIndex` |
| `VBRowOps` | a row in several indexes: iswrite.c, isdelete.c, isrewrite.c, isaddindex and isdelindex of isbuild.c | |
| `VBVarlen` | vbdataio.c: the tails of rows of variable length | |
| `VBRecover` | the log of istrans.c and isopen.c, a crash, and isrecover.c | |
| `MC...` | values for the constants | |
| `VBFreeListProofs` | proofs about `VBFreeList`: lemmas about linked lists; the operations, the loops, the refinement | |
| `VBLocksProofs` | proofs about `VBLocks` | |
| `VBDictCacheProofs` | proofs about `VBDictCache` | |
| `VBTransProofs` | proofs about `VBTrans`: types, keys, locks, free list; rollback and the refinement | |
| `VBTreeProofs` | proofs about `VBTree`: the bisection, searches and steps; splits and collapses; the shape of the tree | |
| `VBTreeOrderProofs` | proofs about `VBTree`: the order of the entries, the marks in memory, what searches and steps find; the refinement | |
| `VBRowOpsProofs` | proofs about `VBRowOps` | |
| `VBRecoverProofs` | proofs about `VBRecover`: what a record more does to a log; the calls; the replay | |

The modules stand on each other by what they promise, one level for each:

* `VBFreeList` is the allocator node by node. `VBTrans` has it as a sequence of
  free rows, `VBRowOps`, `VBTree`, `VBVarlen` and `VBRecover` as a set of free
  numbers: which node carries a number makes no difference to them.
* `VBTree` shows that a tree is a set of ordered entries (`VBIndex`); `VBRowOps`
  has an index as the sequence of its entries.
* `VBLocks` has the machinery of row locks; `VBTrans` has the owner of each row.
  `VBRecover` needs neither: a transaction keeps others from its rows by the keys
  they hold and by the free list.
* `VBDictCache` is why all the others may treat a call as one step: `WriterAlone`
  is proved for any number of handles.
* `VBTrans` walks the log record by record in a rollback and a commit;
  `VBRecover` has each walk as one step, so that the replay can be added to it.

In every model a call that is refused without having changed anything is a
stuttering step. Each module also has a few operators that no action uses
(`WithoutKept`, `GrantsWriter`, ...). They are slips a programmer could make;
putting one in the place of the operator it is a variant of must break a
property.

### 2.1 VBFreeList

`idx` is the dictionary and the index file: the counts, the heads of the lists,
and a `tag`, a `next` pointer and the entries of every node. The functions of
vbindexio.c are operators that return the new `idx` and the return value (`Done`,
`Refuse`, `Fail`). Their argument `f` says which block write of the call fails, so
the state after a partial failure is the one the code leaves. `AllocRow`,
`FreeRow`, `AllocNode`, `FreeNode` are the callers. `ivbforcedataallocate` loops,
and each turn is an action: `ForceBeyond`, `GapRow`, `GapDone` for a row past the
end of the file, `ForceWithin`, `ScanNext`, `ScanFound`, `ScanEnd` for the search
of the list. `live` and `owned` are what the callers hold; `datalist`, `nodelist`
and `torn` are history.

A list node that runs empty in the middle of the data free list is unlinked and
given to nobody (vbindexio.c:437): it is lost until a repair. The model does the
same, and no property says that every node is accounted for.

`Loop` is what a call of `ivbforcedataallocate` that is under way does next; it is
what the fairness of 3.9 is about.

### 2.2 VBLocks

`vblock[p]` has the sorted list of VBLOCK blocks of a process and its free list.
`UnlockLoop` is the loop of `ivbdatalock` (435-450), which deletes the block it
stands on and then follows its `psnext` - by now the pointer of the free list -
and so visits blocks freed earlier. `os` and `openlock` are what `fcntl` knows.
`islock` is two actions, because the code unlocks the rows one by one and then
asks for the range. A close in a transaction only sets `iisopen` to 1
(`closing`), and an isopen after it takes the handle back without a lock.
`held` is history.

### 2.3 VBDictCache

`file` is the dictionary in the file, `sdictnode[h]` the copy of a handle;
`pstree[h]` says whether its nodes are absent, those of the file, or older.
`ivbenter`, then any number of `LoadNodes`, `ivbnodesave`, `ChangeDict`, then
`FinishRead`, `FinishModify` or `FailModify` make up a call. Opening with
ISEXCLLOCK is two actions, because the dictionary is read before the open byte is
locked (vblocking.c:398). `world` says which things happen in a behaviour: tables
opened with ISEXCLLOCK, faults, crashes. A property about shared handles says so
by its premise on `world`.

### 2.4 VBTrans

A row is its primary key. iswrite, isdelete and isrewrite are one action each
(row, key, free list, log). isrollback and iscommit start a walk of the log;
every record is a step (`UndoInsert`, `UndoUpdate`, `UndoDelete`, `UndoFails`,
`CommitStep`), as the code locks and unlocks the dictionary for each. `Busy` lets
other processes read, so that a call of a rollback may find the dictionary locked
and end the walk half way. On x86 a process number is stored in 16 bits without
sign (`Short`).

`file` is the handle of a process in its transaction. isclose puts the close off
(`shut`), isopen takes it back. isrollback closes such a handle at once
(istrans.c:703), and `fcntl` then drops every lock of the process on the table,
before anything is undone; the walk meets the close record first and opens the
table again (`Reopen`), without ISTRANS, so that what it undoes from there on is
undone without locks (`plain`). isrelrec and isunlock give up locks of rows that
the transaction changed, too. `letgo` is history: these rows.

The walks have one table and one open record, which is the first of a transaction.
An open record in the middle of a transaction (a second table, or isfullclose and
isopen) is not modelled: the branch for it in both walks (istrans.c:373, 504) calls
isclose, whose `ivbtransclose` writes its record through the buffer the walk reads
its records into, so the walk loses its place there and ends with EBADFILE, and
what was logged before that record is neither undone nor freed.

### 2.5 VBTree

`tree` is the index file: for each node its level and its entries, each with a key,
a duplicate number and a child. The root keeps number 1, as `k_rootnode` never
changes. The dummy entry that ends each node in memory is position `Len + 1`.
A search (`itreeload`) is the bisection of the code, width by width (`bisect`),
because where it stops for a key that is not there matters to those who step on
from it. (5.7 has the proof that it stops where it should.)

`mem` is which nodes the handle has in memory with their marks `iistof` and
`iiseof`. They are set when a node is loaded and moved by a split, and nothing
else updates them, so a step along the index depends on the history of the
memory. Where the code follows a NULL pointer (`ivbkeyload` past an unmarked edge,
`ivbkeydelete` past the root) the outcome is `null` and the action `Crash`:
nothing was written, the process is gone. `Reload` is the other handle's change
that makes `ivbenter` drop the memory. The eviction of nodes by level in `ivbexit`
(`IVBBUFFERLEVEL` is 4) cannot happen in a tree of three levels.

The compression of keys is abstracted: a node holds `Cap` entries and splits
where the code splits a node of entries of the largest length. An operation is an
action: `Insert` (with the search for the duplicate number that `irowinsert`
makes), `Delete`, `Read` and `Move`, each with the positioning it does first.

### 2.6 VBRowOps

`index` is the sequence of the indexes of a table, `data` its rows. A row is a value
for each key; value 0 is the all-null key that NULLKEY suppresses. `irowinsert`,
`irowdelete` and `irowupdate` take the index at which they fail, and what was done
before stays, as in the code. `ivbkeylocaterow` gives the place where the search
for a row's key ends even if the row is not there, since step 2 of `irowdelete`
and step 3 of `irowupdate` go on from it. `imakekeysfromdata` fills a new index
from row 1 to the row before the last (isbuild.c:272); `missed` remembers the row
that it passes over. `failed` and `lost` are history, for the premises of the
properties.

### 2.7 VBVarlen

A node of tails (`struct SVARLEN`) has slots, an area of bytes and its place in the
list of its free space. A byte is modelled as the place it has in its row, so that
`RowsReadBack` sees any byte out of place. `ttailnode`, `relocatenode`,
`ivbvarlenwrite`, `ivbvarlenread` and `ivbvarlendelete` are operators; `Write`,
`Rewrite` and `Delete` their callers. The delete of a long row whose tail is in a
slot other than 0 fails half way, since `ivbvarlendelete` takes `cfreecont` for a
node number with the slot still in its top bits: `DeleteFails`, after which the
row is `lost`. A slot is never removed, only emptied (vbdataio.c compares a number
from 0 with the count). Lengths have a unit of their own; `NodeSize <= 127` keeps
`cusedcount`, a signed byte, from overflowing.

### 2.8 VBRecover

Two processes, a handle each, work on an ISTRANS table: `Logged` writes the begin
record and the open record before the first change, as `ivbtransinsert` and the
others do, `ivbclose2` the close record. `Crash` takes the machine down between any
two steps. Then `isrecover` reads the log, one record at a step, on the table as it
was when the log was empty: `ircvbegin` looks ahead for the end of the transaction
(`ircvchecktrans`), and the others replay a record, skip it, or stop. A last
record that the crash cut off is an error of its own (`torn`).

isrecover has a handle of its own for each process that has the table open in the
log, and each handle a copy of the dictionary (`rec.seen`, of which only the unique
id matters). A handle reads the dictionary in its own `ivbenter` (`Enter`) and when
isopen makes it; isopen takes a handle that was closed before as it is
(`ReplayHandle`, isopen.c:319). `ircvuniqueid` compares the record with the copy
before its `ivbenter` (isrecover.c:570), so with what this handle saw last.

## 3. The runs

| Run | Bounds | States | Result |
|---|---|---|---|
| `freelist` | 4 rows, 7 nodes, 2 numbers a node, any write may fail | 1 988 008 | holds |
| `freelist_chain` | 5 rows, 6 nodes, 1 number a node, any write may fail | 229 917 | holds, with fairness |
| `locks` | 2 processes, a handle each, 2 rows, 2 blocks | 500 348 | holds |
| `dictcache` | 2 handles, transaction number to 4, 3 dictionary changes; no happenings, faults and crashes, or everything | 2 067 227 | holds |
| `trans` | 2 processes with keys {a, b} and {c}, 2 rows, 7 log records | 532 276 | holds |
| `trans_busy` | 1 process with readers, 2 keys, 3 rows, 8 log records | 751 369 | holds |
| `tree` | 3 keys with 2 duplicates, 2 entries a node, 8 nodes | 14 421 | holds |
| `rowops` | 3 rows, 2 values for each of 3 keys, 2 duplicates, 1 failure | 136 930 | holds |
| `varlen` | 3 rows of 5 lengths, 4 nodes | 79 064 | holds |
| `recover` | 2 processes with keys {a, b} and {c}, 2 rows, 3 unique ids of which issetunique sets one, 8 log records | 11 013 586 | holds |
| `rowops_nullkey` | as `rowops`, no failure | | a counterexample, section 4 |
| `recover_ends` | as `recover` | | a counterexample, section 4 |

Deadlock is checked in `locks`, `dictcache`, `trans` and `trans_busy`. The others
end where their bounds do: space lost to failed writes is never found again, the
process of `VBTree` and `VBRowOps` may be gone, a row of `VBVarlen` may be lost, and
a recovery comes to its end.

### 3.1 freelist

`RowsExclusive` and `NodesExclusive` say that nothing is handed out twice, and
`SpaceSpec` that the lists implement `VBSpace`; these hold whatever block writes of
vbindexio.c fail. (The write of the dictionary at the end of the caller's work,
vblocking.c:308, does not fail in this model.)
`ListsReachable`, `RowsAccounted` and `NoIntegrityError` say that nothing is lost,
and hold as long as no write has failed. With 2 numbers a node, 4 rows are enough
for a data free list of two nodes (three free rows below a live one) and so for
extraction from a node that is not the head; 7 nodes are enough for a node free
list of two nodes (the head with two entries, and the next node pushed in front
of it).

`freelist_chain` has one number in a node, so that five rows make lists of three
and four nodes: there the search of `ivbforcedataallocate` takes nodes out of the
middle of the list. The code never looks past the node it is at, the one before
it and the one it points at. `ForceEnds` says that the search ends, whatever
writes have failed before: a list closed to a ring would keep the dictionary
locked for ever.

### 3.2 locks

`HeldIsLocked` is the promise to callers, `NoLockWithoutHandle` that nothing is
left behind, `ListWellFormed` what the search loops need. Each process has one
handle. With two handles in a process the state space is too large to finish, and
there `HeldIsLocked` fails: the isstart at the end of isopen, and the closing of
any descriptor, drop locks of the other handles of the process, as `fcntl` does.
The same row may then be twice in the list. The model has these behaviours
(`Home` is any function); no run makes claims about them. Two rows are enough for
sorted insertion before and behind a block and for one row kept while another is
released.

### 3.3 dictcache

`WriterAlone` and `DictLockReleased` hold in every world. `SharedCacheCoherent`
holds while handles are shared and no call fails half way: a delete that fails
on its second index leaves `iisdictlocked` at 1 (isdelete.c:162), writes no
transaction number, and others keep stale nodes. `NoLostUpdate` holds among
shared handles in spite of failures and crashes. A transaction number that moves
three times is enough for a handle to be two changes behind; with two handles
each may be the one behind.

### 3.4 trans

`RowsAccounted`, `KeysUnique` and `ChangedIsLocked` are the invariants, `AtomicSpec`
the refinement of `VBAtomic` under the mapping `Committed` (rows before the open
transactions) and `Pending` (what the open transactions made of them).

`ChangedIsLocked` does not say that every row a transaction changed is locked until
its end, because that is not so: the process may give the lock up itself, by
isrelrec or isunlock, and a rollback gives them all up when the table was closed in
the transaction (2.4; the comment at isopen.c:82 says they are retained, section
4). What holds is that nothing else takes the lock of such a row away: no call of
another process, no rollback of another and no step of a walk.

The refinement holds with the locks and without them, but needs a discipline the
library does not impose: a process writes and changes only rows with keys of its
own (`KeyOf`). A delete takes the key out of the index at once, so another process
may take a key that a rollback then cannot put back (section 4). Three keys and
two rows allow a row freed by one process to be taken by another, also in the
middle of a rollback that has lost its locks, and seven records hold two
interleaved transactions with two changes each or one after the other.

In `trans_busy` a rollback may end early. What was not undone stays, so no
atomicity is claimed, but a row with data never gets on the free list
(`FreeRowsDeleted`). A single process writes there: where `ivbenter` fails and the
code goes on (istrans.c:360, 489) the copy of the dictionary is then still
current. With other writers it would not be, which is one of the listed hazards.

### 3.5 tree

`ImplementsIndex` is the refinement: the leaves of the tree, read as a set, are an
index, whatever splits and collapses happen inside. `NodesAccounted` (every node is
free or hangs on one entry) and `TreeOrdered` (separators bound what is below them)
are what the code relies on; `RowsFound`, `MovesSound` and `ReadsSound` what its
callers see: an entry is found from its key, a step neither skips nor ends early,
and a read by key gives the right entry if it gives one, and ENOREC only where
there is none. Where memory is stale the process may die (`crashed`), but no wrong
entry is given. `ReadsSound` leaves out one outcome of a read by key, EENDFILE:
ISGTEQ and ISGREAT may give it too early (section 4).

Two entries are the fewest a node holds; six entries of three keys then make trees
of three levels, so that a split reaches a node that is neither leaf nor root,
and an emptied node has neighbours on both sides.

### 3.6 rowops

One index is primary, one has duplicates, one is unique with NULLKEY; the last two
are added and dropped at any time. `IndexesExact` holds until a call fails half way
or a row is deleted whose key an index suppressed. `UniqueRows` and `EntriesOrdered`
hold whatever fails: what a failed call leaves behind may block a value, but a unique
key never leads to two rows. Three rows and two values give a duplicate before and
behind the one that goes; one failure is enough to leave an entry of a row that is
not there, and the calls after it run into it.

### 3.7 varlen

`RowsReadBack` is what callers see. `NodesExact` says that a node is in the list of
its free space, that lists are linked both ways and that the slots fill a node
without a gap. The lengths are 0, two that share a node, one that fills most of a
node, and one that takes a full node and a tail; three rows put a node between two
others on its list. A tail in slot 1 of a shared node, whose row then cannot be
deleted, happens too.

### 3.8 recover

`RecoveryExact`: if the recovery reaches the end of the log, the rows are those of
the moment of the crash, without the changes of a rollback that had begun. (A
transaction that had neither committed nor begun to roll back keeps its changes:
`irollbackall` only frees its list. The comment at isrecover.c:703 is about
rolling them back.) If it stops before, it stops at one of two places: with ENOTOPEN
at the close record after a rollback, or with EBADFILE at a unique id. There are
two ways to the second. A unique id was handed out or set in a transaction that was
rolled back, so the numbers of the log run ahead of the table's. Or nothing was
rolled back, but two processes had the table open at the same time (`Together`), one
took a unique id, and the other's handle of the recovery, which has not entered the
table since, still has the old one (`Behind`): BW P, FO P, IN P, BW Q, FO Q, UN Q 1,
UN P 2 is such a log. Nothing behind that record is recovered.

Eight records hold this log, and a transaction, a reopened handle and a second
transaction. issetunique sets one id of the three, which may be above the table's
or not.

### 3.9 Fairness

One property needs it. `FairSpec` of `VBFreeList` is `WF_vars(Loop)`: a call of
`ivbforcedataallocate` that is under way takes its next turn. The code justifies it
since the loop waits for nothing - no lock, no other process - so a process that
runs at all goes on. Nothing is assumed about whether a call is made.

Nothing else in the library has liveness of its own: there are no threads, queues
or callbacks, a refused lock fails the call at once, and whether the program calls
again is not in this code.

## 4. What TLC found

Two runs are kept for it:

| Run | Finding |
|---|---|
| `rowops_nullkey` | A row with a null key has no entry in an index with NULLKEY. Step 1 of `irowdelete` knows (isdelete.c:43, "May not be present if key was SUPPRESSED"), step 2 deletes from that index all the same (isdelete.c:61): the entry at which the search gave up, which is another row's. In the run two rows are written, the first with a null key, and the first is deleted: the index then has no entry for the second. (The property leaves out tables with a row that isaddindex passed over: such a row has no entry for another reason, isbuild.c:272.) |
| `recover_ends` | The first open of an ISTRANS table is logged within the first transaction that changes it, and a rollback logs the close after its end. isrecover skips the open with the transaction, meets the close, and stops with ENOTOPEN (isrecover.c:419). |

Other configurations in this directory each show a further disagreement; they are
run by hand:

| Configuration | Property | What it shows |
|---|---|---|
| `MCVBLocksExcl.cfg` | `ExclusiveAlone` | A handle closed within a transaction and opened again with ISEXCLLOCK gets the mode but not the lock (isopen.c:340). |
| `MCVBDictCacheExcl.cfg` | `CacheCoherent` | A closed handle opened again with ISEXCLLOCK keeps its nodes in memory and never compares transaction numbers, so it works on nodes another process has since changed (isopen.c:331, vblocking.c:211). |
| `MCVBTransPlain.cfg` | `FreeRowsDeleted` | In a transaction on a table opened without ISTRANS, isdelete frees the row at once and logs it, and iscommit frees it a second time (istrans.c:499). |
| `MCVBTransKeys.cfg` | `RollbackUndoes` | A key deleted in a transaction can be taken by another process before the rollback, which then fails (isdelete.c:61); ChangeLog:262 says that no key deletion takes effect until the transaction is completed. |
| `MCVBTransClosed.cfg` | `LocksRetained` | A table is closed in a transaction, and isrollback closes the files before it undoes the rows (istrans.c:703-712), which drops their locks; isopen.c:82 says that the close is put off "to make sure that rowlocks held during a transaction are retained". |
| `MCVBTransPid.cfg` | `RollbackUndoes` | The process number is cut to 16 bits in the log; a process above 65535 does not find its records and isrollback undoes nothing, with success (istrans.c:316). |
| `MCVBRowOpsDups.cfg` | `EntriesOrdered` | In an index with ISDUPS and NULLKEY, a row whose key was suppressed has no entry; when it is rewritten to a key that is not null, irowupdate takes the duplicate number from the entry before the place where ivbkeylocaterow gave up (isrewrite.c:94-128), which may be 0 where the key has a duplicate 0 already. Two entries are then equal in the order that ischeck.c:490 checks. The proof attempt of `EntriesOrdered` found it: no run had an index with both. |

And by adding a property to the cfg of a run:

* `GtEqFinds` of `VBTree` fails. A search for a key that is not there may end on the
  dummy of a leaf that is not the last; ISEQUAL then steps on, ISGTEQ and ISGREAT
  give EENDFILE (isread.c:365) although greater keys follow.

Met while reading, without a run: isrollback in a transaction that has changed
nothing returns without leaving the transaction (istrans.c:713); a log record cut
off after one byte makes isrecover lose the last full record; an open record in the
middle of a transaction makes both walks lose their place (2.4). The failure of
isaddindex (isbuild.c:633) is left out of the models, and so is `iquicknodesave`, the
short cut that `ivbnodesave` tries for an index without compression
(vbnodememio.c:454) and that clears from the wrong place when it deletes a
duplicate (vbnodememio.c:83): `Store` of `VBTree` is the write of a whole node at the
end of `ivbnodesave`.

## 5. What is proved

Of the eight modules that model code, seven are proved about: `VBFreeList`,
`VBLocks`, `VBDictCache`, `VBTrans`, `VBTree`, `VBRowOps` and `VBRecover`, with all
the invariants, all the action properties and the three refinements that the
passing runs check of them. The theorems hold for every value of the constants that the named `ASSUME` of the module admits (bounds are natural
numbers, sets are what the code has); where a theorem needs more it says so in its
own `ASSUME`, and below is why. Every inductive invariant was checked with TLC
before it was proved.

Two things are used throughout. Induction over numbers is taken in the form of
`LeastNumber` (a set of counterexamples has a least member),
since the induction theorems of the library take an operator as a parameter, which
the installed provers cannot instantiate. And each module's steps are lemmas of one
operation each, so that the proof of `Next` only puts them together.

### 5.1 VBFreeList

`VBFreeListProofs!Inductive == Spec => []IInv`, with `IInv` made of

* `Sound`: both free lists are linked from their heads and tagged, what is listed
  is listed once and is neither in use nor a node of a list, and, as long as no
  write has failed (`torn`), the pointers lead to every node and nothing is lost;
* `GapPart`: in the loop over a gap, the rows still to free are below the row count
  and nobody has them;
* `ScanPart`: in the search of the data free list, the nodes at and before the loop
  are neighbours on the list and, if no write has failed, the row is still ahead.

The properties alone are not inductive: they say nothing of the rows of a gap, nor
of what the dictionary leads to after a failed write. From `IInv` follow `TypeOK`,
`RowsExclusive`, `NodesExclusive`, `RowsAccounted`, `NoIntegrityError` and
`ListsReachable`; the last by induction along the pointers, for lists of any
length. `ImplementsSpace == Spec => SpaceSpec` is the refinement: each operation,
wherever a write fails in it, is a step of `VBSpace` or a stutter.

### 5.2 VBLocks

`LocksInv` is `TypeOK` and `NoLockWithoutHandle` with `BlocksPart` (the list of a
process is sorted, and its blocks are of that process's handles that are open or
closing) and `LockingPart` (the handle of an islock under way is open).
`NoLockWithoutHandle` and `ListWellFormed` hold for any spread of handles over
processes. The loop of isunlock runs on along the free list over blocks nobody can
name in advance; `LoopInduction` shows that what one visit keeps the loop keeps.

`HeldIsLocked` is proved for one handle in each process (`HeldRowsLocked`). With
more it is false, as 3.2 says: `fcntl` locks are the process's.

### 5.3 VBDictCache

Nothing is assumed but `DictAssumption`; the theorems about shared handles are
about the worlds their properties name.

* `TypeCorrect == Spec => []TypeOK`. `TypeOK` is inductive together with
  `RoomToBump`: a shared handle in a modifying call has read a transaction number
  below the bound.
* `WriterIsAlone == Spec => []WriterAlone` and
  `DictLockIsReleased == Spec => []DictLockReleased`. Neither is inductive: that
  two calls exclude each other depends on how each handle was opened. `LockInv`
  adds that a write lock is alone on each of the two locks, that an open handle
  has the open byte in the mode it was opened with, that a shared handle in a call
  has the dictionary in the mode of the call, and that calls run on open handles.
  Two shared handles then exclude each other by the dictionary lock, and an
  exclusive handle excludes any other by the open byte.
* `NothingIsLost == Spec => NoLostUpdate`, an action property. `SharedInv` says
  that, among shared handles, the copy in a modifying call is not behind the file
  and that a call that reads is not going to write. The step that matters is
  the end of another handle's call, which writes the file: by `LockInv` no
  second modifying call is under way then (`ExitForward`).
* `CacheIsCoherent == Spec => []SharedCacheCoherent`. `CacheInv` says that a handle
  with stale nodes is outside a call and is `Outdated`: the transaction number of
  the file has moved on since its last call, or the call that wrote the nodes is
  still under way and will move it on. Failures and crashes are excluded by the
  property, since a failed call writes no transaction number (3.3).

### 5.4 VBTrans

The first part of `VBTransProofs` has what holds whether a rollback may end half way (`Busy`) or not
and whatever keys the processes use:

* `TypeCorrect` and `PrimaryKeysUnique == Spec => []KeysUnique`, without hypotheses;
* `RowsHeld`: `ChangedIsLocked`, for tables opened with ISTRANS (`Istrans`), as only
  there a change locks its row: but for the rows the process itself gave up, the
  lock lasts until the transaction is over;
* `FreeListSound`: `FreeRowsDeleted`, with `Istrans` and `PidsDistinct` (process
  numbers that fit in the two bytes of the log and are not the same). Without
  ISTRANS TLC refutes it (`MCVBTransPlain.cfg`); a commit that does not find
  its records frees no rows, and these would be freed by whoever has the number.
  `SafeInv` follows each deleted row from its log record to the walk that frees it
  or brings it back.

The second part has `RowsAccounted`, `RollbackUndoes` and the refinement
`AtomicSpec`, under the conditions of `Reliable`: besides the two above, no readers
that keep the dictionary locked (`~Busy`, since `UndoFails` then leaves changes in
the table) and keys of their own for the processes (`KeysApart`; without it
`MCVBTransKeys.cfg` is a rollback that fails; `MCVBTransPid.cfg` is one without
`PidsDistinct`). They do not rest on the row locks, which a rollback may have
lost: a process owns the rows its walk has still to come to (`Owns`) because they
hold keys of its own or are not free yet, and no other process has them locked
(`FreePart`). `Snap(p, m, r)` is row `r` as it was after record `m`, read off the
changes that are still to be undone. `UndoInv` says that keys are unique at every
such point (`SnapPart`), so that no undo meets a duplicate, that a row to be undone
is there (`ChainPart`), and that the way back ends at the rows before the
transaction (`DonePart`). A row that the transaction inserted is free as soon as
the insert is undone, and may be another process's before the rollback has ended.

### 5.5 VBRowOps

`RowOpsInductive == Spec => []Inductive`, with `Inductive` made of

* `TypeInv`: the types, and no rows behind the end of the file;
* `TidyInv`, whatever calls fail half way: a unique index is sorted and has no key
  for two rows; one with duplicates ascends strictly, unless it is NULLKEY as well;
* `MatchInv`, as long as nothing has failed or is `lost`: each index has one entry
  for each row but those with suppressed keys and the one isaddindex missed.

From it follow `TypeOK`, `UniqueRows` and `IndexesExact` without hypotheses, and
`EntriesOrdered` where no index is both ISDUPS and NULLKEY. That hypothesis is
needed: with such an index TLC refutes the property (section 4). `DuplicatesAscend`
has the order for all the other indexes of any table.

An insertion goes where the search ends, which in a sorted list splits it in two
(`PlaceSplits`); the number of a new duplicate is above the others (`NewestNumber`).
`imakekeysfromdata` is a recursive function over the rows. That it has values at all
is `RecursionExists`; what they are (`MadeFills`) is shown by the least row at which
they would be anything else.

### 5.6 VBRecover

`RecoveryIsExact == Spec => []RecoveryExact` is proved for any number of processes
and rows, any length of the log and a crash between any two steps. The only
hypothesis is the one of the module, that processes write keys of their own
(`RecoverAssumption`; see 3.4 for why). `RecoveryExact` speaks of the end of a
replay and is far from inductive. `Inv` says of every state before it:

* `LogInv`, of the log alone: in which order the records of a process come
  (`Follows`, `Begun`: which is also what makes the replay find handles open), that
  ids are logged as they are handed out (`Counted`), and that each change that was
  not rolled back starts from the row the changes before it made (`Chained`). That
  row is `RowAt(log, n, r)`: row `r` after the first `n` records, without those of
  transactions that were rolled back (`Cancelled`).
* `RunIn`, of the table: each process is where its last record says (`WhereIs`), the
  rows of a transaction that goes on are changed by nobody else (`AloneIn`), and the
  rows are `RowAt` of the whole log, except those a rollback is about to undo.
* `ReplayIn`, of the recovery: it knows of each process how far its records have
  come (`Progress`), and its rows are `RowAt` of the records it has read. `HandlesIn`
  is about the dictionaries of its handles: as long as no two were open together
  there is one handle and it knows the unique id of the table; after that each open
  handle knows it, or a unique id was handed out or set since the last record of
  its process (`BehindAt`).

The step that matters is the record RW: it cancels records far back, and so changes
what a recovery makes of every row from there on. `CancelRow` shows, by the least
position at which it would be otherwise, that a row of the transaction is then at
every later point what it was before its first change, since nobody else has
changed it (`AloneIn`);
`RollbackAdded` that the records of others behind it still fit. On the side of the
replay, `CheckIsCancelled` says that the look ahead of `ircvchecktrans` finds exactly
the cancelled transactions. The early stops are the outcomes `Explained` admits, and
for each the proof names the record that is to blame; the others (EDUPL, ENOREC,
EBADLOG) are shown not to happen.

The proof attempt found a slip in `Expected`, which was to say which rows a rollback
had begun to undo and picked any process that is rolling back, also one that had
not touched the row. With two rollbacks at once, which take a longer log than the
run has, it would have been wrong; it now picks one that has touched the row.

### 5.7 VBTree

Everything the run `tree` checks is proved, for any number of nodes, any capacity
of a node, any keys and duplicate numbers and trees of any height, with nothing
assumed but `TreeAssumption`. `VBTreeProofs` has the shape of the tree,
`VBTreeOrderProofs` the order in it.

`TypeCorrect == Spec => []TypeOK` and `TreeAccounted == Spec => []NodesAccounted`
rest on `TreeInv`, which says of every
state between two operations that the tree is `Sound` and that the memory of the
handle has marks for nodes in use. `Sound` has two halves: `Shapely`, about each
node by itself (levels, entries within the capacity, only the root may be empty),
and `Hangs`: there is a function from each node to its parent, a node's children
are those it is the parent of, and each node but the root is a child of its
parent. `NodesAccounted` follows; it is not inductive, as it says nothing of empty
nodes, from which a collapse would free a node in use.

* The bisection: `BisectExact` shows that it stops at the entry the value belongs
  before, for any number of entries. What is left of the way is always less than
  the width of the last step. `itreeload` then leads from the root to a leaf
  (`LoadExists`), and so do a step in either direction, the locating of a row and
  each mode of isread (`NextFacts`, `PrevFacts`, `LocateFacts`, `ReadFacts`).
* `ivbkeyinsert` and `ivbkeydelete` go up the path level by level, and between two
  levels the tree is not sound: the new half of a split node hangs on nothing yet,
  a freed node is still named by its parent. `Hung` has a set for each. `Rising`
  and `Falling` say how far an operation has come, and that the nodes of the path
  still ahead are as they were; `SaveStage` and `RemoveStage` take it up a level.
* Searches and operations are recursive functions over the levels. That these have
  values is `StagesExist`, for any of them.

The null outcomes (`Crash`) are part of it: a process that has followed a NULL pointer
has written nothing, so the tree is sound all the same.

`TreeAscends == Spec => []TreeOrdered`, `EveryRowFound == Spec => []RowsFound`,
`EveryMoveSound == Spec => []MovesSound`, `EveryReadSound == Spec => []ReadsSound`
and `TreeIsIndex == Spec => ImplementsIndex` rest on `OrderInv`, which adds two
things to `TreeInv`:

* `Ordered`: each node has a span, two numbers that its entries lie between. The
  key and the duplicate number of an entry are one number here, its rank. In an
  interior node each entry is not below the span of its child and below the spans
  of the children behind it. `TreeOrdered` is not inductive, since it says nothing
  of the separators of the nodes between an interior entry and the leaves below
  it; spans do. They need not be tight: a separator outlives the entry it was made
  of, and the high entry of a node takes over the child of the entry before it when
  its own child goes.
* `Marked`: a node that is in memory has its parent in memory, and has a mark
  `iistof` or `iiseof` only if its parent has the mark and it is the first or the
  last child. A node with a mark is thus at that end of the tree, and a step that
  stops at a mark stops at the end. The converse fails: when the node at an end of
  the tree is emptied and freed, its neighbour does not get the mark in memory, and
  a step from there goes past the end and follows NULL. This is why the properties
  allow for `crashed`.

A search cuts the tree in two at each level (`SearchCut`), so all that is before its
path ranks below the value it looked for, and all from the path on does not, except
that a leaf may end below it: then the search is on the dummy of the leaf and the
entry it wants is the first of the next (`SearchLeast`, `SearchOn`). This is where
ISGTEQ gives up early and everything else steps on.

An insertion finds room between two spans before anything is written (`Widen`: the
nodes of a search path can have their spans extended to the value, and remain
ordered). `InsertOrder` and `DeleteOrder` then go up the levels along `SaveStage` and
`RemoveStage`. `Sliding` says that the entries in the leaves are the old ones and the
new one from level 1 on, and where the span of the half that hangs on nothing lies;
`Sinking` that only the entry that was deleted is gone. So what a step does to
the set of ranks in the leaves (`RanksStep` in `NextOrder`) comes out of the same
induction as the order, and it is a step of `VBIndex`. That a new duplicate gets the
number after the largest is shown from the one search and the one step back of
`irowinsert`, marks included.

### 5.8 Only model-checked

* `ForceEnds` of `VBFreeList`: liveness under fairness is out of the prover's reach.
* `VBVarlen` (`TypeOK`, `NodesExact`, `RowsReadBack`), which uses RECURSIVE operators
  to follow a row through its nodes and a tail through the slots of one; the prover
  cannot reason about these.
* The properties that TLC refutes on purpose (section 4).

## 6. Not modelled

* Check and repair (ischeck.c): one sequential pass over an exclusively open table
  that keeps nothing between calls. What it looks for are the invariants of
  `VBFreeList`, `VBTree` and `VBRowOps`.
* Decimals and number formats (isdecimal.c, iscommon.c), the compatibility layer and
  the audit trail: conversions and stubs, without behaviour over time.
* The log records of builds, erases, renames and index changes, tables opened without
  ISTRANS in a recovery, and recoveries of several tables.
* Log writes that are refused (istrans.c:126): each caller decides what follows, and
  a model of all of them would be about the callers.
* Transactions on several tables, and a table opened anew in the middle of one
  (2.4): an open record there ends the walk of a commit or a rollback.
* Calls that go on after a refused `ivbenter` (istrans.c:360) with other writers.
* iserase, isrename, iscluster, isbuild's own failures, the descriptor nodes.
* isstart, and the position a handle keeps between calls (`trowstart`,
  `iisdisjoint`): `VBTree` locates the current row anew for every step.
* The compression of keys, file names, the handle table, the eviction of nodes from
  memory (it never makes one stale). Two processes never have the same number.
* Two handles of one process in a run (3.2).
* pyisam: its tables, backends and definition parsers make one library call each and
  keep no state that a step of another could disturb.

## 7. Plan

1. `VBVarlen` with recursive functions in the place of its RECURSIVE operators, then
   `NodesExact`, for which each node can be looked at by itself.
2. A cursor over `VBIndex` while rows come and go: isstart and the position between
   calls.

## 8. Running it

    tlc -workers 2 -config MCVBTree.cfg MCVBTree
    tlapm VBDictCacheProofs.tla

Without coverage each run takes less than three minutes on two cores, most of them
less than one. The proofs, from nothing: `VBTreeOrderProofs` about twelve minutes,
`VBFreeListProofs` and `VBTreeProofs` about four each, `VBRecoverProofs`
about three, `VBTransProofs` between two and three, `VBLocksProofs` and
`VBRowOpsProofs` between one and two each, `VBDictCacheProofs` about 15 seconds.
