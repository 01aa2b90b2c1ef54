---------------------------- MODULE VBDictCache ----------------------------
(***************************************************************************)
(* The dictionary node of a table and the index nodes a handle keeps in    *)
(* memory: ivbenter and ivbexit (libvbisam/vblocking.c) with the calls     *)
(* they bracket, and the opening and closing of isopen.c.                  *)
(*                                                                         *)
(* A call reads the dictionary when it has the dictionary lock and drops   *)
(* the cached nodes (pstree) if the transaction number in it is not the    *)
(* one the handle saw last; a call that changed something writes the       *)
(* dictionary back with the next transaction number.  A handle open with   *)
(* ISEXCLLOCK does neither: it reads the dictionary when it is opened and  *)
(* writes it when it is closed.                                            *)
(*                                                                         *)
(* Each handle is in a process of its own and is used outside of           *)
(* transactions.  A lock that is refused is never waited for; the call     *)
(* fails with EFLOCKED and changes nothing, a stuttering step.             *)
(*                                                                         *)
(* GrantsWriter, ExitNoBump and the like are slips that no code here makes *)
(* and no action uses: variants the properties must tell from the code.    *)
(***************************************************************************)
EXTENDS Integers

CONSTANTS
  Handle,     (* handles of the table, one in each process                 *)
  MaxTrans,   (* bound on the transaction number                           *)
  MaxCount,   (* bound on the changes of the rest of the dictionary        *)
  Worlds      (* the sets of happenings to look at                         *)

(* What happens in a behaviour: the table is opened with ISEXCLLOCK, too;  *)
(* calls fail half way, and writes of the dictionary; processes die.       *)
Happening == {"exclusive", "fault", "crash"}

ASSUME DictAssumption ==
  /\ MaxTrans \in Nat \ {0} /\ MaxCount \in Nat
  /\ Worlds \subseteq SUBSET Happening

VARIABLES
  world,         (* the happenings of this behaviour                       *)
  file,          (* the dictionary node in the index file                  *)
  iisopen,       (* absent, open, buffered (2: "Only buffers remain!")     *)
  excl,          (* iopenmode has ISEXCLLOCK                               *)
  sdictnode,     (* the dictionary node in memory                          *)
  ttranslast,    (* transaction number at the end of the last call         *)
  pstree,        (* nodes in memory: none, current, or stale: not what the *)
                 (* index file holds any more                              *)
  iisdictlocked, (* set of 1 locked, 2 to be rewritten, 4 keep the number  *)
  call,          (* what the handle is in: idle, opening, read, modify     *)
  saved,         (* the call has written an index node                     *)
  openlock,      (* fcntl on the open byte: none, rd, wr                   *)
  dictlock       (* fcntl on the dictionary: none, rd, wr                  *)

memory == <<sdictnode, ttranslast, pstree, iisdictlocked>>
locks  == <<openlock, dictlock>>
vars   == <<world, file, iisopen, excl, memory, call, saved, locks>>

Mode == {"none", "rd", "wr"}
Dict == [trans : 0..MaxTrans, count : 0..MaxCount]

Counted(d, n) == [trans |-> d.trans, count |-> d.count + n]
Bumped(d)     == [trans |-> d.trans + 1, count |-> d.count]

GrantsWriter(lock, h, l) == l = "wr" \/ \A g \in Handle \ {h} : lock[g] # "wr"

(* fcntl grants the lock l to h.                                           *)
Grants(lock, h, l) ==
  \A g \in Handle \ {h} : IF l = "wr" THEN lock[g] = "none" ELSE lock[g] # "wr"

Init ==
  /\ world \in Worlds
  /\ file = [trans |-> 1, count |-> 0]
  /\ iisopen = [h \in Handle |-> "absent"]
  /\ excl = [h \in Handle |-> FALSE]
  /\ sdictnode = [h \in Handle |-> [trans |-> 0, count |-> 0]]
  /\ ttranslast = [h \in Handle |-> 0]
  /\ pstree = [h \in Handle |-> "none"]
  /\ iisdictlocked = [h \in Handle |-> {}]
  /\ call = [h \in Handle |-> "idle"]
  /\ saved = [h \in Handle |-> FALSE]
  /\ openlock = [h \in Handle |-> "none"]
  /\ dictlock = [h \in Handle |-> "none"]

-----------------------------------------------------------------------------
(* isopen.                                                                 *)

(* A new handle, shared.  The isstart at the end loads nodes.              *)
OpenShared(h) ==
  /\ iisopen[h] = "absent" /\ call[h] = "idle"
  /\ Grants(dictlock, h, "wr")
  /\ Grants(openlock, h, "rd")
  /\ iisopen' = [iisopen EXCEPT ![h] = "open"]
  /\ excl' = [excl EXCEPT ![h] = FALSE]
  /\ sdictnode' = [sdictnode EXCEPT ![h] = file]
  /\ ttranslast' = [ttranslast EXCEPT ![h] = file.trans]
  /\ pstree' = [pstree EXCEPT ![h] = "current"]
  /\ openlock' = [openlock EXCEPT ![h] = "rd"]
  /\ UNCHANGED <<world, file, iisdictlocked, call, saved, dictlock>>

(* ivbclose2 made the handle "buffered"; its nodes are kept.               *)
ReopenShared(h) ==
  /\ iisopen[h] = "buffered" /\ call[h] = "idle"
  /\ Grants(openlock, h, "rd")
  /\ iisopen' = [iisopen EXCEPT ![h] = "open"]
  /\ excl' = [excl EXCEPT ![h] = FALSE]
  /\ openlock' = [openlock EXCEPT ![h] = "rd"]
  /\ UNCHANGED <<world, file, memory, call, saved, dictlock>>

(* ISEXCLLOCK: ivbfileopenlock reads the dictionary before it locks.  A    *)
(* new handle has the dictionary lock by then; one that is opened again    *)
(* has not.                                                                *)
OpenExclRead(h) ==
  /\ "exclusive" \in world
  /\ iisopen[h] # "open" /\ call[h] = "idle"
  /\ call' = [call EXCEPT ![h] = "opening"]
  /\ sdictnode' = [sdictnode EXCEPT ![h] = file]
  /\ \/ /\ iisopen[h] = "absent"
        /\ Grants(dictlock, h, "wr")
        /\ dictlock' = [dictlock EXCEPT ![h] = "wr"]
        /\ iisdictlocked' = [iisdictlocked EXCEPT ![h] = {1}]
     \/ /\ iisopen[h] = "buffered"
        /\ UNCHANGED <<dictlock, iisdictlocked>>
  /\ UNCHANGED <<world, file, iisopen, excl, ttranslast, pstree, saved,
                 openlock>>

(* The ivbexit of a new handle leaves at its test of ISEXCLLOCK, before    *)
(* the unlock: the dictionary lock stays until the file is closed.         *)
OpenExclLock(h) ==
  /\ call[h] = "opening"
  /\ call' = [call EXCEPT ![h] = "idle"]
  /\ \/ /\ Grants(openlock, h, "wr")
        /\ iisopen' = [iisopen EXCEPT ![h] = "open"]
        /\ excl' = [excl EXCEPT ![h] = TRUE]
        /\ openlock' = [openlock EXCEPT ![h] = "wr"]
        /\ IF iisopen[h] = "buffered"
           THEN UNCHANGED <<ttranslast, pstree, iisdictlocked>>
           ELSE /\ ttranslast' = [ttranslast EXCEPT ![h] = sdictnode[h].trans]
                /\ pstree' = [pstree EXCEPT ![h] = "current"]
                /\ iisdictlocked' = [iisdictlocked EXCEPT ![h] = {1, 4}]
        /\ UNCHANGED dictlock
     \/ /\ ~Grants(openlock, h, "wr")              \* open_err: no handle left
        /\ iisopen' = [iisopen EXCEPT ![h] = "absent"]
        /\ excl' = [excl EXCEPT ![h] = FALSE]
        /\ pstree' = [pstree EXCEPT ![h] = "none"]
        /\ iisdictlocked' = [iisdictlocked EXCEPT ![h] = {}]
        /\ dictlock' = [dictlock EXCEPT ![h] = "none"]
        /\ UNCHANGED <<ttranslast, openlock>>
  /\ UNCHANGED <<world, file, sdictnode, saved>>

(* isclose and isfullclose.  Of an exclusive handle, ivbforceexit writes   *)
(* the dictionary, with the transaction number it was read with.           *)
Close(h, after) ==
  /\ iisopen[h] = "open" /\ call[h] = "idle"
  /\ IF excl[h] /\ 2 \in iisdictlocked[h]
     THEN file' = sdictnode[h] \/ ("fault" \in world /\ UNCHANGED file)
     ELSE UNCHANGED file
  /\ iisopen' = [iisopen EXCEPT ![h] = after]
  /\ pstree' = [pstree EXCEPT ![h] = IF after = "absent" THEN "none" ELSE @]
  /\ iisdictlocked' = [iisdictlocked EXCEPT ![h] = {}]
  /\ openlock' = [openlock EXCEPT ![h] = "none"]
  /\ dictlock' = [dictlock EXCEPT ![h] = "none"]
  /\ UNCHANGED <<world, excl, sdictnode, ttranslast, call, saved>>

isclose(h)     == Close(h, "buffered")
isfullclose(h) == Close(h, "absent")

-----------------------------------------------------------------------------
(* A call on an open handle.                                               *)

DictReadBefore(h) == sdictnode[h]

(* ivbblockread of the dictionary node.                                    *)
DictRead(h) == file

(* ivbenter.                                                               *)
ivbenter(h, modifying) ==
  LET l == IF modifying THEN "wr" ELSE "rd" IN
  /\ iisopen[h] = "open" /\ call[h] = "idle"
  /\ modifying => file.trans < MaxTrans                            \* bound
  /\ call' = [call EXCEPT ![h] = IF modifying THEN "modify" ELSE "read"]
  /\ iisdictlocked' = [iisdictlocked EXCEPT ![h] = @ \union {1}]
  /\ \/ /\ excl[h]
        /\ UNCHANGED <<sdictnode, pstree, dictlock>>
     \/ /\ ~excl[h]
        /\ Grants(dictlock, h, l)
        /\ dictlock' = [dictlock EXCEPT ![h] = l]
        /\ sdictnode' = [sdictnode EXCEPT ![h] = DictRead(h)]
        /\ pstree' = [pstree EXCEPT
             ![h] = IF ttranslast[h] = DictRead(h).trans THEN @ ELSE "none"]
  /\ UNCHANGED <<world, file, iisopen, excl, ttranslast, saved, openlock>>

(* ivbkeysearch and ivbkeyload read the nodes they miss.                   *)
LoadNodes(h) ==
  /\ call[h] \in {"read", "modify"}
  /\ pstree[h] = "none"
  /\ pstree' = [pstree EXCEPT ![h] = "current"]
  /\ UNCHANGED <<world, file, iisopen, excl, sdictnode, ttranslast,
                 iisdictlocked, call, saved, locks>>

(* ivbnodesave: a node in memory and the index file change together.       *)
ivbnodesave(h) ==
  /\ call[h] = "modify"
  /\ pstree[h] # "none"
  /\ saved' = [saved EXCEPT ![h] = TRUE]
  /\ pstree' = [g \in Handle |-> IF g # h /\ pstree[g] = "current"
                                 THEN "stale" ELSE pstree[g]]
  /\ UNCHANGED <<world, file, iisopen, excl, sdictnode, ttranslast,
                 iisdictlocked, call, locks>>

ChangeDictTwice(h) ==
  /\ call[h] = "modify"
  /\ sdictnode[h].count < MaxCount
  /\ sdictnode' = [sdictnode EXCEPT ![h] = Counted(@, 2)]
  /\ iisdictlocked' = [iisdictlocked EXCEPT ![h] = @ \union {2}]
  /\ UNCHANGED <<world, file, iisopen, excl, ttranslast, pstree, call, saved,
                 locks>>

(* tvbdatacountgetnext, tvbnodecountgetnext and the free lists.            *)
ChangeDict(h) ==
  /\ call[h] = "modify"
  /\ sdictnode[h].count < MaxCount                                 \* bound
  /\ sdictnode' = [sdictnode EXCEPT ![h] = Counted(@, 1)]
  /\ iisdictlocked' = [iisdictlocked EXCEPT ![h] = @ \union {2}]
  /\ UNCHANGED <<world, file, iisopen, excl, ttranslast, pstree, call, saved,
                 locks>>

ExitNoBump(h, flags) ==
  /\ call' = [call EXCEPT ![h] = "idle"]
  /\ saved' = [saved EXCEPT ![h] = FALSE]
  /\ ttranslast' = [ttranslast EXCEPT ![h] = sdictnode[h].trans]
  /\ file' = IF 2 \in flags THEN sdictnode[h] ELSE file
  /\ dictlock' = [dictlock EXCEPT ![h] = "none"]
  /\ iisdictlocked' = [iisdictlocked EXCEPT ![h] = {}]
  /\ UNCHANGED <<world, iisopen, excl, sdictnode, pstree, openlock>>

ExitKeepsLock(h, flags) ==
  /\ call' = [call EXCEPT ![h] = "idle"]
  /\ saved' = [saved EXCEPT ![h] = FALSE]
  /\ iisdictlocked' = [iisdictlocked EXCEPT ![h] = {}]
  /\ UNCHANGED <<world, file, iisopen, excl, sdictnode, ttranslast, pstree,
                 locks>>

(* ivbexit, with what the call has put in iisdictlocked.                   *)
ivbexit(h, flags) ==
  LET bump == 2 \in flags /\ 4 \notin flags
      dict == IF bump THEN Bumped(sdictnode[h]) ELSE sdictnode[h]
  IN
  /\ call' = [call EXCEPT ![h] = "idle"]
  /\ saved' = [saved EXCEPT ![h] = FALSE]
  /\ \/ /\ excl[h]
        /\ ttranslast' = [ttranslast EXCEPT ![h] = sdictnode[h].trans]
        /\ iisdictlocked' = [iisdictlocked EXCEPT ![h] = flags]
        /\ UNCHANGED <<file, sdictnode, dictlock>>
     \/ /\ ~excl[h]
        /\ ttranslast' = [ttranslast EXCEPT ![h] = dict.trans]
        /\ sdictnode' = [sdictnode EXCEPT ![h] = dict]
        /\ IF 2 \in flags
           THEN file' = dict \/ ("fault" \in world /\ UNCHANGED file)
           ELSE UNCHANGED file
        /\ dictlock' = [dictlock EXCEPT ![h] = "none"]
        /\ iisdictlocked' = [iisdictlocked EXCEPT ![h] = {}]
  /\ UNCHANGED <<world, iisopen, excl, pstree, openlock>>

(* isread and isstart.                                                     *)
FinishRead(h) ==
  /\ call[h] = "read"
  /\ ivbexit(h, iisdictlocked[h] \union {4})

(* iswrite, isdelete, isrewrite, ... that succeed.                         *)
FinishModify(h) ==
  /\ call[h] = "modify"
  /\ ivbexit(h, iisdictlocked[h] \union {2})

(* isdelete and isrewrec that fail do not ask for the dictionary to be     *)
(* rewritten, even if they changed an index before they failed on another. *)
FailModify(h) ==
  /\ call[h] = "modify"
  /\ saved[h] => "fault" \in world
  /\ ivbexit(h, iisdictlocked[h])

Crash(h) ==
  /\ "crash" \in world
  /\ iisopen' = [iisopen EXCEPT ![h] = "absent"]
  /\ excl' = [excl EXCEPT ![h] = FALSE]
  /\ pstree' = [pstree EXCEPT ![h] = "none"]
  /\ iisdictlocked' = [iisdictlocked EXCEPT ![h] = {}]
  /\ call' = [call EXCEPT ![h] = "idle"]
  /\ saved' = [saved EXCEPT ![h] = FALSE]
  /\ openlock' = [openlock EXCEPT ![h] = "none"]
  /\ dictlock' = [dictlock EXCEPT ![h] = "none"]
  /\ UNCHANGED <<world, file, sdictnode, ttranslast>>

Next ==
  \E h \in Handle :
    \/ OpenShared(h) \/ ReopenShared(h) \/ OpenExclRead(h) \/ OpenExclLock(h)
    \/ isclose(h) \/ isfullclose(h)
    \/ \E modifying \in BOOLEAN : ivbenter(h, modifying)
    \/ LoadNodes(h) \/ ivbnodesave(h) \/ ChangeDict(h)
    \/ FinishRead(h) \/ FinishModify(h) \/ FailModify(h)
    \/ Crash(h)

Spec == Init /\ [][Next]_vars

-----------------------------------------------------------------------------
(* Properties.                                                             *)

(* Every value has its type. *)
TypeOK ==
  /\ world \subseteq Happening
  /\ file \in Dict
  /\ iisopen \in [Handle -> {"absent", "open", "buffered"}]
  /\ excl \in [Handle -> BOOLEAN]
  /\ sdictnode \in [Handle -> Dict]
  /\ ttranslast \in [Handle -> 0..MaxTrans]
  /\ pstree \in [Handle -> {"none", "current", "stale"}]
  /\ iisdictlocked \in [Handle -> SUBSET {1, 2, 4}]
  /\ call \in [Handle -> {"idle", "opening", "read", "modify"}]
  /\ saved \in [Handle -> BOOLEAN]
  /\ openlock \in [Handle -> Mode]
  /\ dictlock \in [Handle -> Mode]

InCall(h) == call[h] \in {"read", "modify"}

(* While a call may change the table no other process is in a call: the    *)
(* dictionary lock between shared handles, the open lock if one handle is  *)
(* exclusive.                                                              *)
WriterAlone ==
  \A h, g \in Handle : h # g /\ call[h] = "modify" => ~InCall(g)

(* A shared handle holds the dictionary lock in its calls only, whether    *)
(* they succeed or fail, and a handle that is closed does not hold it:     *)
(* nobody is locked out by an idle handle.                                 *)
DictLockReleased ==
  \A h \in Handle :
    dictlock[h] # "none" => \/ InCall(h) \/ call[h] = "opening"
                            \/ iisopen[h] = "open" /\ excl[h]

(* A call works on the nodes the index file holds ("*ANY* change to the    *)
(* index file needs to invalidate the ENTIRE cache for that table!!!").    *)
CacheCoherent == \A h \in Handle : InCall(h) => pstree[h] # "stale"

(* It is so while all handles are shared and no call fails half way.       *)
SharedCacheCoherent == world = {} => CacheCoherent

(* Among shared handles, what a call changed in the dictionary, a row it   *)
(* allocated say, is not undone by another handle that writes back an      *)
(* older copy, whoever fails or dies.                                      *)
NoLostUpdate ==
  [][world \subseteq {"fault", "crash"} => file'.count >= file.count
                                          /\ file'.trans >= file.trans]_vars
=============================================================================
