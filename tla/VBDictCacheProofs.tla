------------------------- MODULE VBDictCacheProofs -------------------------
(***************************************************************************)
(* Proofs about VBDictCache, for any number of handles and all bounds.     *)
(*                                                                         *)
(* The locks come first (LockInv): a handle in a call that may change the  *)
(* table is alone in one. What the shared handles write back (SharedInv)   *)
(* and what nodes they keep (CacheInv) rest on that.                       *)
(*                                                                         *)
(* The two theorems about shared handles are about the worlds their        *)
(* properties name: no handle is opened with ISEXCLLOCK, and for the cache *)
(* no call fails half way and no process dies either. With ISEXCLLOCK TLC  *)
(* finds a handle that works on stale nodes (MCVBDictCacheExcl.cfg).       *)
(***************************************************************************)
EXTENDS VBDictCache, TLAPS

(* A call that may bump the transaction number has room to do so.          *)
RoomToBump ==
  \A h \in Handle :
    call[h] = "modify" /\ ~excl[h] => sdictnode[h].trans < MaxTrans

(* TypeOK is inductive with RoomToBump only.                               *)
TypeInv == TypeOK /\ RoomToBump

(* At first no handle is open.                                             *)
LEMMA TypeInvInit == Init => TypeInv
<1> SUFFICES ASSUME Init PROVE TypeInv
  OBVIOUS
<1>1. world \subseteq Happening
  BY DictAssumption DEF Init
<1>2. file \in Dict /\ [trans |-> 0, count |-> 0] \in Dict
  BY DictAssumption DEF Init, Dict
<1>3. QED
  BY <1>1, <1>2, DictAssumption DEF Init, TypeInv, TypeOK, RoomToBump, Mode

(* Counting and bumping stay within the bounds.                            *)
LEMMA DictTypes ==
  ASSUME NEW d \in Dict
  PROVE  /\ d.trans \in 0..MaxTrans
         /\ d.count < MaxCount => Counted(d, 1) \in Dict
         /\ d.trans < MaxTrans => Bumped(d) \in Dict
         /\ Counted(d, 1).trans = d.trans
  BY DictAssumption DEF Dict, Counted, Bumped

(* The end of a call keeps the types.                                      *)
LEMMA ExitTypes ==
  ASSUME TypeInv, NEW h \in Handle, NEW flags \in SUBSET {1, 2, 4},
         2 \in flags /\ 4 \notin flags => call[h] = "modify",
         ivbexit(h, flags)
  PROVE  TypeInv'
<1> DEFINE bump == 2 \in flags /\ 4 \notin flags
           dict == IF bump THEN Bumped(sdictnode[h]) ELSE sdictnode[h]
<1> USE DEF TypeInv, TypeOK, RoomToBump
<1>1. UNCHANGED <<world, iisopen, excl, pstree, openlock>>
  BY DEF ivbexit
<1>2. /\ call' \in [Handle -> {"idle", "opening", "read", "modify"}]
      /\ saved' \in [Handle -> BOOLEAN]
      /\ call'[h] = "idle"
      /\ \A g \in Handle \ {h} : call'[g] = call[g]
  BY DEF ivbexit
<1>3. sdictnode[h] \in Dict /\ sdictnode[h].trans \in 0..MaxTrans
  BY DictTypes
<1>4. CASE excl[h]
  <2>1. /\ ttranslast' = [ttranslast EXCEPT ![h] = sdictnode[h].trans]
        /\ iisdictlocked' = [iisdictlocked EXCEPT ![h] = flags]
        /\ UNCHANGED <<file, sdictnode, dictlock>>
    BY <1>4 DEF ivbexit
  <2>2. QED
    BY <1>1, <1>2, <1>3, <2>1
<1>5. CASE ~excl[h]
  <2>1. dict \in Dict /\ dict.trans \in 0..MaxTrans
    BY <1>3, <1>5, DictTypes
  <2> HIDE DEF dict
  <2>2. /\ ttranslast' = [ttranslast EXCEPT ![h] = dict.trans]
        /\ sdictnode' = [sdictnode EXCEPT ![h] = dict]
        /\ file' \in {file, dict}
        /\ dictlock' = [dictlock EXCEPT ![h] = "none"]
        /\ iisdictlocked' = [iisdictlocked EXCEPT ![h] = {}]
    BY <1>5 DEF ivbexit, dict
  <2>3. QED
    BY <1>1, <1>2, <2>1, <2>2 DEF Mode
<1>6. QED
  BY <1>4, <1>5

(* Every action keeps the types.                                           *)
LEMMA TypeInvNext == TypeInv /\ [Next]_vars => TypeInv'
<1> SUFFICES ASSUME TypeInv, [Next]_vars PROVE TypeInv'
  OBVIOUS
<1> USE DEF TypeInv, TypeOK, RoomToBump
<1>1. ASSUME NEW h \in Handle, OpenShared(h) PROVE TypeInv'
  <2>1. file.trans \in 0..MaxTrans
    BY DictTypes
  <2>2. QED
    BY <1>1, <2>1 DEF OpenShared, Mode
<1>2. ASSUME NEW h \in Handle, ReopenShared(h) PROVE TypeInv'
  BY <1>2 DEF ReopenShared, memory, Mode
<1>3. ASSUME NEW h \in Handle, OpenExclRead(h) PROVE TypeInv'
  BY <1>3 DEF OpenExclRead, Mode
<1>4. ASSUME NEW h \in Handle, OpenExclLock(h) PROVE TypeInv'
  <2>1. sdictnode[h].trans \in 0..MaxTrans
    BY DictTypes
  <2>2. /\ UNCHANGED <<world, file, sdictnode, saved>>
        /\ call' = [call EXCEPT ![h] = "idle"]
    BY <1>4 DEF OpenExclLock
  <2>3. /\ iisopen' \in [Handle -> {"absent", "open", "buffered"}]
        /\ ttranslast' \in [Handle -> 0..MaxTrans]
        /\ pstree' \in [Handle -> {"none", "current", "stale"}]
        /\ iisdictlocked' \in [Handle -> SUBSET {1, 2, 4}]
        /\ openlock' \in [Handle -> Mode]
        /\ dictlock' \in [Handle -> Mode]
    BY <1>4, <2>1 DEF OpenExclLock, Mode
  <2>4. PICK b \in BOOLEAN : excl' = [excl EXCEPT ![h] = b]
    BY <1>4 DEF OpenExclLock
  <2>5. TypeOK'
    BY <2>2, <2>3, <2>4
  <2>6. \A g \in Handle \ {h} : excl'[g] = excl[g] /\ call'[g] = call[g]
    BY <2>2, <2>4
  <2>7. RoomToBump'
    BY <2>2, <2>6
  <2>8. QED
    BY <2>5, <2>7
<1>5. ASSUME NEW h \in Handle, NEW after \in {"buffered", "absent"},
             Close(h, after)
      PROVE  TypeInv'
  BY <1>5 DEF Close, Mode
<1>6. ASSUME NEW h \in Handle, NEW modifying \in BOOLEAN,
             ivbenter(h, modifying)
      PROVE  TypeInv'
  BY <1>6 DEF ivbenter, DictRead, Mode
<1>7. ASSUME NEW h \in Handle, LoadNodes(h) PROVE TypeInv'
  BY <1>7 DEF LoadNodes, locks
<1>8. ASSUME NEW h \in Handle, ivbnodesave(h) PROVE TypeInv'
  BY <1>8 DEF ivbnodesave, locks
<1>9. ASSUME NEW h \in Handle, ChangeDict(h) PROVE TypeInv'
  <2>1. /\ Counted(sdictnode[h], 1) \in Dict
        /\ Counted(sdictnode[h], 1).trans = sdictnode[h].trans
    BY <1>9, DictTypes DEF ChangeDict
  <2>2. QED
    BY <1>9, <2>1 DEF ChangeDict, locks
<1>10. ASSUME NEW h \in Handle, FinishRead(h) PROVE TypeInv'
  BY <1>10, ExitTypes DEF FinishRead
<1>11. ASSUME NEW h \in Handle, FinishModify(h) PROVE TypeInv'
  BY <1>11, ExitTypes DEF FinishModify
<1>12. ASSUME NEW h \in Handle, FailModify(h) PROVE TypeInv'
  BY <1>12, ExitTypes DEF FailModify
<1>13. ASSUME NEW h \in Handle, Crash(h) PROVE TypeInv'
  BY <1>13 DEF Crash, Mode
<1>14. CASE UNCHANGED vars
  BY <1>14 DEF vars, memory, locks
<1>15. QED
  BY <1>1, <1>2, <1>3, <1>4, <1>5, <1>6, <1>7, <1>8, <1>9, <1>10, <1>11,
     <1>12, <1>13, <1>14 DEF Next, isclose, isfullclose

(* Every value keeps its type.                                             *)
THEOREM TypeCorrect == Spec => []TypeOK
<1>1. TypeInv => TypeOK
  BY DEF TypeInv
<1>2. QED
  BY <1>1, TypeInvInit, TypeInvNext, PTL DEF Spec

-----------------------------------------------------------------------------
(* The two locks.                                                          *)

(* A handle with the write lock is the only one with a lock.               *)
WriteLockAlone(lock) ==
  \A h, g \in Handle : h # g /\ lock[h] = "wr" => lock[g] = "none"

(* An open handle holds the open byte as it was opened.                    *)
OpenIsLocked ==
  \A h \in Handle :
    iisopen[h] = "open" => openlock[h] = IF excl[h] THEN "wr" ELSE "rd"

(* A shared handle in a call holds the dictionary.                         *)
CallIsLocked ==
  \A h \in Handle :
    InCall(h) /\ ~excl[h] =>
      dictlock[h] = IF call[h] = "modify" THEN "wr" ELSE "rd"

(* Only open handles are in calls.                                         *)
CallsOnOpen ==
  \A h \in Handle : /\ InCall(h) => iisopen[h] = "open"
                    /\ call[h] = "opening" => iisopen[h] # "open"

(* Neither property is inductive: that a writer is alone rests on what     *)
(* both locks say of both handles.                                         *)
LockInv ==
  /\ WriteLockAlone(dictlock) /\ WriteLockAlone(openlock)
  /\ OpenIsLocked
  /\ CallIsLocked
  /\ CallsOnOpen
  /\ DictLockReleased

(* At first there are no locks.                                            *)
LEMMA LockInvInit == Init => LockInv
  BY DEF Init, LockInv, WriteLockAlone, OpenIsLocked, CallIsLocked,
         CallsOnOpen, DictLockReleased, InCall

(* What fcntl grants leaves a write lock alone.                            *)
LEMMA GrantAlone ==
  ASSUME NEW lock \in [Handle -> Mode], NEW h \in Handle,
         NEW l \in {"rd", "wr"}, WriteLockAlone(lock), Grants(lock, h, l)
  PROVE  WriteLockAlone([lock EXCEPT ![h] = l])
  BY DEF WriteLockAlone, Grants, Mode

(* An unlock leaves a write lock alone.                                    *)
LEMMA UnlockAlone ==
  ASSUME NEW lock \in [Handle -> Mode], NEW h \in Handle, WriteLockAlone(lock)
  PROVE  WriteLockAlone([lock EXCEPT ![h] = "none"])
  BY DEF WriteLockAlone

(* The end of a call gives the dictionary lock of a shared handle back.    *)
LEMMA ExitLocks ==
  ASSUME TypeOK, LockInv, NEW h \in Handle, NEW flags, InCall(h),
         ivbexit(h, flags)
  PROVE  LockInv'
<1> USE DEF TypeOK, LockInv
<1>1. /\ UNCHANGED <<iisopen, excl, openlock>>
      /\ call' = [call EXCEPT ![h] = "idle"]
      /\ dictlock' = IF excl[h] THEN dictlock
                     ELSE [dictlock EXCEPT ![h] = "none"]
  BY DEF ivbexit
<1>2. WriteLockAlone(dictlock)'
  <2>1. WriteLockAlone([dictlock EXCEPT ![h] = "none"])
    BY UnlockAlone
  <2>2. QED
    BY <1>1, <2>1 DEF WriteLockAlone
<1>3. WriteLockAlone(openlock)' /\ OpenIsLocked'
  BY <1>1 DEF WriteLockAlone, OpenIsLocked
<1>4. CallIsLocked' /\ CallsOnOpen'
  BY <1>1 DEF CallIsLocked, CallsOnOpen, InCall
<1>5. DictLockReleased'
  BY <1>1 DEF DictLockReleased, CallsOnOpen, InCall
<1>6. QED
  BY <1>2, <1>3, <1>4, <1>5

(* Every action keeps the invariant of the locks.                          *)
LEMMA LockInvNext == TypeOK /\ LockInv /\ [Next]_vars => LockInv'
<1> SUFFICES ASSUME TypeOK, LockInv, [Next]_vars PROVE LockInv'
  OBVIOUS
<1> USE DEF TypeOK, LockInv
<1>1. ASSUME NEW h \in Handle, OpenShared(h) PROVE LockInv'
  <2>1. WriteLockAlone(openlock)'
    BY <1>1, GrantAlone DEF OpenShared
  <2>2. QED
    BY <1>1, <2>1 DEF OpenShared, WriteLockAlone, OpenIsLocked, CallIsLocked,
                      CallsOnOpen, DictLockReleased, InCall
<1>2. ASSUME NEW h \in Handle, ReopenShared(h) PROVE LockInv'
  <2>1. WriteLockAlone(openlock)'
    BY <1>2, GrantAlone DEF ReopenShared
  <2>2. QED
    BY <1>2, <2>1 DEF ReopenShared, memory, WriteLockAlone, OpenIsLocked,
                      CallIsLocked, CallsOnOpen, DictLockReleased, InCall
<1>3. ASSUME NEW h \in Handle, OpenExclRead(h) PROVE LockInv'
  <2>1. WriteLockAlone(dictlock)'
    BY <1>3, GrantAlone DEF OpenExclRead, WriteLockAlone
  <2>2. QED
    BY <1>3, <2>1 DEF OpenExclRead, WriteLockAlone, OpenIsLocked, CallIsLocked,
                      CallsOnOpen, DictLockReleased, InCall
<1>4. ASSUME NEW h \in Handle, OpenExclLock(h) PROVE LockInv'
  <2>1. WriteLockAlone(openlock)'
    BY <1>4, GrantAlone DEF OpenExclLock, WriteLockAlone
  <2>2. WriteLockAlone(dictlock)'
    <3>1. dictlock' \in {dictlock, [dictlock EXCEPT ![h] = "none"]}
      BY <1>4 DEF OpenExclLock
    <3>2. QED
      BY <3>1, UnlockAlone
  <2>3. QED
    BY <1>4, <2>1, <2>2 DEF OpenExclLock, OpenIsLocked, CallIsLocked,
                      CallsOnOpen, DictLockReleased, InCall
<1>5. ASSUME NEW h \in Handle, NEW after \in {"buffered", "absent"},
             Close(h, after)
      PROVE  LockInv'
  <2>1. WriteLockAlone(openlock)' /\ WriteLockAlone(dictlock)'
    BY <1>5, UnlockAlone DEF Close
  <2>2. QED
    BY <1>5, <2>1 DEF Close, OpenIsLocked, CallIsLocked, CallsOnOpen,
                      DictLockReleased, InCall
<1>6. ASSUME NEW h \in Handle, NEW modifying \in BOOLEAN,
             ivbenter(h, modifying)
      PROVE  LockInv'
  <2>1. WriteLockAlone(dictlock)'
    BY <1>6, GrantAlone, SMTT(30) DEF ivbenter, WriteLockAlone
  <2>2. QED
    BY <1>6, <2>1 DEF ivbenter, WriteLockAlone, OpenIsLocked, CallIsLocked,
                      CallsOnOpen, DictLockReleased, InCall
<1>7. ASSUME NEW h \in Handle, FinishRead(h) PROVE LockInv'
  BY <1>7, ExitLocks DEF FinishRead, InCall
<1>8. ASSUME NEW h \in Handle, FinishModify(h) PROVE LockInv'
  BY <1>8, ExitLocks DEF FinishModify, InCall
<1>9. ASSUME NEW h \in Handle, FailModify(h) PROVE LockInv'
  BY <1>9, ExitLocks DEF FailModify, InCall
<1>10. ASSUME NEW h \in Handle, Crash(h) PROVE LockInv'
  <2>1. WriteLockAlone(openlock)' /\ WriteLockAlone(dictlock)'
    BY <1>10, UnlockAlone DEF Crash
  <2>2. QED
    BY <1>10, <2>1 DEF Crash, OpenIsLocked, CallIsLocked, CallsOnOpen,
                       DictLockReleased, InCall
<1>11. ASSUME UNCHANGED <<iisopen, excl, call, openlock, dictlock>>
       PROVE  LockInv'
  BY <1>11 DEF WriteLockAlone, OpenIsLocked, CallIsLocked, CallsOnOpen,
               DictLockReleased, InCall
<1>12. ASSUME NEW h \in Handle,
              LoadNodes(h) \/ ivbnodesave(h) \/ ChangeDict(h)
       PROVE  LockInv'
  BY <1>11, <1>12 DEF LoadNodes, ivbnodesave, ChangeDict, locks
<1>13. CASE UNCHANGED vars
  BY <1>11, <1>13 DEF vars, locks
<1>14. QED
  BY <1>1, <1>2, <1>3, <1>4, <1>5, <1>6, <1>7, <1>8, <1>9, <1>10, <1>12, <1>13
  DEF Next, isclose, isfullclose

(* The types and the locks, in every state.                                *)
LEMMA LockCorrect == Spec => [](TypeOK /\ LockInv)
<1>1. Init => LockInv
  BY LockInvInit
<1>2. TypeOK /\ LockInv /\ [Next]_vars => LockInv'
  BY LockInvNext
<1>3. QED
  BY <1>1, <1>2, TypeCorrect, PTL DEF Spec

(* While a call may change the table, no other process is in a call:       *)
(* between shared handles by the dictionary lock, else by the open lock.   *)
THEOREM WriterIsAlone == Spec => []WriterAlone
<1>1. LockInv => WriterAlone
  <2> SUFFICES ASSUME LockInv, NEW h \in Handle, NEW g \in Handle,
                      h # g, call[h] = "modify", InCall(g)
               PROVE  FALSE
    BY DEF WriterAlone
  <2> USE DEF LockInv
  <2>1. InCall(h) /\ iisopen[h] = "open" /\ iisopen[g] = "open"
    BY DEF CallsOnOpen, InCall
  <2>2. CASE excl[h]
    BY <2>1, <2>2 DEF OpenIsLocked, WriteLockAlone
  <2>3. CASE ~excl[h] /\ excl[g]
    BY <2>1, <2>3 DEF OpenIsLocked, WriteLockAlone
  <2>4. CASE ~excl[h] /\ ~excl[g]
    BY <2>1, <2>4 DEF CallIsLocked, WriteLockAlone
  <2>5. QED
    BY <2>2, <2>3, <2>4
<1>2. QED
  BY <1>1, LockCorrect, PTL

(* Only calls, and handles open with ISEXCLLOCK or about to be, hold the   *)
(* dictionary lock.                                                        *)
THEOREM DictLockIsReleased == Spec => []DictLockReleased
<1>1. LockInv => DictLockReleased
  BY DEF LockInv
<1>2. QED
  BY <1>1, LockCorrect, PTL

-----------------------------------------------------------------------------
(* The dictionary that shared handles write back.                          *)

(* Neither count nor transaction number goes back.                         *)
Precedes(d, e) == d.count <= e.count /\ d.trans <= e.trans

(* A call reads the dictionary under the lock it writes it back with, so   *)
(* its copy is the one in the file with the call's own changes; a call     *)
(* that only reads writes nothing back.                                    *)
SharedInv ==
  "exclusive" \notin world =>
    \A h \in Handle :
      /\ ~excl[h] /\ call[h] # "opening"
      /\ call[h] = "idle" => iisdictlocked[h] = {}
      /\ call[h] = "read" => 2 \notin iisdictlocked[h]
      /\ call[h] = "modify" => Precedes(file, sdictnode[h])

(* No handle has a dictionary at first.                                    *)
LEMMA SharedInvInit == Init => SharedInv
  BY DEF Init, SharedInv

(* The end of a call among shared handles.                                 *)
LEMMA ExitForward ==
  ASSUME TypeInv, LockInv, SharedInv, "exclusive" \notin world,
         NEW h \in Handle, NEW flags \in SUBSET {1, 2, 4}, InCall(h),
         2 \in flags => call[h] = "modify",
         ivbexit(h, flags)
  PROVE  Precedes(file, file') /\ SharedInv'
<1> DEFINE bump == 2 \in flags /\ 4 \notin flags
           dict == IF bump THEN Bumped(sdictnode[h]) ELSE sdictnode[h]
<1>1. ~excl[h] /\ \A g \in Handle : ~excl[g] /\ call[g] # "opening"
  BY DEF SharedInv
<1>2. /\ UNCHANGED <<world, excl>>
      /\ call' = [call EXCEPT ![h] = "idle"]
      /\ sdictnode' = [sdictnode EXCEPT ![h] = dict]
      /\ iisdictlocked' = [iisdictlocked EXCEPT ![h] = {}]
      /\ file' = file \/ (2 \in flags /\ file' = dict)
  <2>1. 2 \in flags => file' = dict \/ UNCHANGED file
    BY <1>1 DEF ivbexit
  <2>2. 2 \notin flags => UNCHANGED file
    BY <1>1 DEF ivbexit
  <2>3. /\ UNCHANGED <<world, excl>>
        /\ call' = [call EXCEPT ![h] = "idle"]
        /\ sdictnode' = [sdictnode EXCEPT ![h] = dict]
        /\ iisdictlocked' = [iisdictlocked EXCEPT ![h] = {}]
    BY <1>1 DEF ivbexit
  <2>4. QED
    BY <2>1, <2>2, <2>3
<1>3. /\ file \in Dict /\ file.count \in Nat /\ file.trans \in Nat
      /\ sdictnode[h].count \in Nat /\ sdictnode[h].trans \in Nat
  BY DictAssumption DEF TypeInv, TypeOK, Dict
<1>4. call[h] = "modify" => Precedes(file, dict)
  BY <1>3 DEF SharedInv, Precedes, Bumped
<1> HIDE DEF dict
<1>5. Precedes(file, file')
  BY <1>2, <1>3, <1>4 DEF Precedes
<1>6. \A g \in Handle \ {h} : call[g] = "modify" => file' = file
  <2> SUFFICES ASSUME NEW g \in Handle \ {h}, call[g] = "modify", 2 \in flags
               PROVE  FALSE
    BY <1>2
  <2>1. dictlock[g] = "wr" /\ dictlock[h] = "wr"
    BY <1>1 DEF LockInv, CallIsLocked, InCall
  <2>2. QED
    BY <2>1 DEF LockInv, WriteLockAlone
<1>7. SharedInv'
  <2>1. ASSUME NEW g \in Handle \ {h}
        PROVE  /\ call'[g] = call[g] /\ sdictnode'[g] = sdictnode[g]
               /\ iisdictlocked'[g] = iisdictlocked[g]
    BY <1>2 DEF TypeInv, TypeOK
  <2>2. call'[h] = "idle" /\ iisdictlocked'[h] = {}
    BY <1>2 DEF TypeInv, TypeOK
  <2>3. QED
    BY <1>1, <1>2, <1>6, <2>1, <2>2 DEF SharedInv
<1>8. QED
  BY <1>5, <1>7

(* Among shared handles the dictionary in the file only moves forward.     *)
LEMMA SharedForward ==
  ASSUME TypeInv, LockInv, SharedInv, [Next]_vars, "exclusive" \notin world
  PROVE  Precedes(file, file') /\ SharedInv'
<1>1. file.count \in Nat /\ file.trans \in Nat /\ Precedes(file, file)
  BY DictAssumption DEF TypeInv, TypeOK, Dict, Precedes
<1>2. \A g \in Handle : ~excl[g] /\ call[g] # "opening"
  BY DEF SharedInv
<1>3. ASSUME NEW h \in Handle, OpenShared(h) \/ ReopenShared(h)
      PROVE  Precedes(file, file') /\ SharedInv'
  BY <1>1, <1>3
  DEF OpenShared, ReopenShared, memory, SharedInv, TypeInv, TypeOK
<1>4. ASSUME NEW h \in Handle, NEW after \in {"buffered", "absent"},
             Close(h, after)
      PROVE  Precedes(file, file') /\ SharedInv'
  BY <1>1, <1>2, <1>4 DEF Close, SharedInv, TypeInv, TypeOK
<1>5. ASSUME NEW h \in Handle, NEW modifying \in BOOLEAN,
             ivbenter(h, modifying)
      PROVE  Precedes(file, file') /\ SharedInv'
  BY <1>1, <1>2, <1>5 DEF ivbenter, DictRead, SharedInv, TypeInv, TypeOK
<1>6. ASSUME NEW h \in Handle, LoadNodes(h) \/ ivbnodesave(h)
      PROVE  Precedes(file, file') /\ SharedInv'
  BY <1>1, <1>6 DEF LoadNodes, ivbnodesave, locks, SharedInv
<1>7. ASSUME NEW h \in Handle, ChangeDict(h)
      PROVE  Precedes(file, file') /\ SharedInv'
  <2>1. Precedes(file, Counted(sdictnode[h], 1))
    BY <1>1, <1>7, DictAssumption
    DEF ChangeDict, SharedInv, Precedes, Counted, TypeInv, TypeOK, Dict
  <2>2. QED
    BY <1>1, <1>7, <2>1 DEF ChangeDict, locks, SharedInv, TypeInv, TypeOK
<1>8. ASSUME NEW h \in Handle, FinishRead(h)
      PROVE  Precedes(file, file') /\ SharedInv'
  BY <1>8, ExitForward DEF FinishRead, InCall, SharedInv, TypeInv, TypeOK
<1>9. ASSUME NEW h \in Handle, FinishModify(h)
      PROVE  Precedes(file, file') /\ SharedInv'
  BY <1>9, ExitForward DEF FinishModify, InCall, TypeInv, TypeOK
<1>10. ASSUME NEW h \in Handle, FailModify(h)
       PROVE  Precedes(file, file') /\ SharedInv'
  BY <1>10, ExitForward DEF FailModify, InCall, TypeInv, TypeOK
<1>11. ASSUME NEW h \in Handle, Crash(h)
       PROVE  Precedes(file, file') /\ SharedInv'
  BY <1>1, <1>11 DEF Crash, SharedInv, TypeInv, TypeOK
<1>12. CASE UNCHANGED vars
  BY <1>1, <1>12 DEF vars, memory, SharedInv
<1>13. ASSUME NEW h \in Handle, OpenExclRead(h) \/ OpenExclLock(h) PROVE FALSE
  BY <1>2, <1>13 DEF OpenExclRead, OpenExclLock
<1>14. QED
  BY <1>3, <1>4, <1>5, <1>6, <1>7, <1>8, <1>9, <1>10, <1>11, <1>12, <1>13
  DEF Next, isclose, isfullclose

(* What may happen is chosen at the start.                                 *)
LEMMA WorldStays == [Next]_vars => world' = world
  BY DEF Next, vars, memory, locks, OpenShared, ReopenShared, OpenExclRead,
         OpenExclLock, isclose, isfullclose, Close, ivbenter, LoadNodes,
         ivbnodesave, ChangeDict, FinishRead, FinishModify, FailModify,
         ivbexit, Crash

(* Among shared handles no write of the dictionary takes back a count or   *)
(* the transaction number, whoever fails or dies.                          *)
THEOREM NothingIsLost == Spec => NoLostUpdate
<1>1. TypeInv /\ LockInv /\ SharedInv /\ [Next]_vars => SharedInv'
  BY SharedForward, WorldStays DEF SharedInv
<1>2. TypeInv /\ LockInv /\ SharedInv /\ [Next]_vars =>
        [world \subseteq {"fault", "crash"} =>
           file'.count >= file.count /\ file'.trans >= file.trans]_vars
  <2> SUFFICES ASSUME TypeInv, LockInv, SharedInv, [Next]_vars,
                      world \subseteq {"fault", "crash"}
               PROVE  file'.count >= file.count /\ file'.trans >= file.trans
    OBVIOUS
  <2>1. TypeInv'
    BY TypeInvNext
  <2>2. /\ file.count \in Nat /\ file.trans \in Nat
        /\ file'.count \in Nat /\ file'.trans \in Nat
    BY <2>1, DictAssumption DEF TypeInv, TypeOK, Dict
  <2>3. "exclusive" \notin world
    OBVIOUS
  <2>4. QED
    BY <2>2, <2>3, SharedForward DEF Precedes
<1>3. TypeInv => TypeOK
  BY DEF TypeInv
<1>4. QED
  BY <1>1, <1>2, <1>3, TypeInvInit, TypeInvNext, LockInvInit, LockInvNext,
     SharedInvInit, PTL DEF Spec, NoLostUpdate

-----------------------------------------------------------------------------
(* The nodes that shared handles keep from call to call.                   *)

(* The nodes the handle keeps are not those in the file.                   *)
Stale(h) == pstree[h] = "stale"

(* What makes a handle with stale nodes drop them before it uses them: the *)
(* transaction number has moved on since its last call, or it will before  *)
(* the handle gets the dictionary lock, because the call that has written  *)
(* an index node is not over.                                              *)
Outdated(h) ==
  \/ ttranslast[h] < file.trans
  \/ \E g \in Handle : call[g] = "modify" /\ saved[g]

(* Among shared handles of which none fails: every transaction number a    *)
(* handle remembers is one of the file, the copy in a call is the file's,  *)
(* and a handle with stale nodes is outside a call and would drop them.    *)
CacheInv ==
  world = {} =>
    \A h \in Handle :
      /\ ttranslast[h] <= file.trans
      /\ InCall(h) => sdictnode[h].trans = file.trans
      /\ 4 \notin iisdictlocked[h]
      /\ saved[h] => call[h] = "modify"
      /\ Stale(h) => ~InCall(h) /\ Outdated(h)

(* No handle has nodes at first.                                           *)
LEMMA CacheInvInit == Init => CacheInv
<1> SUFFICES ASSUME Init, NEW h \in Handle
             PROVE  /\ ttranslast[h] <= file.trans
                    /\ InCall(h) => sdictnode[h].trans = file.trans
                    /\ 4 \notin iisdictlocked[h]
                    /\ saved[h] => call[h] = "modify"
                    /\ ~Stale(h)
  BY DEF CacheInv
<1>1. QED
  BY DEF Init, InCall, Stale

(* While one shared handle is in a call, no other may change the table.    *)
LEMMA NoOtherWriter ==
  ASSUME LockInv, NEW h \in Handle, NEW g \in Handle, g # h,
         ~excl[h], ~excl[g], InCall(h)
  PROVE  call[g] # "modify"
<1> SUFFICES ASSUME call[g] = "modify" PROVE FALSE
  OBVIOUS
<1>1. dictlock[g] = "wr" /\ dictlock[h] \in {"rd", "wr"}
  BY DEF LockInv, CallIsLocked, InCall
<1>2. QED
  BY <1>1 DEF LockInv, WriteLockAlone

(* The end of a call when nothing fails: a call that has written an index  *)
(* node moves the transaction number on, and nobody has seen the new one.  *)
LEMMA ExitCoherent ==
  ASSUME TypeInv, LockInv, SharedInv, CacheInv, world = {},
         NEW h \in Handle, NEW flags \in SUBSET {1, 2, 4}, InCall(h),
         2 \in flags => call[h] = "modify",
         saved[h] => 2 \in flags /\ 4 \notin flags,
         ivbexit(h, flags)
  PROVE  CacheInv'
<1> DEFINE bump == 2 \in flags /\ 4 \notin flags
           dict == IF bump THEN Bumped(sdictnode[h]) ELSE sdictnode[h]
<1>1. \A g \in Handle : ~excl[g]
  BY DEF SharedInv
<1>2. /\ world' = world /\ pstree' = pstree
      /\ call' = [call EXCEPT ![h] = "idle"]
      /\ saved' = [saved EXCEPT ![h] = FALSE]
      /\ ttranslast' = [ttranslast EXCEPT ![h] = dict.trans]
      /\ sdictnode' = [sdictnode EXCEPT ![h] = dict]
      /\ iisdictlocked' = [iisdictlocked EXCEPT ![h] = {}]
      /\ file' = IF 2 \in flags THEN dict ELSE file
  BY <1>1 DEF ivbexit
<1>3. file.trans \in Nat /\ sdictnode[h].trans = file.trans
  BY DictAssumption DEF TypeInv, TypeOK, Dict, CacheInv
<1>4. dict.trans = IF bump THEN file.trans + 1 ELSE file.trans
  BY <1>3 DEF Bumped
<1>5. /\ dict.trans = file'.trans
      /\ file'.trans = IF bump THEN file.trans + 1 ELSE file.trans
  <2> HIDE DEF dict
  <2>1. QED
    BY <1>2, <1>4
<1>6. /\ ttranslast'[h] = file'.trans /\ call'[h] = "idle" /\ ~saved'[h]
      /\ iisdictlocked'[h] = {}
  <2> HIDE DEF dict
  <2>1. QED
    BY <1>2, <1>5 DEF TypeInv, TypeOK
<1>7. ASSUME NEW g \in Handle \ {h}
      PROVE  /\ ttranslast'[g] = ttranslast[g] /\ call'[g] = call[g]
             /\ saved'[g] = saved[g] /\ sdictnode'[g] = sdictnode[g]
             /\ iisdictlocked'[g] = iisdictlocked[g]
  BY <1>2 DEF TypeInv, TypeOK
<1>8. pstree' = pstree /\ world' = {}
  BY <1>2
<1> HIDE DEF dict, bump
<1>9. file'.trans \in Nat /\ file'.trans >= file.trans
  BY <1>3, <1>5
<1>10. ~Stale(h)'
  BY <1>8 DEF CacheInv, Stale
<1>11. ASSUME NEW g \in Handle \ {h}
       PROVE  /\ ttranslast'[g] <= file'.trans
              /\ InCall(g)' => sdictnode'[g].trans = file'.trans
              /\ 4 \notin iisdictlocked'[g]
              /\ saved'[g] => call'[g] = "modify"
              /\ Stale(g)' => ~InCall(g)' /\ Outdated(g)'
  <2>1. /\ ttranslast[g] <= file.trans /\ ttranslast[g] \in Nat
        /\ InCall(g) => sdictnode[g].trans = file.trans
        /\ 4 \notin iisdictlocked[g]
        /\ saved[g] => call[g] = "modify"
        /\ Stale(g) => ~InCall(g) /\ Outdated(g)
    BY DictAssumption DEF CacheInv, TypeInv, TypeOK
  <2>2. ttranslast'[g] <= file'.trans
    BY <1>3, <1>7, <1>9, <2>1
  <2>3. InCall(g) => ~bump
    BY <1>1, NoOtherWriter DEF bump
  <2>4. InCall(g)' <=> InCall(g)
    BY <1>7 DEF InCall
  <2>5. Stale(g)' <=> Stale(g)
    BY <1>8 DEF Stale
  <2>6. ASSUME Outdated(g) PROVE Outdated(g)'
    <3>1. CASE ttranslast[g] < file.trans
      <4>1. ttranslast'[g] < file'.trans
        BY <1>3, <1>7, <1>9, <2>1, <3>1
      <4>2. QED
        BY <4>1 DEF Outdated
    <3>2. ASSUME NEW m \in Handle, call[m] = "modify", saved[m]
          PROVE  Outdated(g)'
      <4>1. CASE m = h
        <5>1. bump
          BY <3>2, <4>1 DEF bump
        <5>2. ttranslast'[g] < file'.trans
          BY <1>3, <1>5, <1>7, <2>1, <5>1
        <5>3. QED
          BY <5>2 DEF Outdated
      <4>2. CASE m # h
        <5>1. call'[m] = "modify" /\ saved'[m]
          BY <1>7, <3>2, <4>2
        <5>2. QED
          BY <5>1 DEF Outdated
      <4>3. QED
        BY <4>1, <4>2
    <3>3. QED
      BY <2>6, <3>1, <3>2 DEF Outdated
  <2>7. QED
    BY <1>5, <1>7, <2>1, <2>2, <2>3, <2>4, <2>5, <2>6
<1>12. ASSUME NEW g \in Handle
       PROVE  /\ ttranslast'[g] <= file'.trans
              /\ InCall(g)' => sdictnode'[g].trans = file'.trans
              /\ 4 \notin iisdictlocked'[g]
              /\ saved'[g] => call'[g] = "modify"
              /\ Stale(g)' => ~InCall(g)' /\ Outdated(g)'
  <2>1. CASE g = h
    BY <1>6, <1>9, <1>10, <2>1 DEF InCall
  <2>2. CASE g # h
    BY <1>11, <2>2
  <2>3. QED
    BY <2>1, <2>2
<1>13. QED
  BY <1>12 DEF CacheInv

(* No action leaves a handle with stale nodes that it would not drop.      *)
LEMMA CacheInvNext ==
  TypeInv /\ LockInv /\ SharedInv /\ CacheInv /\ [Next]_vars => CacheInv'
<1> SUFFICES ASSUME TypeInv, LockInv, SharedInv, CacheInv, [Next]_vars,
                    world = {}
             PROVE  CacheInv'
  BY WorldStays DEF CacheInv
<1>1. \A g \in Handle : ~excl[g] /\ call[g] # "opening"
  BY DEF SharedInv
<1>2. /\ file.trans \in Nat
      /\ \A g \in Handle : /\ ttranslast[g] <= file.trans
                           /\ InCall(g) => sdictnode[g].trans = file.trans
                           /\ 4 \notin iisdictlocked[g]
                           /\ saved[g] => call[g] = "modify"
                           /\ Stale(g) => ~InCall(g) /\ Outdated(g)
  BY DictAssumption DEF CacheInv, TypeInv, TypeOK, Dict
<1>3. ASSUME NEW h \in Handle, OpenShared(h) PROVE CacheInv'
  BY <1>2, <1>3
  DEF OpenShared, CacheInv, Stale, Outdated, InCall, TypeInv, TypeOK
<1>4. ASSUME NEW h \in Handle, ReopenShared(h) PROVE CacheInv'
  BY <1>2, <1>4 DEF ReopenShared, memory, CacheInv, Stale, Outdated, InCall
<1>5. ASSUME NEW h \in Handle, NEW after \in {"buffered", "absent"},
             Close(h, after)
      PROVE  CacheInv'
  BY <1>1, <1>2, <1>5
  DEF Close, CacheInv, Stale, Outdated, InCall, TypeInv, TypeOK
<1>6. ASSUME NEW h \in Handle, NEW modifying \in BOOLEAN,
             ivbenter(h, modifying)
      PROVE  CacheInv'
  <2>1. /\ call[h] = "idle" /\ sdictnode' = [sdictnode EXCEPT ![h] = file]
        /\ call' = [call EXCEPT ![h] = IF modifying THEN "modify" ELSE "read"]
        /\ iisdictlocked' = [iisdictlocked EXCEPT ![h] = @ \union {1}]
        /\ pstree' = [pstree EXCEPT
             ![h] = IF ttranslast[h] = file.trans THEN @ ELSE "none"]
        /\ UNCHANGED <<world, file, ttranslast, saved>>
    BY <1>1, <1>6 DEF ivbenter, DictRead
  <2>2. \A g \in Handle : call[g] # "modify"
    <3>1. Grants(dictlock, h, IF modifying THEN "wr" ELSE "rd")
      BY <1>1, <1>6 DEF ivbenter
    <3>2. \A g \in Handle : call[g] = "modify" => dictlock[g] = "wr"
      BY <1>1 DEF LockInv, CallIsLocked, InCall
    <3>3. QED
      BY <2>1, <3>1, <3>2 DEF Grants
  <2>3. Stale(h) => ttranslast[h] # file.trans
    BY <1>2, <2>2 DEF Outdated, TypeInv, TypeOK
  <2>4. ~Stale(h)'
    BY <2>1, <2>3 DEF Stale, TypeInv, TypeOK
  <2>5. ASSUME NEW g \in Handle \ {h}
        PROVE  /\ (Stale(g)' <=> Stale(g)) /\ (InCall(g)' <=> InCall(g))
               /\ (Stale(g) => ttranslast[g] < file.trans)
               /\ sdictnode'[g] = sdictnode[g] /\ saved'[g] = saved[g]
               /\ call'[g] = call[g] /\ iisdictlocked'[g] = iisdictlocked[g]
    <3>1. /\ pstree'[g] = pstree[g] /\ call'[g] = call[g]
          /\ sdictnode'[g] = sdictnode[g] /\ saved'[g] = saved[g]
          /\ iisdictlocked'[g] = iisdictlocked[g]
      BY <2>1 DEF TypeInv, TypeOK
    <3>2. Stale(g) => ttranslast[g] < file.trans
      BY <1>2, <2>2 DEF Outdated
    <3>3. QED
      BY <3>1, <3>2 DEF Stale, InCall
  <2>6. /\ sdictnode'[h] = file /\ ~saved[h]
        /\ 4 \notin iisdictlocked'[h]
    BY <1>2, <2>1 DEF TypeInv, TypeOK
  <2>7. ASSUME NEW g \in Handle
        PROVE  /\ ttranslast'[g] <= file'.trans
               /\ InCall(g)' => sdictnode'[g].trans = file'.trans
               /\ 4 \notin iisdictlocked'[g]
               /\ saved'[g] => call'[g] = "modify"
               /\ Stale(g)' => ~InCall(g)' /\ Outdated(g)'
    <3>1. CASE g = h
      BY <1>2, <2>1, <2>4, <2>6, <3>1
    <3>2. CASE g # h
      <4>1. Stale(g) => Outdated(g)'
        BY <2>1, <2>5, <3>2 DEF Outdated
      <4>2. QED
        BY <1>2, <2>1, <2>5, <3>2, <4>1
    <3>3. QED
      BY <3>1, <3>2
  <2>8. QED
    BY <2>7 DEF CacheInv
<1>7. ASSUME NEW h \in Handle, LoadNodes(h) PROVE CacheInv'
  BY <1>2, <1>7
  DEF LoadNodes, locks, CacheInv, Stale, Outdated, InCall, TypeInv, TypeOK
<1>8. ASSUME NEW h \in Handle, ivbnodesave(h) PROVE CacheInv'
  <2>1. /\ call[h] = "modify" /\ pstree[h] # "none"
        /\ saved' = [saved EXCEPT ![h] = TRUE]
        /\ pstree' = [g \in Handle |-> IF g # h /\ pstree[g] = "current"
                                       THEN "stale" ELSE pstree[g]]
        /\ UNCHANGED <<world, file, sdictnode, ttranslast, iisdictlocked,
                       call>>
    BY <1>8 DEF ivbnodesave
  <2>2. saved'[h] /\ \A g \in Handle \ {h} : saved'[g] = saved[g]
    BY <2>1 DEF TypeInv, TypeOK
  <2>3. \A g \in Handle : Outdated(g)'
    BY <2>1, <2>2 DEF Outdated
  <2>4. ~Stale(h)'
    BY <1>2, <2>1 DEF Stale, InCall
  <2>5. \A g \in Handle \ {h} : ~InCall(g)'
    <3>1. \A g \in Handle \ {h} : ~InCall(g)
      BY <1>1, <2>1, NoOtherWriter DEF InCall
    <3>2. QED
      BY <2>1, <3>1 DEF InCall
  <2>6. ASSUME NEW g \in Handle
        PROVE  /\ ttranslast'[g] <= file'.trans
               /\ InCall(g)' => sdictnode'[g].trans = file'.trans
               /\ 4 \notin iisdictlocked'[g]
               /\ saved'[g] => call'[g] = "modify"
    BY <1>2, <2>1, <2>2 DEF InCall
  <2>7. QED
    BY <2>3, <2>4, <2>5, <2>6 DEF CacheInv
<1>9. ASSUME NEW h \in Handle, ChangeDict(h) PROVE CacheInv'
  BY <1>2, <1>9
  DEF ChangeDict, Counted, locks, CacheInv, Stale, Outdated, InCall, TypeInv,
      TypeOK
<1>10. ASSUME NEW h \in Handle, FinishRead(h) PROVE CacheInv'
  <2>1. /\ call[h] = "read" /\ InCall(h) /\ ~saved[h]
        /\ iisdictlocked[h] \union {4} \in SUBSET {1, 2, 4}
        /\ 2 \notin iisdictlocked[h] \union {4}
    BY <1>2, <1>10 DEF FinishRead, InCall, SharedInv, TypeInv, TypeOK
  <2>2. ivbexit(h, iisdictlocked[h] \union {4})
    BY <1>10 DEF FinishRead
  <2>3. QED
    BY <2>1, <2>2, ExitCoherent
<1>11. ASSUME NEW h \in Handle, FinishModify(h) PROVE CacheInv'
  <2>1. /\ call[h] = "modify" /\ InCall(h)
        /\ iisdictlocked[h] \union {2} \in SUBSET {1, 2, 4}
        /\ 4 \notin iisdictlocked[h] \union {2}
    BY <1>2, <1>11 DEF FinishModify, InCall, TypeInv, TypeOK
  <2>2. ivbexit(h, iisdictlocked[h] \union {2})
    BY <1>11 DEF FinishModify
  <2>3. QED
    BY <2>1, <2>2, ExitCoherent
<1>12. ASSUME NEW h \in Handle, FailModify(h) PROVE CacheInv'
  <2>1. /\ call[h] = "modify" /\ InCall(h) /\ ~saved[h]
        /\ iisdictlocked[h] \in SUBSET {1, 2, 4}
    BY <1>12 DEF FailModify, InCall, TypeInv, TypeOK
  <2>2. ivbexit(h, iisdictlocked[h])
    BY <1>12 DEF FailModify
  <2>3. QED
    BY <2>1, <2>2, ExitCoherent
<1>13. CASE UNCHANGED vars
  BY <1>2, <1>13 DEF vars, memory, CacheInv, Stale, Outdated, InCall
<1>14. ASSUME NEW h \in Handle,
              OpenExclRead(h) \/ OpenExclLock(h) \/ Crash(h)
       PROVE  FALSE
  BY <1>1, <1>14 DEF OpenExclRead, OpenExclLock, Crash
<1>15. QED
  BY <1>3, <1>4, <1>5, <1>6, <1>7, <1>8, <1>9, <1>10, <1>11, <1>12, <1>13,
     <1>14
  DEF Next, isclose, isfullclose

(* Among shared handles of which no call fails half way and no process     *)
(* dies, a call works on the nodes that the index file holds.              *)
THEOREM CacheIsCoherent == Spec => []SharedCacheCoherent
<1>1. TypeInv /\ LockInv /\ SharedInv /\ [Next]_vars => SharedInv'
  BY SharedForward, WorldStays DEF SharedInv
<1>2. TypeInv => TypeOK
  BY DEF TypeInv
<1>3. CacheInv => SharedCacheCoherent
  BY DEF CacheInv, SharedCacheCoherent, CacheCoherent, Stale
<1>4. QED
  BY <1>1, <1>2, <1>3, TypeInvInit, TypeInvNext, LockInvInit, LockInvNext,
     SharedInvInit, CacheInvInit, CacheInvNext, PTL DEF Spec
=============================================================================
