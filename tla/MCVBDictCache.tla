--------------------------- MODULE MCVBDictCache ---------------------------
EXTENDS VBDictCache, TLC

(* The processes are alike.                                                *)
Alike == Permutations(Handle)

(* Nothing happens; what can happen to shared handles; everything.         *)
AllWorlds == {{}, {"fault", "crash"}, Happening}

ExclusiveWorld == {{"exclusive"}}
=============================================================================
