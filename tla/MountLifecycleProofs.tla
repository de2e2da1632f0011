------------------------ MODULE MountLifecycleProofs ------------------------
(***************************************************************************)
(* What the mounts share is consistent, for any number of mount points,    *)
(* trees and tables.  IInv (MountLifecycle) is inductive: one lemma per    *)
(* action, and the properties follow from it.                              *)
(***************************************************************************)
EXTENDS MountLifecycle, FiniteSetTheorems, TLAPS

USE MountLifecycleAssumption

\* The mounts that are counted; CountExact says how many they are.
CountedMounts == {m \in Mounts : pc[m] \in Counted}

LEMMA CountedFinite == IsFiniteSet(CountedMounts)
  <1>1. CountedMounts \in SUBSET Mounts
    BY Zenon DEF CountedMounts
  <1> QED
    BY <1>1, FS_Subset, Zenon

LEMMA InitInv == Init => IInv
  <1> SUFFICES ASSUME Init PROVE IInv
    BY Zenon
  <1>1. TypeOK
    <2>1. overlapped \in BOOLEAN /\ plural \in BOOLEAN
      BY Zenon DEF Init
    <2> QED
      BY <2>1, Zenon DEF Init, TypeOK
  <1>2. CountExact
    <2>1. {m \in Mounts : pc[m] \in Counted} = {}
      BY Zenon DEF Init, Counted
    <2> QED
      BY <2>1, FS_EmptySet, Zenon DEF Init, CountExact
  <1>3. LoadInv /\ ResourcesMatch
    BY Zenon DEF Init, LoadInv, ResourcesMatch
  <1>4. HistoryInv
    BY Zenon DEF Init, HistoryInv, Busy
  <1>5. IdInv /\ UniqueIds
    BY DEF Init, IdInv, UniqueIds
  <1>6. TableInv /\ TreeInv
    BY Zenon DEF Init, TableInv, TreeInv
  <1>7. SoleInv
    BY Zenon DEF Init, SoleInv
  <1> QED
    BY <1>1, <1>2, <1>3, <1>4, <1>5, <1>6, <1>7, Zenon DEF IInv

-----------------------------------------------------------------------------
(* Loading and unloading.                                                  *)

\* Loading and unloading touch the counter of ids only when there is no mount.
LEMMA KextInv ==
    ASSUME IInv,
           InitTag \/ InitGrp \/ InitMutex \/ InitFail
             \/ FsAdd \/ FsAddFail \/ FsRemove \/ Fini
    PROVE  IInv'
  <1>1. /\ UNCHANGED instances /\ UNCHANGED treeVars /\ UNCHANGED tableVars
        /\ UNCHANGED mountVars /\ UNCHANGED history
        /\ mountId' = mountId
             \/ (mountId' = 0 /\ \A m \in Mounts : pc[m] = "none")
    <2>1. CASE InitTag
      BY <2>1, Zenon DEF InitTag
    <2>2. CASE InitGrp \/ InitMutex \/ InitFail
      BY <2>2, Zenon DEF InitGrp, InitMutex, InitFail, sharedVars, countVars
    <2>3. CASE FsAdd \/ FsAddFail \/ FsRemove \/ Fini
      BY <2>3, Zenon DEF FsAdd, FsAddFail, FsRemove, Fini, sharedVars, countVars
    <2> QED
      BY <2>1, <2>2, <2>3, Zenon
  <1>2. /\ kext' \in {"unloaded", "tag", "grp", "mutex", "loaded", "removed"}
        /\ resources' \subseteq {"tag", "grp", "mutex"}
        /\ LoadInv'
    <2>1. /\ kext = "loaded" => kext' = "removed" /\ \A m \in Mounts : pc[m] = "none"
          /\ kext' \in {"unloaded", "tag", "grp", "mutex", "loaded", "removed"}
      BY Zenon DEF InitTag, InitGrp, InitMutex, InitFail, FsAdd, FsAddFail, FsRemove, Fini
    <2>2. /\ resources' \subseteq {"tag", "grp", "mutex"}
          /\ "tag" \in resources' <=> kext' # "unloaded"
          /\ "grp" \in resources' <=> kext' \notin {"unloaded", "tag"}
          /\ "mutex" \in resources' <=> kext' \in {"mutex", "loaded", "removed"}
      BY Zenon DEF IInv, TypeOK, LoadInv,
             InitTag, InitGrp, InitMutex, InitFail, FsAdd, FsAddFail, FsRemove, Fini
    <2> QED
      BY <1>1, <2>1, <2>2, Zenon DEF IInv, LoadInv, mountVars
  <1>3. ResourcesMatch'
    BY <1>2, Zenon DEF LoadInv, ResourcesMatch
  <1>4. TypeOK'
    <2>1. overlapped' \in BOOLEAN /\ plural' \in BOOLEAN
      BY <1>1, Zenon DEF IInv, TypeOK, history
    <2> QED
      BY <1>1, <1>2, <2>1 DEF IInv, TypeOK, treeVars, tableVars, mountVars
  <1>5. CountExact' /\ HistoryInv'
    BY <1>1, Zenon DEF IInv, CountExact, HistoryInv, Busy, mountVars, history
  <1>6. IdInv' /\ UniqueIds'
    BY <1>1 DEF IInv, IdInv, UniqueIds, mountVars, history
  <1>7. TableInv' /\ TreeInv' /\ SoleInv'
    BY <1>1, Zenon DEF IInv, TableInv, TreeInv, SoleInv, treeVars, tableVars, mountVars,
                history
  <1> QED
    BY <1>2, <1>3, <1>4, <1>5, <1>6, <1>7, Zenon DEF IInv

-----------------------------------------------------------------------------
(* A step of one mount.                                                    *)

Places == Mounting \cup Unmounting \cup {"none", "mounted"}

LEMMA PcAfter ==
    ASSUME IInv, NEW m \in Mounts, NEW w \in Places, Goto(m, w)
    PROVE  /\ pc' \in [Mounts -> Places]
           /\ pc'[m] = w
           /\ \A n \in Mounts : n # m => pc'[n] = pc[n]
  BY Zenon DEF IInv, TypeOK, Goto, Places

\* The count after a step that neither counts the mount nor stops counting it,
\* after the increment and after the decrement.
LEMMA CountStep ==
    ASSUME IInv, NEW m \in Mounts,
           pc'[m] \in Counted <=> pc[m] \in Counted,
           \A n \in Mounts : n # m => pc'[n] = pc[n],
           instances' = instances
    PROVE  CountExact'
  <1>1. {n \in Mounts : pc'[n] \in Counted} = {n \in Mounts : pc[n] \in Counted}
    BY Zenon
  <1> QED
    BY <1>1, Zenon DEF IInv, CountExact

\* What holds of every step of a mount or an unmount that is under way: it does
\* not concern loading, and it starts no operation.
LEMMA OpStep ==
    ASSUME IInv, NEW m \in Mounts, Busy(m),
           pc' \in [Mounts -> Places],
           \A n \in Mounts : n # m => pc'[n] = pc[n],
           UNCHANGED kextVars, UNCHANGED history
    PROVE  /\ LoadInv' /\ ResourcesMatch'
           /\ HistoryInv'
           /\ overlapped' \in BOOLEAN /\ plural' \in BOOLEAN
           /\ ~overlapped => \A n \in Mounts : n # m => ~Busy(n)
           /\ ~plural => \A n \in Mounts : n # m => pc[n] = "none"
  <1>1. LoadInv' /\ ResourcesMatch'
    BY Zenon DEF IInv, LoadInv, ResourcesMatch, kextVars, Busy
  <1>2. HistoryInv'
    BY Zenon DEF IInv, HistoryInv, history, Busy
  <1>3. overlapped' \in BOOLEAN /\ plural' \in BOOLEAN
    BY Zenon DEF IInv, TypeOK, history
  <1>4. /\ ~overlapped => \A n \in Mounts : n # m => ~Busy(n)
        /\ ~plural => \A n \in Mounts : n # m => pc[n] = "none"
    BY Zenon DEF IInv, HistoryInv, Busy
  <1> QED
    BY <1>1, <1>2, <1>3, <1>4, Zenon

LEMMA TakeIdInv ==
    ASSUME IInv, NEW m \in Mounts, TakeId(m)
    PROVE  IInv'
  <1>1. /\ pc[m] = "id"
        /\ Goto(m, "count")
        /\ id' = [id EXCEPT ![m] = mountId] /\ UNCHANGED node
        /\ UNCHANGED mountId /\ UNCHANGED instances
        /\ UNCHANGED root /\ UNCHANGED trees /\ UNCHANGED grown
        /\ UNCHANGED buckets /\ UNCHANGED tables
        /\ UNCHANGED kextVars /\ UNCHANGED history
    BY Zenon DEF TakeId, sharedVars, countVars, treeVars, tableVars
  <1>2. /\ pc' \in [Mounts -> Places]
        /\ pc'[m] = "count"
        /\ \A n \in Mounts : n # m => pc'[n] = pc[n]
    BY <1>1, PcAfter, Zenon DEF Places, Mounting, Unmounting
  <1>3. /\ LoadInv' /\ ResourcesMatch' /\ HistoryInv'
        /\ overlapped' \in BOOLEAN /\ plural' \in BOOLEAN
        /\ ~overlapped => \A n \in Mounts : n # m => ~Busy(n)
        /\ ~plural => \A n \in Mounts : n # m => pc[n] = "none"
    BY <1>1, <1>2, OpStep, Zenon DEF Busy
  <1>4. TypeOK'
    BY <1>1, <1>2, <1>3, Zenon DEF IInv, TypeOK, kextVars, Places
  <1>5. CountExact'
    BY <1>1, <1>2, CountStep, Zenon DEF Counted
  <1>6. IdInv' /\ UniqueIds'
    <2>1. id'[m] = mountId /\ \A n \in Mounts : n # m => id'[n] = id[n]
      BY <1>1, Zenon DEF IInv, TypeOK
    <2>2. IdInv'
      BY <1>1, <1>2, <1>3, <2>1
      DEF IInv, TypeOK, IdInv, Unmounting, history, Busy
    <2>3. UniqueIds'
      BY <1>1, <2>1 DEF IInv, TypeOK, IdInv, UniqueIds, history
    <2> QED
      BY <2>2, <2>3, Zenon
  <1>7. TableInv'
    BY <1>1, <1>2, <1>3, Zenon DEF IInv, TableInv, Busy, Unmounting, history
  <1>8. TreeInv'
    BY <1>1, <1>2, <1>3, Zenon DEF IInv, TreeInv, Busy, Unmounting, history
  <1>9. SoleInv'
    BY <1>1, <1>2, <1>3, Zenon DEF IInv, SoleInv, Busy, Unmounting, history
  <1> QED
    BY <1>3, <1>4, <1>5, <1>6, <1>7, <1>8, <1>9, Zenon DEF IInv

LEMMA CountMountInv ==
    ASSUME IInv, NEW m \in Mounts, CountMount(m)
    PROVE  IInv'
  <1>1. /\ pc[m] = "count"
        /\ Goto(m, "structure")
        /\ instances' = instances + 1 /\ UNCHANGED mountId
        /\ UNCHANGED id /\ UNCHANGED node
        /\ UNCHANGED root /\ UNCHANGED trees /\ UNCHANGED grown
        /\ UNCHANGED buckets /\ UNCHANGED tables
        /\ UNCHANGED kextVars /\ UNCHANGED history
    BY Zenon DEF CountMount, sharedVars, countVars, treeVars, tableVars
  <1>2. /\ pc' \in [Mounts -> Places]
        /\ pc'[m] = "structure"
        /\ \A n \in Mounts : n # m => pc'[n] = pc[n]
    BY <1>1, PcAfter, Zenon DEF Places, Mounting, Unmounting
  <1>3. /\ LoadInv' /\ ResourcesMatch' /\ HistoryInv'
        /\ overlapped' \in BOOLEAN /\ plural' \in BOOLEAN
        /\ ~overlapped => \A n \in Mounts : n # m => ~Busy(n)
        /\ ~plural => \A n \in Mounts : n # m => pc[n] = "none"
    BY <1>1, <1>2, OpStep, Zenon DEF Busy
  <1>4. TypeOK'
    BY <1>1, <1>2, <1>3, Zenon DEF IInv, TypeOK, kextVars, Places
  <1>5. CountExact'
    <2>1. {n \in Mounts : pc'[n] \in Counted} = CountedMounts \cup {m}
      BY <1>1, <1>2, Zenon DEF CountedMounts, Counted
    <2>2. m \notin CountedMounts
      BY <1>1, Zenon DEF CountedMounts, Counted
    <2> QED
      BY <1>1, <2>1, <2>2, CountedFinite, FS_AddElement, Zenon
      DEF IInv, CountExact, CountedMounts
  <1>6. IdInv' /\ UniqueIds'
    BY <1>1, <1>2, Zenon DEF IInv, IdInv, UniqueIds, Unmounting, history
  <1>7. TableInv'
    BY <1>1, <1>2, <1>3, Zenon DEF IInv, TableInv, Busy, Unmounting, history
  <1>8. TreeInv'
    BY <1>1, <1>2, <1>3, Zenon DEF IInv, TreeInv, Busy, Unmounting, history
  <1>9. SoleInv'
    BY <1>1, <1>2, <1>3, Zenon DEF IInv, SoleInv, Busy, Unmounting, history
  <1> QED
    BY <1>3, <1>4, <1>5, <1>6, <1>7, <1>8, <1>9, Zenon DEF IInv

LEMMA StructureCheckInv ==
    ASSUME IInv, NEW m \in Mounts, StructureCheck(m)
    PROVE  IInv'
  <1>1. /\ pc[m] = "structure"
        /\ Goto(m, IF root = NULL THEN "alloc" ELSE "hash")
        /\ UNCHANGED id /\ UNCHANGED node
        /\ UNCHANGED mountId /\ UNCHANGED instances
        /\ UNCHANGED root /\ UNCHANGED trees /\ UNCHANGED grown
        /\ UNCHANGED buckets /\ UNCHANGED tables
        /\ UNCHANGED kextVars /\ UNCHANGED history
    BY Zenon DEF StructureCheck, sharedVars, countVars, treeVars, tableVars
  <1>2. /\ pc' \in [Mounts -> Places]
        /\ pc'[m] = IF root = NULL THEN "alloc" ELSE "hash"
        /\ \A n \in Mounts : n # m => pc'[n] = pc[n]
    BY <1>1, PcAfter, Zenon DEF Places, Mounting, Unmounting
  <1>3. /\ LoadInv' /\ ResourcesMatch' /\ HistoryInv'
        /\ overlapped' \in BOOLEAN /\ plural' \in BOOLEAN
        /\ ~overlapped => \A n \in Mounts : n # m => ~Busy(n)
        /\ ~plural => \A n \in Mounts : n # m => pc[n] = "none"
    BY <1>1, <1>2, OpStep, Zenon DEF Busy
  <1>4. TypeOK'
    BY <1>1, <1>2, <1>3, Zenon DEF IInv, TypeOK, kextVars, Places
  <1>5. CountExact'
    BY <1>1, <1>2, CountStep, Zenon DEF Counted
  <1>6. IdInv' /\ UniqueIds'
    BY <1>1, <1>2, Zenon DEF IInv, IdInv, UniqueIds, Unmounting, history
  <1>7. TableInv'
    BY <1>1, <1>2, <1>3, Zenon DEF IInv, TableInv, Busy, Unmounting, history
  <1>8. TreeInv'
    BY <1>1, <1>2, <1>3, Zenon DEF IInv, TreeInv, Busy, Unmounting, history
  <1>9. SoleInv'
    <2>1. ~plural => root = NULL
      BY <1>1, <1>3, Zenon DEF IInv, HistoryInv, TreeInv, Unmounting
    <2> QED
      BY <1>1, <1>2, <1>3, <2>1, Zenon DEF IInv, SoleInv, history
  <1> QED
    BY <1>3, <1>4, <1>5, <1>6, <1>7, <1>8, <1>9, Zenon DEF IInv

LEMMA StructureRootInv ==
    ASSUME IInv, NEW m \in Mounts, StructureRoot(m)
    PROVE  IInv'
  <1>1. /\ pc[m] = "alloc"
        /\ Goto(m, "grow")
        /\ root' \in Trees \ trees /\ trees' = trees \cup {root'} /\ UNCHANGED grown
        /\ UNCHANGED id /\ UNCHANGED node
        /\ UNCHANGED mountId /\ UNCHANGED instances
        /\ UNCHANGED buckets /\ UNCHANGED tables
        /\ UNCHANGED kextVars /\ UNCHANGED history
    BY Zenon DEF StructureRoot, sharedVars, countVars, treeVars, tableVars
  <1>2. /\ pc' \in [Mounts -> Places]
        /\ pc'[m] = "grow"
        /\ \A n \in Mounts : n # m => pc'[n] = pc[n]
    BY <1>1, PcAfter, Zenon DEF Places, Mounting, Unmounting
  <1>3. /\ LoadInv' /\ ResourcesMatch' /\ HistoryInv'
        /\ overlapped' \in BOOLEAN /\ plural' \in BOOLEAN
        /\ ~overlapped => \A n \in Mounts : n # m => ~Busy(n)
        /\ ~plural => \A n \in Mounts : n # m => pc[n] = "none"
    BY <1>1, <1>2, OpStep, Zenon DEF Busy
  <1>4. TypeOK'
    BY <1>1, <1>2, <1>3, Zenon DEF IInv, TypeOK, kextVars, Places
  <1>5. CountExact'
    BY <1>1, <1>2, CountStep, Zenon DEF Counted
  <1>6. IdInv' /\ UniqueIds'
    BY <1>1, <1>2, Zenon DEF IInv, IdInv, UniqueIds, Unmounting, history
  <1>7. TableInv'
    BY <1>1, <1>2, <1>3, Zenon DEF IInv, TableInv, Busy, Unmounting, history
  <1>8. TreeInv'
    BY <1>1, <1>2, <1>3, Zenon DEF IInv, TypeOK, TreeInv, Busy, Unmounting, history
  <1>9. SoleInv'
    BY <1>1, <1>2, <1>3, Zenon DEF IInv, TableInv, SoleInv, history
  <1> QED
    BY <1>3, <1>4, <1>5, <1>6, <1>7, <1>8, <1>9, Zenon DEF IInv

LEMMA StructureGrowInv ==
    ASSUME IInv, NEW m \in Mounts, StructureGrow(m)
    PROVE  IInv'
  <1>1. /\ pc[m] = "grow"
        /\ Goto(m, "hash")
        /\ grown' = grown \cup ({root} \ {NULL})
        /\ UNCHANGED root /\ UNCHANGED trees
        /\ UNCHANGED id /\ UNCHANGED node
        /\ UNCHANGED mountId /\ UNCHANGED instances
        /\ UNCHANGED buckets /\ UNCHANGED tables
        /\ UNCHANGED kextVars /\ UNCHANGED history
    BY Zenon DEF StructureGrow, sharedVars, countVars, treeVars, tableVars
  <1>2. /\ pc' \in [Mounts -> Places]
        /\ pc'[m] = "hash"
        /\ \A n \in Mounts : n # m => pc'[n] = pc[n]
    BY <1>1, PcAfter, Zenon DEF Places, Mounting, Unmounting
  <1>3. /\ LoadInv' /\ ResourcesMatch' /\ HistoryInv'
        /\ overlapped' \in BOOLEAN /\ plural' \in BOOLEAN
        /\ ~overlapped => \A n \in Mounts : n # m => ~Busy(n)
        /\ ~plural => \A n \in Mounts : n # m => pc[n] = "none"
    BY <1>1, <1>2, OpStep, Zenon DEF Busy
  <1>4. TypeOK'
    BY <1>1, <1>2, <1>3, Zenon DEF IInv, TypeOK, kextVars, Places
  <1>5. CountExact'
    BY <1>1, <1>2, CountStep, Zenon DEF Counted
  <1>6. IdInv' /\ UniqueIds'
    BY <1>1, <1>2, Zenon DEF IInv, IdInv, UniqueIds, Unmounting, history
  <1>7. TableInv'
    BY <1>1, <1>2, <1>3, Zenon DEF IInv, TableInv, Busy, Unmounting, history
  <1>8. TreeInv'
    BY <1>1, <1>2, <1>3, Zenon DEF IInv, TreeInv, Busy, Unmounting, history
  <1>9. SoleInv'
    BY <1>1, <1>2, <1>3, Zenon DEF IInv, TypeOK, SoleInv, Busy, Unmounting, history
  <1> QED
    BY <1>3, <1>4, <1>5, <1>6, <1>7, <1>8, <1>9, Zenon DEF IInv

LEMMA HashInitInv ==
    ASSUME IInv, NEW m \in Mounts, HashInit(m)
    PROVE  IInv'
  <1>1. /\ pc[m] = "hash"
        /\ Goto(m, "mounted")
        /\ \/ /\ buckets = NULL
              /\ buckets' \in Tables \ tables /\ tables' = tables \cup {buckets'}
           \/ buckets # NULL /\ UNCHANGED buckets /\ UNCHANGED tables
        /\ UNCHANGED id /\ UNCHANGED node
        /\ UNCHANGED mountId /\ UNCHANGED instances
        /\ UNCHANGED root /\ UNCHANGED trees /\ UNCHANGED grown
        /\ UNCHANGED kextVars /\ UNCHANGED history
    BY Zenon DEF HashInit, sharedVars, countVars, treeVars, tableVars
  <1>2. /\ pc' \in [Mounts -> Places]
        /\ pc'[m] = "mounted"
        /\ \A n \in Mounts : n # m => pc'[n] = pc[n]
    BY <1>1, PcAfter, Zenon DEF Places, Mounting, Unmounting
  <1>3. /\ LoadInv' /\ ResourcesMatch' /\ HistoryInv'
        /\ overlapped' \in BOOLEAN /\ plural' \in BOOLEAN
        /\ ~overlapped => \A n \in Mounts : n # m => ~Busy(n)
        /\ ~plural => \A n \in Mounts : n # m => pc[n] = "none"
    BY <1>1, <1>2, OpStep, Zenon DEF Busy
  <1>4. TypeOK'
    BY <1>1, <1>2, <1>3, Zenon DEF IInv, TypeOK, kextVars, Places
  <1>5. CountExact'
    BY <1>1, <1>2, CountStep, Zenon DEF Counted
  <1>6. IdInv' /\ UniqueIds'
    BY <1>1, <1>2, Zenon DEF IInv, IdInv, UniqueIds, Unmounting, history
  <1>7. TableInv'
    BY <1>1, <1>2, <1>3 DEF IInv, TypeOK, TableInv, Busy, Unmounting, history
  <1>8. TreeInv'
    BY <1>1, <1>2, <1>3, Zenon DEF IInv, TreeInv, Busy, Unmounting, history
  <1>9. SoleInv'
    BY <1>1, <1>2, <1>3, Zenon DEF IInv, SoleInv, Busy, Unmounting, history
  <1> QED
    BY <1>3, <1>4, <1>5, <1>6, <1>7, <1>8, <1>9, Zenon DEF IInv

LEMMA DecrementInv ==
    ASSUME IInv, NEW m \in Mounts, Decrement(m)
    PROVE  IInv'
  <1>1. /\ pc[m] = "decrement"
        /\ Goto(m, IF instances = 1 THEN "hashfree" ELSE "release")
        /\ instances' = instances - 1 /\ UNCHANGED mountId
        /\ UNCHANGED id /\ UNCHANGED node
        /\ UNCHANGED root /\ UNCHANGED trees /\ UNCHANGED grown
        /\ UNCHANGED buckets /\ UNCHANGED tables
        /\ UNCHANGED kextVars /\ UNCHANGED history
    BY Zenon DEF Decrement, sharedVars, countVars, treeVars, tableVars
  <1>2. /\ pc' \in [Mounts -> Places]
        /\ pc'[m] = IF instances = 1 THEN "hashfree" ELSE "release"
        /\ \A n \in Mounts : n # m => pc'[n] = pc[n]
    BY <1>1, PcAfter, Zenon DEF Places, Mounting, Unmounting
  <1>3. /\ LoadInv' /\ ResourcesMatch' /\ HistoryInv'
        /\ overlapped' \in BOOLEAN /\ plural' \in BOOLEAN
        /\ ~overlapped => \A n \in Mounts : n # m => ~Busy(n)
        /\ ~plural => \A n \in Mounts : n # m => pc[n] = "none"
    BY <1>1, <1>2, OpStep, Zenon DEF Busy
  <1>4. TypeOK'
    BY <1>1, <1>2, <1>3, Zenon DEF IInv, TypeOK, kextVars, Places
  <1>5. CountExact'
    <2>1. {n \in Mounts : pc'[n] \in Counted} = CountedMounts \ {m}
      BY <1>1, <1>2, Zenon DEF CountedMounts, Counted
    <2>2. m \in CountedMounts
      BY <1>1, Zenon DEF CountedMounts, Counted
    <2> QED
      BY <1>1, <2>1, <2>2, CountedFinite, FS_RemoveElement, Zenon
      DEF IInv, CountExact, CountedMounts
  <1>6. IdInv' /\ UniqueIds'
    BY <1>1, <1>2, Zenon DEF IInv, IdInv, UniqueIds, Unmounting, history
  <1>7. TableInv'
    <2>1. m \in CountedMounts /\ instances = Cardinality(CountedMounts)
      BY <1>1, Zenon DEF CountedMounts, Counted, IInv, CountExact
    <2>2. instances = 1 <=> CountedMounts = {m}
      BY <2>1, CountedFinite, FS_Singleton
    <2>3. ASSUME ~overlapped, instances = 1, NEW n \in Mounts, n # m
          PROVE  pc'[n] = "none"
      BY <1>2, <1>3, <2>2, <2>3, Zenon DEF CountedMounts, Counted, Busy
    <2>4. ASSUME ~overlapped, instances # 1
          PROVE  \E n \in Mounts : pc'[n] = "mounted"
      <3>1. PICK n \in CountedMounts : n # m
        BY <2>1, <2>2, <2>4, Zenon
      <3> QED
        BY <1>2, <1>3, <2>4, <3>1, Zenon DEF CountedMounts, Counted, Busy
    <2> QED
      BY <1>1, <1>2, <1>3, <2>3, <2>4, Zenon DEF IInv, TableInv, Busy, history
  <1>8. TreeInv'
    BY <1>1, <1>2, <1>3, Zenon DEF IInv, TreeInv, Busy, Unmounting, history
  <1>9. SoleInv'
    BY <1>1, <1>2, <1>3, Zenon DEF IInv, SoleInv, Busy, Unmounting, history
  <1> QED
    BY <1>3, <1>4, <1>5, <1>6, <1>7, <1>8, <1>9, Zenon DEF IInv

LEMMA HashFreeInv ==
    ASSUME IInv, NEW m \in Mounts, HashFree(m)
    PROVE  IInv'
  <1>1. /\ pc[m] = "hashfree"
        /\ Goto(m, IF buckets = NULL THEN "release" ELSE "hashclear")
        /\ tables' = tables \ {buckets} /\ UNCHANGED buckets
        /\ UNCHANGED id /\ UNCHANGED node
        /\ UNCHANGED mountId /\ UNCHANGED instances
        /\ UNCHANGED root /\ UNCHANGED trees /\ UNCHANGED grown
        /\ UNCHANGED kextVars /\ UNCHANGED history
    BY Zenon DEF HashFree, sharedVars, countVars, treeVars, tableVars
  <1>2. /\ pc' \in [Mounts -> Places]
        /\ pc'[m] = IF buckets = NULL THEN "release" ELSE "hashclear"
        /\ \A n \in Mounts : n # m => pc'[n] = pc[n]
    BY <1>1, PcAfter, Zenon DEF Places, Mounting, Unmounting
  <1>3. /\ LoadInv' /\ ResourcesMatch' /\ HistoryInv'
        /\ overlapped' \in BOOLEAN /\ plural' \in BOOLEAN
        /\ ~overlapped => \A n \in Mounts : n # m => ~Busy(n)
        /\ ~plural => \A n \in Mounts : n # m => pc[n] = "none"
    BY <1>1, <1>2, OpStep, Zenon DEF Busy
  <1>4. TypeOK'
    BY <1>1, <1>2, <1>3, Zenon DEF IInv, TypeOK, kextVars, Places
  <1>5. CountExact'
    BY <1>1, <1>2, CountStep, Zenon DEF Counted
  <1>6. IdInv' /\ UniqueIds'
    BY <1>1, <1>2, Zenon DEF IInv, IdInv, UniqueIds, Unmounting, history
  <1>7. TableInv'
    BY <1>1, <1>2, <1>3, Zenon DEF IInv, TableInv, Busy, Unmounting, history
  <1>8. TreeInv'
    BY <1>1, <1>2, <1>3, Zenon DEF IInv, TreeInv, Busy, Unmounting, history
  <1>9. SoleInv'
    BY <1>1, <1>2, <1>3, Zenon DEF IInv, SoleInv, Busy, Unmounting, history
  <1> QED
    BY <1>3, <1>4, <1>5, <1>6, <1>7, <1>8, <1>9, Zenon DEF IInv

LEMMA HashClearInv ==
    ASSUME IInv, NEW m \in Mounts, HashClear(m)
    PROVE  IInv'
  <1>1. /\ pc[m] = "hashclear"
        /\ Goto(m, "release")
        /\ buckets' = NULL /\ UNCHANGED tables
        /\ UNCHANGED id /\ UNCHANGED node
        /\ UNCHANGED mountId /\ UNCHANGED instances
        /\ UNCHANGED root /\ UNCHANGED trees /\ UNCHANGED grown
        /\ UNCHANGED kextVars /\ UNCHANGED history
    BY Zenon DEF HashClear, sharedVars, countVars, treeVars, tableVars
  <1>2. /\ pc' \in [Mounts -> Places]
        /\ pc'[m] = "release"
        /\ \A n \in Mounts : n # m => pc'[n] = pc[n]
    BY <1>1, PcAfter, Zenon DEF Places, Mounting, Unmounting
  <1>3. /\ LoadInv' /\ ResourcesMatch' /\ HistoryInv'
        /\ overlapped' \in BOOLEAN /\ plural' \in BOOLEAN
        /\ ~overlapped => \A n \in Mounts : n # m => ~Busy(n)
        /\ ~plural => \A n \in Mounts : n # m => pc[n] = "none"
    BY <1>1, <1>2, OpStep, Zenon DEF Busy
  <1>4. TypeOK'
    BY <1>1, <1>2, <1>3, Zenon DEF IInv, TypeOK, kextVars, Places
  <1>5. CountExact'
    BY <1>1, <1>2, CountStep, Zenon DEF Counted
  <1>6. IdInv' /\ UniqueIds'
    BY <1>1, <1>2, Zenon DEF IInv, IdInv, UniqueIds, Unmounting, history
  <1>7. TableInv'
    BY <1>1, <1>2, <1>3, Zenon DEF IInv, TableInv, Busy, Unmounting, history
  <1>8. TreeInv'
    BY <1>1, <1>2, <1>3, Zenon DEF IInv, TreeInv, Busy, Unmounting, history
  <1>9. SoleInv'
    BY <1>1, <1>2, <1>3, Zenon DEF IInv, SoleInv, Busy, Unmounting, history
  <1> QED
    BY <1>3, <1>4, <1>5, <1>6, <1>7, <1>8, <1>9, Zenon DEF IInv

LEMMA StructureReleaseInv ==
    ASSUME IInv, NEW m \in Mounts, StructureRelease(m)
    PROVE  IInv'
  <1>1. /\ pc[m] = "release"
        /\ Goto(m, IF root = NULL THEN "none" ELSE "clear")
        /\ trees' = trees \ {root} /\ grown' = grown \ {root} /\ UNCHANGED root
        /\ UNCHANGED id /\ UNCHANGED node
        /\ UNCHANGED mountId /\ UNCHANGED instances
        /\ UNCHANGED buckets /\ UNCHANGED tables
        /\ UNCHANGED kextVars /\ UNCHANGED history
    BY Zenon DEF StructureRelease, sharedVars, countVars, treeVars, tableVars
  <1>2. /\ pc' \in [Mounts -> Places]
        /\ pc'[m] = IF root = NULL THEN "none" ELSE "clear"
        /\ \A n \in Mounts : n # m => pc'[n] = pc[n]
    BY <1>1, PcAfter, Zenon DEF Places, Mounting, Unmounting
  <1>3. /\ LoadInv' /\ ResourcesMatch' /\ HistoryInv'
        /\ overlapped' \in BOOLEAN /\ plural' \in BOOLEAN
        /\ ~overlapped => \A n \in Mounts : n # m => ~Busy(n)
        /\ ~plural => \A n \in Mounts : n # m => pc[n] = "none"
    BY <1>1, <1>2, OpStep, Zenon DEF Busy
  <1>4. TypeOK'
    BY <1>1, <1>2, <1>3, Zenon DEF IInv, TypeOK, kextVars, Places
  <1>5. CountExact'
    BY <1>1, <1>2, CountStep, Zenon DEF Counted
  <1>6. IdInv' /\ UniqueIds'
    BY <1>1, <1>2, Zenon DEF IInv, IdInv, UniqueIds, Unmounting, history
  <1>7. TableInv'
    BY <1>1, <1>2, <1>3, Zenon DEF IInv, TableInv, Busy, Unmounting, history
  <1>8. TreeInv'
    BY <1>1, <1>2, <1>3, Zenon DEF IInv, TreeInv, Busy, Unmounting, history
  <1>9. SoleInv'
    BY <1>1, <1>2, <1>3, Zenon DEF IInv, SoleInv, Busy, Unmounting, history
  <1> QED
    BY <1>3, <1>4, <1>5, <1>6, <1>7, <1>8, <1>9, Zenon DEF IInv

LEMMA StructureClearInv ==
    ASSUME IInv, NEW m \in Mounts, StructureClear(m)
    PROVE  IInv'
  <1>1. /\ pc[m] = "clear"
        /\ Goto(m, "none")
        /\ root' = NULL /\ UNCHANGED trees /\ UNCHANGED grown
        /\ UNCHANGED id /\ UNCHANGED node
        /\ UNCHANGED mountId /\ UNCHANGED instances
        /\ UNCHANGED buckets /\ UNCHANGED tables
        /\ UNCHANGED kextVars /\ UNCHANGED history
    BY Zenon DEF StructureClear, sharedVars, countVars, treeVars, tableVars
  <1>2. /\ pc' \in [Mounts -> Places]
        /\ pc'[m] = "none"
        /\ \A n \in Mounts : n # m => pc'[n] = pc[n]
    BY <1>1, PcAfter, Zenon DEF Places, Mounting, Unmounting
  <1>3. /\ LoadInv' /\ ResourcesMatch' /\ HistoryInv'
        /\ overlapped' \in BOOLEAN /\ plural' \in BOOLEAN
        /\ ~overlapped => \A n \in Mounts : n # m => ~Busy(n)
        /\ ~plural => \A n \in Mounts : n # m => pc[n] = "none"
    BY <1>1, <1>2, OpStep, Zenon DEF Busy
  <1>4. TypeOK'
    BY <1>1, <1>2, <1>3, Zenon DEF IInv, TypeOK, kextVars, Places
  <1>5. CountExact'
    BY <1>1, <1>2, CountStep, Zenon DEF Counted
  <1>6. IdInv' /\ UniqueIds'
    BY <1>1, <1>2, Zenon DEF IInv, IdInv, UniqueIds, Unmounting, history
  <1>7. TableInv'
    BY <1>1, <1>2, <1>3, Zenon DEF IInv, TableInv, Busy, Unmounting, history
  <1>8. TreeInv'
    BY <1>1, <1>2, <1>3, Zenon DEF IInv, TreeInv, Busy, Unmounting, history
  <1>9. SoleInv'
    BY <1>1, <1>2, <1>3, Zenon DEF IInv, TableInv, SoleInv, history
  <1> QED
    BY <1>3, <1>4, <1>5, <1>6, <1>7, <1>8, <1>9, Zenon DEF IInv

-----------------------------------------------------------------------------
(* The beginning of an operation, and the nodes of a mounted file system.  *)

\* Mount and Unmount record whether another operation is under way.
LEMMA BeginStep ==
    ASSUME IInv, NEW m \in Mounts, Begin(m), ~Busy(m), kext = "loaded",
           \A n \in Mounts : n # m => pc'[n] = pc[n],
           UNCHANGED kextVars
    PROVE  /\ LoadInv' /\ ResourcesMatch' /\ HistoryInv'
           /\ overlapped' \in BOOLEAN /\ plural' \in BOOLEAN
           /\ ~overlapped' => ~overlapped /\ \A n \in Mounts : ~Busy(n)
           /\ ~plural' => ~plural /\ \A n \in Mounts : n # m => pc[n] = "none"
  <1>1. overlapped' \in BOOLEAN /\ plural' \in BOOLEAN
    BY Zenon DEF Begin
  <1>2. /\ ~overlapped' =>
             ~overlapped /\ \A n \in Mounts : n # m => ~Busy(n)
        /\ ~plural' =>
             ~plural /\ \A n \in Mounts : n # m => pc[n] = "none"
        /\ overlapped' => plural'
    BY Zenon DEF Begin, Busy, IInv, HistoryInv
  <1>3. LoadInv' /\ ResourcesMatch'
    BY DEF IInv, TypeOK, LoadInv, ResourcesMatch, kextVars
  <1>4. HistoryInv'
    BY <1>2, Zenon DEF HistoryInv, Busy
  <1> QED
    BY <1>1, <1>2, <1>3, <1>4, Zenon

LEMMA MountInv ==
    ASSUME IInv, NEW m \in Mounts, Mount(m)
    PROVE  IInv'
  <1>1. /\ kext = "loaded" /\ pc[m] = "none" /\ Begin(m)
        /\ Goto(m, "id")
        /\ mountId' = mountId + 1 /\ UNCHANGED instances
        /\ UNCHANGED id /\ UNCHANGED node
        /\ UNCHANGED root /\ UNCHANGED trees /\ UNCHANGED grown
        /\ UNCHANGED buckets /\ UNCHANGED tables
        /\ UNCHANGED kextVars
    BY Zenon DEF Mount, treeVars, tableVars
  <1>2. /\ pc' \in [Mounts -> Places]
        /\ pc'[m] = "id"
        /\ \A n \in Mounts : n # m => pc'[n] = pc[n]
    BY <1>1, PcAfter, Zenon DEF Places, Mounting
  <1>3. /\ LoadInv' /\ ResourcesMatch' /\ HistoryInv'
        /\ overlapped' \in BOOLEAN /\ plural' \in BOOLEAN
        /\ ~overlapped' => ~overlapped /\ \A n \in Mounts : ~Busy(n)
        /\ ~plural' => ~plural /\ \A n \in Mounts : n # m => pc[n] = "none"
    BY <1>1, <1>2, BeginStep, Zenon DEF Busy
  <1>4. TypeOK'
    BY <1>1, <1>2, <1>3 DEF IInv, TypeOK, kextVars, Places
  <1>5. CountExact'
    BY <1>1, <1>2, CountStep, Zenon DEF Counted
  <1>6. IdInv' /\ UniqueIds'
    <2>1. mountId \in Nat /\ \A n \in Mounts : id[n] \in Nat
      BY Zenon DEF IInv, TypeOK
    <2>2. IdInv /\ UniqueIds
      BY Zenon DEF IInv
    <2>3. /\ id' = id /\ mountId' = mountId + 1 /\ pc[m] = "none"
          /\ ~overlapped' => ~overlapped
      BY <1>1, <1>3, Zenon
    <2>4. UniqueIds'
      BY <2>2, <2>3, Zenon DEF UniqueIds
    <2> QED
      BY <1>2, <2>1, <2>2, <2>3, <2>4 DEF IdInv
  <1>7. TableInv'
    BY <1>1, <1>2, <1>3, Zenon DEF IInv, TableInv, Busy
  <1>8. TreeInv'
    BY <1>1, <1>2, <1>3, Zenon DEF IInv, TreeInv, Busy, Unmounting
  <1>9. SoleInv'
    BY <1>1, <1>2, <1>3, Zenon DEF IInv, SoleInv, Busy
  <1> QED
    BY <1>3, <1>4, <1>5, <1>6, <1>7, <1>8, <1>9, Zenon DEF IInv

LEMMA UnmountInv ==
    ASSUME IInv, NEW m \in Mounts, Unmount(m)
    PROVE  IInv'
  <1>1. /\ pc[m] = "mounted" /\ Begin(m)
        /\ Goto(m, "decrement")
        /\ id' = [id EXCEPT ![m] = 0] /\ node' = [node EXCEPT ![m] = NULL]
        /\ UNCHANGED mountId /\ UNCHANGED instances
        /\ UNCHANGED root /\ UNCHANGED trees /\ UNCHANGED grown
        /\ UNCHANGED buckets /\ UNCHANGED tables
        /\ UNCHANGED kextVars
    BY Zenon DEF Unmount, sharedVars, countVars, treeVars, tableVars
  <1>2. /\ pc' \in [Mounts -> Places]
        /\ pc'[m] = "decrement"
        /\ \A n \in Mounts : n # m => pc'[n] = pc[n]
    BY <1>1, PcAfter, Zenon DEF Places, Unmounting
  <1>3. /\ LoadInv' /\ ResourcesMatch' /\ HistoryInv'
        /\ overlapped' \in BOOLEAN /\ plural' \in BOOLEAN
        /\ ~overlapped' => ~overlapped /\ \A n \in Mounts : ~Busy(n)
        /\ ~plural' => ~plural /\ \A n \in Mounts : n # m => pc[n] = "none"
    <2>1. kext = "loaded"
      BY <1>1, Zenon DEF IInv, LoadInv
    <2> QED
      BY <1>1, <1>2, <2>1, BeginStep, Zenon DEF Busy
  <1>4. TypeOK'
    BY <1>1, <1>2, <1>3, Zenon DEF IInv, TypeOK, kextVars, Places
  <1>5. CountExact'
    BY <1>1, <1>2, CountStep, Zenon DEF Counted
  <1>6. IdInv' /\ UniqueIds'
    <2>1. id'[m] = 0 /\ \A n \in Mounts : n # m => id'[n] = id[n]
      BY <1>1, Zenon DEF IInv, TypeOK
    <2> QED
      BY <1>1, <1>2, <1>3, <2>1 DEF IInv, TypeOK, IdInv, UniqueIds, Unmounting
  <1>7. TableInv'
    BY <1>1, <1>2, <1>3, Zenon DEF IInv, TypeOK, TableInv, Busy
  <1>8. TreeInv'
    BY <1>1, <1>2, <1>3, Zenon DEF IInv, TreeInv, Busy, Unmounting
  <1>9. SoleInv'
    BY <1>1, <1>2, <1>3 DEF IInv, SoleInv, Busy
  <1> QED
    BY <1>3, <1>4, <1>5, <1>6, <1>7, <1>8, <1>9, Zenon DEF IInv

\* A node enters the hash table, or all nodes of the mount leave it.
LEMMA NodeInv ==
    ASSUME IInv, NEW m \in Mounts, UseRoot(m) \/ Reclaim(m)
    PROVE  IInv'
  <1>1. /\ pc[m] = "mounted"
        /\ \/ /\ root # NULL /\ buckets # NULL
              /\ node' = [node EXCEPT ![m] = [tree |-> root, table |-> buckets]]
           \/ node' = [node EXCEPT ![m] = NULL]
        /\ UNCHANGED pc /\ UNCHANGED id
        /\ UNCHANGED mountId /\ UNCHANGED instances
        /\ UNCHANGED root /\ UNCHANGED trees /\ UNCHANGED grown
        /\ UNCHANGED buckets /\ UNCHANGED tables
        /\ UNCHANGED kextVars /\ UNCHANGED history
    BY Zenon DEF UseRoot, Reclaim, sharedVars, countVars, treeVars, tableVars
  <1>2. /\ \A n \in Mounts : n # m => node'[n] = node[n]
        /\ node'[m] = NULL \/ (node'[m].tree = root /\ node'[m].table = buckets)
    BY <1>1 DEF IInv, TypeOK
  <1>3. TypeOK'
    <2>1. overlapped' \in BOOLEAN /\ plural' \in BOOLEAN
      BY <1>1, Zenon DEF IInv, TypeOK, history
    <2> QED
      BY <1>1, <2>1 DEF IInv, TypeOK, kextVars
  <1>4. CountExact' /\ LoadInv' /\ ResourcesMatch'
    BY <1>1, Zenon DEF IInv, CountExact, LoadInv, ResourcesMatch, kextVars
  <1>5. HistoryInv' /\ IdInv' /\ UniqueIds'
    BY <1>1, Zenon DEF IInv, HistoryInv, IdInv, UniqueIds, Busy, history
  <1>6. TableInv'
    BY <1>1, <1>2, Zenon DEF IInv, TableInv, history
  <1>7. TreeInv'
    BY <1>1, Zenon DEF IInv, TreeInv, history
  <1>8. SoleInv'
    BY <1>1, <1>2, Zenon DEF IInv, SoleInv, history
  <1> QED
    BY <1>3, <1>4, <1>5, <1>6, <1>7, <1>8, Zenon DEF IInv

LEMMA NextInv == IInv /\ [Next]_vars => IInv'
  <1> SUFFICES ASSUME IInv, [Next]_vars PROVE IInv'
    BY Zenon
  <1>1. CASE UNCHANGED vars
    <2> USE <1>1 DEF vars, kextVars, sharedVars, countVars, treeVars, tableVars,
                     mountVars, history, IInv
    <2>1. TypeOK'
      BY Zenon DEF TypeOK
    <2>2. CountExact' /\ LoadInv' /\ ResourcesMatch'
      BY Zenon DEF CountExact, CountedMounts, LoadInv, ResourcesMatch
    <2>3. HistoryInv' /\ IdInv' /\ UniqueIds'
      BY Zenon DEF HistoryInv, Busy, IdInv, UniqueIds
    <2>4. TableInv' /\ TreeInv' /\ SoleInv'
      BY Zenon DEF TableInv, TreeInv, SoleInv
    <2> QED BY <2>1, <2>2, <2>3, <2>4, Zenon
  <1>2. CASE InitTag \/ InitGrp \/ InitMutex \/ InitFail
               \/ FsAdd \/ FsAddFail \/ FsRemove \/ Fini
    BY <1>2, KextInv, Zenon
  <1>3. ASSUME NEW m \in Mounts,
               \/ Mount(m) \/ TakeId(m) \/ CountMount(m)
               \/ StructureCheck(m) \/ StructureRoot(m) \/ StructureGrow(m)
               \/ HashInit(m)
        PROVE  IInv'
    BY <1>3, MountInv, TakeIdInv, CountMountInv, StructureCheckInv,
       StructureRootInv, StructureGrowInv, HashInitInv, Zenon
  <1>4. ASSUME NEW m \in Mounts,
               \/ UseRoot(m) \/ Reclaim(m)
               \/ Unmount(m) \/ Decrement(m) \/ HashFree(m) \/ HashClear(m)
               \/ StructureRelease(m) \/ StructureClear(m)
        PROVE  IInv'
    BY <1>4, NodeInv, UnmountInv, DecrementInv, HashFreeInv, HashClearInv,
       StructureReleaseInv, StructureClearInv, Zenon
  <1> QED
    BY <1>1, <1>2, <1>3, <1>4, Zenon DEF Next

-----------------------------------------------------------------------------
(* The theorems.                                                           *)

\* Every reachable state of the mounts and the kext satisfies the invariant.
THEOREM Invariance == Spec => []IInv
  BY InitInv, NextInv, PTL DEF Spec

\* sysfs_mount() gives no two mounts the same pmnt_id, unless mounts overlap.
THEOREM IdsUnique == Spec => []UniqueIds
  <1>1. IInv => UniqueIds
    BY Zenon DEF IInv
  <1> QED
    BY <1>1, Invariance, PTL

\* mounted_instance_count is the number of mounts between their increment and
\* their decrement, whatever overlaps.
THEOREM CountIsExact == Spec => []CountExact
  <1>1. IInv => CountExact
    BY Zenon DEF IInv
  <1> QED
    BY <1>1, Invariance, PTL

\* Mounts and unmounts that do not overlap leave every mounted file system its
\* hash table: hashdestroy() runs for the last of them only.
THEOREM TableOutlivesNodes == Spec => []TableServesMountsInTurn
  <1>1. IInv => TableServesMountsInTurn
    <2> SUFFICES ASSUME IInv, ~overlapped PROVE TableServesMounts
      BY Zenon DEF TableServesMountsInTurn
    <2>1. \A m \in Mounts : pc[m] = "mounted" => buckets \in tables
      BY Zenon DEF IInv, TableInv
    <2>2. \A m \in Mounts : node[m] # NULL =>
            node[m].table = buckets /\ buckets \in tables
      BY <2>1, Zenon DEF IInv, TableInv
    <2> QED
      BY <2>1, <2>2, Zenon DEF TableServesMounts
  <1> QED
    BY <1>1, Invariance, PTL

\* A file system that is always the only one mounted has a complete tree, over
\* any number of mounts, unmounts and reloads.
THEOREM TreeServesSoleMount == Spec => []StructureServesSoleMount
  <1>1. IInv => StructureServesSoleMount
    BY Zenon DEF IInv, TableInv, SoleInv, StructureServesSoleMount, StructureServesMounts
  <1> QED
    BY <1>1, Invariance, PTL

\* No tree and no hash table is lost, and none is left when nothing is mounted.
THEOREM NothingLeaks == Spec => []SharedDataOwned
  <1>1. IInv => SharedDataOwned
    BY Zenon DEF IInv, TableInv, TreeInv, SharedDataOwned, Unmounting
  <1> QED
    BY <1>1, Invariance, PTL

\* sysfs_init() and sysfs_fini() balance, and mounts exist only in between.
THEOREM LoadingBalances == Spec => []ResourcesMatch
  <1>1. IInv => ResourcesMatch
    BY Zenon DEF IInv
  <1> QED
    BY <1>1, Invariance, PTL

=============================================================================
