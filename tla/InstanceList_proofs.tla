------------------------- MODULE InstanceList_proofs -------------------------
(***************************************************************************)
(* Proofs about InstanceList: with any instances, names, folders and       *)
(* groups, no instance is lost or is in two folders, what was moved to the *)
(* trash can be put back, and each instance stays in its group.            *)
(***************************************************************************)
EXTENDS InstanceList, FiniteSetTheorems, WellFoundedInduction, TLAPS

Disk == [Root -> [Id -> Opt(Inst)]]
Index == [Id -> Opt(Group)]
File == [there : BOOLEAN, group : Index]

\* What is in a folder is live, what is live is in a folder, and no two hold the same.
Live == \A r \in Root, id \in Id : disk[r][id] # None => status[disk[r][id]] = "live"
Somewhere == \A i \in Inst : status[i] = "live" => \E r \in Root, id \in Id : disk[r][id] = i
Once == \A r, s \in Root : \A id, jd \in Id :
          disk[r][id] = disk[s][jd] /\ disk[r][id] # None => r = s /\ id = jd
Placed == Live /\ Somewhere /\ Once

\* What is staged as new has not been committed yet.
Staged == staging.phase # "none" /\ staging.override = None =>
            staging.inst \in Inst /\ status[staging.inst] = "unborn"

IInv == TypeOK /\ Placed /\ TrashCanBeUndone /\ Staged

-----------------------------------------------------------------------------
(* Discovering and loading. *)

LEMMA MinIsMember ==
  ASSUME NEW S \in SUBSET Nat, S # {}
  PROVE  Min(S) \in S
<1>1. IsWellFoundedOn(OpToRel(<, Nat), Nat)
  BY NatLessThanWellFounded
<1>2. PICK x \in S : \A y \in S : ~(<<y, x>> \in OpToRel(<, Nat))
  BY <1>1, WFMin
<1>3. ASSUME NEW y \in S, y < x
      PROVE  FALSE
  <2> DEFINE p == <<y, x>>
  <2>1. p \in Nat \X Nat /\ p[1] < p[2]
    BY <1>3
  <2>2. p \notin OpToRel(<, Nat)
    BY <1>2
  <2> HIDE DEF p
  <2> QED
    BY <2>1, <2>2, Zenon DEF OpToRel
<1>4. \A y \in S : x <= y
  BY <1>3
<1> QED
  BY <1>4 DEF Min

LEMMA FoundInARoot ==
  ASSUME NEW d, NEW ds \in Dirs, NEW id \in discoverInstances(d, ds)
  PROVE  rootDirOf(d, ds, id) \in Root
<1> DEFINE H == Holders(d, ds, id)
<1>1. ds \in Seq(Root)
  BY InstanceListAssumption
<1>2. H \subseteq DOMAIN ds /\ H # {}
  BY DEF discoverInstances, Holders
<1>3. H \in SUBSET Nat
  BY <1>1, <1>2
<1>4. Min(H) \in DOMAIN ds
  BY <1>2, <1>3, MinIsMember
<1>5. ds[Min(H)] \in Root
  BY <1>1, <1>4
<1> QED
  BY <1>2, <1>5 DEF rootDirOf

LEMMA SaveGroupListTyped ==
  ASSUME NEW x \in Index, NEW ids
  PROVE  saveGroupList(x, ids) \in File
BY DEF saveGroupList, File, Index, Opt

LEMMA LoadListTyped ==
  ASSUME TypeOK, NEW d, NEW ds \in Dirs, NEW x \in Index, NEW l \in BOOLEAN, NEW f \in File,
         loadList(d, ds, x, l, f)
  PROVE  home' \in [Id -> Opt(Root)] /\ index' \in Index /\ loaded' \in BOOLEAN
<1>1. home' \in [Id -> Opt(Root)]
  <2>1. \A id \in discoverInstances(d, ds) : rootDirOf(d, ds, id) \in Root
    BY FoundInARoot
  <2>2. home \in [Id -> Opt(Root)]
    BY DEF TypeOK
  <2> QED
    BY <2>1, <2>2 DEF loadList, Opt
<1>2. index' \in Index
  <2>1. f.group \in Index /\ NoGroups \in Index
    BY DEF File, NoGroups, Index, Opt
  <2> QED
    BY <2>1 DEF loadList
<1>3. loaded' \in BOOLEAN
  BY DEF loadList
<1> QED
  BY <1>1, <1>2, <1>3

-----------------------------------------------------------------------------
(* Instances that come and go. *)

LEMMA Gone ==
  ASSUME TypeOK, Placed, NEW r \in Root, NEW id \in Id, disk[r][id] # None,
         NEW s \in Status \ {"live"},
         disk' = [disk EXCEPT ![r][id] = None],
         status' = [status EXCEPT ![disk[r][id]] = s]
  PROVE  Placed' /\ disk' \in Disk /\ status' \in [Inst -> Status]
<1> DEFINE i == disk[r][id]
<1>1. disk \in Disk /\ status \in [Inst -> Status] /\ i \in Inst /\ None \notin Inst
  BY InstanceListAssumption DEF TypeOK, Disk, Opt
<1>2. disk' \in Disk /\ status' \in [Inst -> Status]
  BY <1>1 DEF Disk, Opt
<1>3. \A q \in Root, jd \in Id :
        disk'[q][jd] = IF q = r /\ jd = id THEN None ELSE disk[q][jd]
  BY <1>1 DEF Disk
<1>4. \A j \in Inst : status'[j] = IF j = i THEN s ELSE status[j]
  BY <1>1
<1>5. \A q \in Root, jd \in Id : disk[q][jd] \in Inst \cup {None}
  BY <1>1 DEF Disk, Opt
<1> HIDE DEF i
<1>6. Once'
  BY <1>3 DEF Placed, Once
<1>7. \A q \in Root, jd \in Id : disk'[q][jd] # None => disk'[q][jd] # i
  BY <1>1, <1>3 DEF Placed, Once, i
<1>8. Live'
  BY <1>3, <1>4, <1>5, <1>7 DEF Placed, Live
<1>9. Somewhere'
  <2> SUFFICES ASSUME NEW j \in Inst, status'[j] = "live"
               PROVE  \E q \in Root, jd \in Id : disk'[q][jd] = j
    BY DEF Somewhere
  <2>1. j # i /\ status[j] = "live"
    BY <1>4
  <2>2. PICK q \in Root, jd \in Id : disk[q][jd] = j
    BY <2>1 DEF Placed, Somewhere
  <2>3. ~(q = r /\ jd = id)
    BY <2>1, <2>2 DEF i
  <2>4. disk'[q][jd] = j
    BY <1>3, <2>2, <2>3
  <2> QED
    BY <2>4
<1> QED
  BY <1>2, <1>6, <1>8, <1>9 DEF Placed

LEMMA Come ==
  ASSUME TypeOK, Placed, NEW r \in Root, NEW id \in Id, disk[r][id] = None,
         NEW i \in Inst, status[i] # "live",
         disk' = [disk EXCEPT ![r][id] = i],
         status' = [status EXCEPT ![i] = "live"]
  PROVE  Placed' /\ disk' \in Disk /\ status' \in [Inst -> Status]
<1>1. disk \in Disk /\ status \in [Inst -> Status] /\ None \notin Inst
  BY InstanceListAssumption DEF TypeOK, Disk
<1>2. disk' \in Disk /\ status' \in [Inst -> Status]
  BY <1>1 DEF Disk, Opt, Status
<1>3. \A q \in Root, jd \in Id :
        disk'[q][jd] = IF q = r /\ jd = id THEN i ELSE disk[q][jd]
  BY <1>1 DEF Disk
<1>4. \A j \in Inst : status'[j] = IF j = i THEN "live" ELSE status[j]
  BY <1>1
<1>5. \A q \in Root, jd \in Id : disk[q][jd] \in Inst \cup {None}
  BY <1>1 DEF Disk, Opt
<1>6. \A q \in Root, jd \in Id : disk[q][jd] # i
  BY <1>1 DEF Placed, Live
<1>7. Once'
  BY <1>3, <1>6 DEF Placed, Once
<1>8. Live'
  BY <1>3, <1>4, <1>5 DEF Placed, Live
<1>9. Somewhere'
  <2> SUFFICES ASSUME NEW j \in Inst, status'[j] = "live"
               PROVE  \E q \in Root, jd \in Id : disk'[q][jd] = j
    BY DEF Somewhere
  <2>1. CASE j = i
    BY <1>3, <2>1
  <2>2. CASE j # i
    <3>1. PICK q \in Root, jd \in Id : disk[q][jd] = j
      BY <1>4, <2>2 DEF Placed, Somewhere
    <3>2. disk'[q][jd] = j
      BY <1>1, <1>3, <3>1
    <3> QED
      BY <3>2
  <2> QED
    BY <2>1, <2>2
<1> QED
  BY <1>2, <1>7, <1>8, <1>9 DEF Placed

-----------------------------------------------------------------------------
(* The history of the trash. *)

LEMMA Trashed ==
  ASSUME TypeOK, TrashCanBeUndone, NEW i \in Inst, status[i] = "live",
         NEW rec \in Record, rec.inst = i,
         status' = [status EXCEPT ![i] = "trashed"],
         history' = Append(history, rec)
  PROVE  TrashCanBeUndone' /\ history' \in Seq(Record)
<1>1. history \in Seq(Record) /\ status \in [Inst -> Status]
  BY DEF TypeOK
<1>2. history' \in Seq(Record)
  BY <1>1
<1> DEFINE last == Len(history) + 1
<1>3. /\ DOMAIN history' = DOMAIN history \cup {last} /\ last \notin DOMAIN history
      /\ history'[last] = rec
      /\ \A n \in DOMAIN history : history'[n] = history[n]
  BY <1>1
<1>4. \A n \in DOMAIN history : history[n].inst \in Inst /\ history[n].inst # i
  BY <1>1 DEF TrashCanBeUndone, Record
<1>5. \A j \in Inst : status'[j] = IF j = i THEN "trashed" ELSE status[j]
  BY <1>1
<1> HIDE DEF last
<1>6. {j \in Inst : status'[j] = "trashed"} = {j \in Inst : status[j] = "trashed"} \cup {i}
  BY <1>5
<1>7. {history'[n].inst : n \in DOMAIN history'} = {history[n].inst : n \in DOMAIN history} \cup {i}
  BY <1>3
<1>8. \A m, n \in DOMAIN history' : m # n => history'[m].inst # history'[n].inst
  BY <1>3, <1>4 DEF TrashCanBeUndone
<1> QED
  BY <1>2, <1>6, <1>7, <1>8 DEF TrashCanBeUndone

LEMMA Restored ==
  ASSUME TypeOK, TrashCanBeUndone, history # <<>>,
         status' = [status EXCEPT ![Last(history).inst] = "live"],
         history' = Front(history)
  PROVE  TrashCanBeUndone' /\ history' \in Seq(Record)
<1> DEFINE last == Len(history)
           i == history[last].inst
<1>1. history \in Seq(Record) /\ status \in [Inst -> Status]
  BY DEF TypeOK
<1>2. history' \in Seq(Record)
  BY <1>1 DEF Front
<1>3. /\ last \in DOMAIN history
      /\ DOMAIN history' = DOMAIN history \ {last}
      /\ \A n \in DOMAIN history' : history'[n] = history[n]
  BY <1>1 DEF Front
<1>4. /\ i \in Inst
      /\ \A j \in Inst : status'[j] = IF j = i THEN "live" ELSE status[j]
  <2>1. history[last] \in Record
    BY <1>1, <1>3
  <2>2. i \in Inst
    BY <2>1 DEF Record
  <2>3. Last(history).inst = i
    BY DEF Last
  <2> HIDE DEF i
  <2>4. status' = [status EXCEPT ![i] = "live"]
    BY <2>3
  <2> QED
    BY <1>1, <2>2, <2>4
<1> HIDE DEF last
<1>5. \A n \in DOMAIN history' : history[n].inst # i
  BY <1>3 DEF TrashCanBeUndone
<1>6. {j \in Inst : status'[j] = "trashed"} = {j \in Inst : status[j] = "trashed"} \ {i}
  BY <1>4
<1>7. {history'[n].inst : n \in DOMAIN history'} = {history[n].inst : n \in DOMAIN history} \ {i}
  BY <1>3, <1>5
<1>8. \A m, n \in DOMAIN history' : m # n => history'[m].inst # history'[n].inst
  BY <1>3 DEF TrashCanBeUndone
<1> QED
  BY <1>2, <1>6, <1>7, <1>8 DEF TrashCanBeUndone

\* Nothing is trashed and nothing restored.
LEMMA TrashKept ==
  ASSUME TrashCanBeUndone, UNCHANGED history,
         \A i \in Inst : status'[i] = "trashed" <=> status[i] = "trashed"
  PROVE  TrashCanBeUndone'
<1>1. {i \in Inst : status'[i] = "trashed"} = {i \in Inst : status[i] = "trashed"}
  OBVIOUS
<1> QED
  BY <1>1 DEF TrashCanBeUndone

-----------------------------------------------------------------------------
(* The steps. *)

\* Nothing is put into a folder or taken out of one.
LEMMA StillPlaced ==
  ASSUME Placed, UNCHANGED <<disk, status>>
  PROVE  Placed'
BY DEF Placed, Live, Somewhere, Once

\* What changes only the groups, the list or the history variables.
LEMMA GroupsStep ==
  ASSUME IInv, TypeOK', UNCHANGED <<disk, status, history, staging>>
  PROVE  IInv'
<1>1. Placed'
  BY StillPlaced DEF IInv
<1>2. TrashCanBeUndone'
  BY TrashKept DEF IInv
<1>3. Staged'
  BY DEF IInv, Staged
<1> QED
  BY <1>1, <1>2, <1>3 DEF IInv

LEMMA ContentsChangedStep ==
  ASSUME IInv, instanceDirContentsChanged
  PROVE  IInv'
<1>1. /\ loadList(disk, dirs, index, loaded, file)
      /\ UNCHANGED <<dirs, disk, status, history, file, staging, data, asked, unsure>>
  BY DEF instanceDirContentsChanged
<1>2. dirs \in Dirs /\ index \in Index /\ loaded \in BOOLEAN /\ file \in File
  BY DEF IInv, TypeOK, Index, File
<1>3. home' \in [Id -> Opt(Root)] /\ index' \in Index /\ loaded' \in BOOLEAN
  BY <1>1, <1>2, LoadListTyped DEF IInv
<1>4. TypeOK'
  BY <1>1, <1>3 DEF IInv, TypeOK, Index
<1> QED
  BY <1>1, <1>4, GroupsStep

LEMMA SetGroupStep ==
  ASSUME IInv, NEW id \in Id, NEW g \in Opt(Group), setInstanceGroup(id, g)
  PROVE  IInv'
<1>1. /\ index' = [index EXCEPT ![id] = g]
      /\ file' = saveGroupList(index', known)
      /\ asked' = asked \/ asked' = [asked EXCEPT ![InstanceOf(id)] = g]
      /\ unsure' = unsure \ {InstanceOf(id)}
      /\ UNCHANGED <<dirs, disk, status, history, home, loaded, staging, data>>
  BY DEF setInstanceGroup
<1>2. index' \in Index
  BY <1>1 DEF IInv, TypeOK, Index
<1>3. file' \in File
  BY <1>1, <1>2, SaveGroupListTyped
<1>4. asked' \in [Inst -> Opt(Group)] /\ unsure' \in SUBSET Inst
  BY <1>1 DEF IInv, TypeOK
<1>5. TypeOK'
  BY <1>1, <1>2, <1>3, <1>4 DEF IInv, TypeOK, Index, File
<1> QED
  BY <1>1, <1>5, GroupsStep

LEMMA DeleteGroupStep ==
  ASSUME IInv, NEW g \in Group, deleteGroup(g)
  PROVE  IInv'
<1>1. /\ index' = [id \in Id |-> IF id \in known /\ index[id] = g THEN None ELSE index[id]]
      /\ file' = saveGroupList(index', known)
      /\ asked' = [i \in Inst |-> IF status[i] = "live" /\ asked[i] = g THEN None ELSE asked[i]]
      /\ UNCHANGED <<dirs, disk, status, history, home, loaded, staging, data, unsure>>
  BY DEF deleteGroup
<1>2. index' \in Index
  BY <1>1 DEF IInv, TypeOK, Index, Opt
<1>3. file' \in File
  BY <1>1, <1>2, SaveGroupListTyped
<1>4. asked' \in [Inst -> Opt(Group)]
  BY <1>1 DEF IInv, TypeOK, Opt
<1>5. TypeOK'
  BY <1>1, <1>2, <1>3, <1>4 DEF IInv, TypeOK, Index, File
<1> QED
  BY <1>1, <1>5, GroupsStep

LEMMA GroupStateStep ==
  ASSUME IInv, on_GroupStateChanged
  PROVE  IInv'
<1>1. /\ file' = saveGroupList(index, known)
      /\ UNCHANGED <<dirs, disk, status, history, home, index, loaded, staging, data, asked,
                     unsure>>
  BY DEF on_GroupStateChanged
<1>2. file' \in File
  BY <1>1, SaveGroupListTyped DEF IInv, TypeOK, Index
<1>3. TypeOK'
  BY <1>1, <1>2 DEF IInv, TypeOK, Index, File
<1> QED
  BY <1>1, <1>3, GroupsStep

LEMMA InstFolderStep ==
  ASSUME IInv, NEW ds \in Dirs, on_InstFolderChanged(ds)
  PROVE  IInv'
<1>1. /\ dirs' = ds
      /\ file' = IF loaded THEN saveGroupList(index, known) ELSE file
      /\ loadList(disk, ds, index, FALSE, file')
      /\ asked' = [i \in Inst |-> IF \E n \in DOMAIN ds, id \in Id : disk[ds[n]][id] = i
                                 THEN asked[i] ELSE None]
      /\ UNCHANGED <<disk, status, history, staging, data, unsure>>
  BY DEF on_InstFolderChanged
<1>2. index \in Index /\ file \in File
  BY DEF IInv, TypeOK, Index, File
<1>3. file' \in File
  BY <1>1, <1>2, SaveGroupListTyped
<1>4. home' \in [Id -> Opt(Root)] /\ index' \in Index /\ loaded' \in BOOLEAN
  BY <1>1, <1>2, <1>3, LoadListTyped DEF IInv
<1>5. asked' \in [Inst -> Opt(Group)]
  BY <1>1 DEF IInv, TypeOK, Opt
<1>6. TypeOK'
  BY <1>1, <1>3, <1>4, <1>5 DEF IInv, TypeOK, Index, File
<1> QED
  BY <1>1, <1>6, GroupsStep

\* The instance that is removed, where it was, and what is left of its group.
LEMMA RemoveStep ==
  ASSUME IInv, NEW id \in Id, removeInstance(id)
  PROVE  IInv'
<1> DEFINE r == home[id]
           i == disk[r][id]
<1>1. /\ AtRest /\ r # None /\ i # None
      /\ forgetGroup(id)
      /\ UNCHANGED <<dirs, home, loaded, staging, data, unsure>>
  BY DEF removeInstance, trashInstance, deleteInstance, known, InstanceOf
<1>2. r \in Root /\ i \in Inst
  BY <1>1 DEF IInv, TypeOK, Opt
<1>3. status[i] = "live"
  BY <1>1, <1>2 DEF IInv, Placed, Live
<1>4. index' \in Index /\ file' \in File
  <2>1. index' = [index EXCEPT ![id] = None]
    BY <1>1 DEF forgetGroup
  <2>2. index' \in Index
    BY <2>1 DEF IInv, TypeOK, Index, Opt
  <2>3. saveGroupList(index', known) \in File
    BY <2>2, SaveGroupListTyped
  <2>4. file' \in File
    BY <1>1, <2>3 DEF forgetGroup, IInv, TypeOK, File, Index
  <2> QED
    BY <2>2, <2>4
<1>5. Staged'
  BY <1>1 DEF AtRest, Staged
<1>6. CASE trashInstance(id)
  <2> DEFINE rec == [inst |-> i, id |-> id, root |-> r, group |-> index[id]]
  <2>1. /\ disk' = [disk EXCEPT ![r][id] = None]
        /\ status' = [status EXCEPT ![i] = "trashed"]
        /\ history' = Append(history, rec)
        /\ asked' = asked
    BY <1>6 DEF trashInstance, InstanceOf
  <2>2. Placed' /\ disk' \in Disk /\ status' \in [Inst -> Status]
    BY <1>1, <1>2, <2>1, Gone DEF IInv, Status
  <2>3. rec \in Record /\ rec.inst = i
    BY <1>2 DEF Record, IInv, TypeOK
  <2> HIDE DEF rec
  <2>4. TrashCanBeUndone' /\ history' \in Seq(Record)
    BY <1>2, <1>3, <2>1, <2>3, Trashed DEF IInv
  <2>5. TypeOK'
    BY <1>1, <1>4, <2>1, <2>2, <2>4 DEF IInv, TypeOK, Disk, Index, File
  <2> QED
    BY <1>5, <2>2, <2>4, <2>5 DEF IInv
<1>7. CASE deleteInstance(id)
  <2>1. /\ \/ /\ disk' = [disk EXCEPT ![r][id] = None]
              /\ status' = [status EXCEPT ![i] = "deleted"]
           \/ UNCHANGED <<disk, status>>
        /\ asked' = [asked EXCEPT ![i] = None]
        /\ UNCHANGED history
    BY <1>7 DEF deleteInstance, InstanceOf
  <2>2. Placed' /\ disk' \in Disk /\ status' \in [Inst -> Status]
    <3>1. CASE UNCHANGED <<disk, status>>
      BY <3>1, StillPlaced DEF IInv, TypeOK, Disk
    <3>2. CASE /\ disk' = [disk EXCEPT ![r][id] = None]
               /\ status' = [status EXCEPT ![i] = "deleted"]
      BY <1>1, <1>2, <3>2, Gone DEF IInv, Status
    <3> QED
      BY <2>1, <3>1, <3>2
  <2>3. \A j \in Inst : status'[j] = "trashed" <=> status[j] = "trashed"
    BY <1>2, <1>3, <2>1 DEF IInv, TypeOK
  <2>4. TrashCanBeUndone'
    BY <2>1, <2>3, TrashKept DEF IInv
  <2>5. asked' \in [Inst -> Opt(Group)]
    BY <2>1 DEF IInv, TypeOK, Opt
  <2>6. TypeOK'
    BY <1>1, <1>4, <2>1, <2>2, <2>5 DEF IInv, TypeOK, Disk, Index, File
  <2> QED
    BY <1>5, <2>2, <2>4, <2>6 DEF IInv
<1> QED
  BY <1>6, <1>7 DEF removeInstance

LEMMA UndoStep ==
  ASSUME IInv, undoTrashInstance
  PROVE  IInv'
<1> DEFINE rec == Last(history)
<1>1. /\ AtRest /\ history # <<>>
      /\ UNCHANGED <<dirs, staging, data, asked>>
  BY DEF undoTrashInstance
<1>2. rec \in Record /\ rec.inst \in Inst /\ rec.root \in Root /\ rec.group \in Opt(Group)
  <2>1. history \in Seq(Record)
    BY DEF IInv, TypeOK
  <2>2. rec \in Record
    BY <1>1, <2>1 DEF Last
  <2> QED
    BY <2>2 DEF Record
<1>3. status[rec.inst] = "trashed"
  <2>1. history \in Seq(Record)
    BY DEF IInv, TypeOK
  <2>2. Len(history) \in DOMAIN history
    BY <1>1, <2>1
  <2>3. rec.inst \in {history[n].inst : n \in DOMAIN history}
    BY <2>2 DEF Last
  <2> QED
    BY <2>3 DEF IInv, TrashCanBeUndone
<1>4. Staged'
  BY <1>1 DEF AtRest, Staged
<1>5. CASE UNCHANGED <<disk, status, home, groups, unsure>> /\ history' = afterUndo(FALSE)
  <2>1. UNCHANGED history
    BY <1>5 DEF afterUndo
  <2>2. TypeOK'
    BY <1>1, <1>5, <2>1 DEF IInv, TypeOK, groups
  <2> QED
    BY <1>1, <1>5, <2>1, <2>2, GroupsStep
<1>6. ASSUME NEW id \in UndoId(rec),
             history' = afterUndo(TRUE),
             disk' = [disk EXCEPT ![rec.root][id] = rec.inst],
             status' = [status EXCEPT ![rec.inst] = "live"],
             loadList(disk', dirs, IF rec.group = None THEN index
                                   ELSE [index EXCEPT ![id] = rec.group], loaded, file),
             file' = IF rec.group = None THEN file ELSE saveGroupList(index', known'),
             unsure' = IF loaded THEN unsure ELSE unsure \cup {rec.inst}
      PROVE  IInv'
  <2> DEFINE x == IF rec.group = None THEN index ELSE [index EXCEPT ![id] = rec.group]
  <2>1. id \in Id /\ disk[rec.root][id] = None
    BY <1>6 DEF UndoId, Free
  <2>2. Placed' /\ disk' \in Disk /\ status' \in [Inst -> Status]
    BY <1>2, <1>3, <1>6, <2>1, Come DEF IInv
  <2>3. TrashCanBeUndone' /\ history' \in Seq(Record)
    BY <1>1, <1>6, Restored DEF IInv, afterUndo
  <2>4. x \in Index /\ loaded \in BOOLEAN /\ file \in File /\ dirs \in Dirs
    BY <1>2, <2>1 DEF IInv, TypeOK, Index, File
  <2> HIDE DEF x
  <2>5. loadList(disk', dirs, x, loaded, file)
    BY <1>6 DEF x
  <2>6. home' \in [Id -> Opt(Root)] /\ index' \in Index /\ loaded' \in BOOLEAN
    BY <2>4, <2>5, LoadListTyped DEF IInv
  <2>7. file' \in File
    BY <1>6, <2>4, <2>6, SaveGroupListTyped
  <2>8. unsure' \in SUBSET Inst
    BY <1>2, <1>6 DEF IInv, TypeOK
  <2>9. TypeOK'
    BY <1>1, <2>2, <2>3, <2>6, <2>7, <2>8 DEF IInv, TypeOK, Disk, Index, File
  <2> QED
    BY <1>4, <2>2, <2>3, <2>9 DEF IInv
<1> QED
  BY <1>5, <1>6 DEF undoTrashInstance

\* A task that is wrapped, or waits for another try.
LEMMA StagingStep ==
  ASSUME IInv, staging' \in Staging, data' \in BOOLEAN,
         Staged', UNCHANGED <<dirs, disk, status, history, home, groups, asked, unsure>>
  PROVE  IInv'
<1>1. TypeOK'
  BY DEF IInv, TypeOK, groups
<1>2. Placed'
  BY StillPlaced DEF IInv
<1>3. TrashCanBeUndone'
  BY TrashKept DEF IInv
<1> QED
  BY <1>1, <1>2, <1>3 DEF IInv

LEMMA NoStagingTyped == NoStaging \in Staging
BY DEF NoStaging, Staging, Opt

LEMMA WrapNewStep ==
  ASSUME IInv, NEW i \in Inst, NEW r \in Root, NEW g \in Opt(Group), wrapNew(i, r, g)
  PROVE  IInv'
<1>1. PICK path \in {r, None} :
        staging' = [NoStaging EXCEPT !.phase = "child", !.inst = i, !.root = path, !.group = g]
  BY DEF wrapNew, getStagedInstancePath
<1>2. staging' = [phase |-> "child", inst |-> i, override |-> None, root |-> path,
                  group |-> g, sleep |-> 1]
  BY <1>1 DEF NoStaging
<1>3. staging' \in Staging
  BY <1>2 DEF Staging, Opt
<1>4. status[i] = "unborn"
      /\ UNCHANGED <<dirs, disk, status, history, home, groups, data, asked, unsure>>
  BY DEF wrapNew
<1>5. Staged'
  BY <1>2, <1>4 DEF Staged
<1>6. data' \in BOOLEAN
  BY <1>4 DEF IInv, TypeOK
<1> QED
  BY <1>3, <1>4, <1>5, <1>6, StagingStep

LEMMA WrapUpdateStep ==
  ASSUME IInv, NEW id \in Id, wrapUpdate(id)
  PROVE  IInv'
<1>1. PICK path \in getStagedInstancePath(rootDirOf(disk, dirs, id)) :
        staging' = [NoStaging EXCEPT !.phase = "child", !.override = id, !.root = path]
  BY DEF wrapUpdate
<1>2. staging' = [phase |-> "child", inst |-> None, override |-> id, root |-> path,
                  group |-> None, sleep |-> 1]
  BY <1>1 DEF NoStaging
<1>3. path \in Opt(Root)
  <2>1. rootDirOf(disk, dirs, id) \in Root
    <3>1. CASE Holders(disk, dirs, id) # {}
      <4>1. dirs \in Dirs /\ id \in discoverInstances(disk, dirs)
        BY <3>1 DEF IInv, TypeOK, discoverInstances
      <4> QED
        BY <4>1, FoundInARoot
    <3>2. CASE Holders(disk, dirs, id) = {}
      <4>1. dirs \in Seq(Root) /\ dirs # <<>>
        BY InstanceListAssumption DEF IInv, TypeOK
      <4>2. dirs[1] \in Root
        BY <4>1
      <4> QED
        BY <3>2, <4>2 DEF rootDirOf
    <3> QED
      BY <3>1, <3>2
  <2> QED
    BY <2>1 DEF getStagedInstancePath, Opt
<1>4. staging' \in Staging
  BY <1>2, <1>3 DEF Staging, Opt
<1>5. UNCHANGED <<dirs, disk, status, history, home, groups, data, asked, unsure>>
  BY DEF wrapUpdate
<1>6. Staged'
  BY <1>2, InstanceListAssumption DEF Staged
<1>7. data' \in BOOLEAN
  BY <1>5 DEF IInv, TypeOK
<1> QED
  BY <1>4, <1>5, <1>6, <1>7, StagingStep

LEMMA ChildFailedStep ==
  ASSUME IInv, childFailed
  PROVE  IInv'
<1>1. /\ staging' = NoStaging /\ data' = (staging.root # None)
      /\ UNCHANGED <<dirs, disk, status, history, home, groups, asked, unsure>>
  BY DEF childFailed
<1>2. staging' \in Staging
  BY <1>1, NoStagingTyped
<1>3. data' \in BOOLEAN
  BY <1>1
<1>4. Staged'
  BY <1>1 DEF Staged, NoStaging
<1> QED
  BY <1>1, <1>2, <1>3, <1>4, StagingStep

LEMMA BackoffStep ==
  ASSUME IInv, staging.phase # "none", backoff,
         UNCHANGED <<dirs, disk, status, history, home, groups, data, asked, unsure>>
  PROVE  IInv'
<1>1. staging \in Staging
  BY DEF IInv, TypeOK
<1>2. CASE staging.sleep = 16 /\ staging' = NoStaging
  <2>1. Staged' /\ staging' \in Staging
    BY <1>2, NoStagingTyped DEF Staged, NoStaging
  <2> QED
    BY <2>1, StagingStep DEF IInv, TypeOK
<1>3. CASE /\ staging.sleep # 16
           /\ staging' = [staging EXCEPT !.phase = "backoff", !.sleep = 2 * @]
  <2>1. 2 * staging.sleep \in {2, 4, 8, 16}
    BY <1>1, <1>3 DEF Staging
  <2>2. staging' \in Staging /\ staging'.override = staging.override
        /\ staging'.inst = staging.inst
    BY <1>1, <1>3, <2>1 DEF Staging
  <2>3. Staged'
    BY <2>2 DEF IInv, Staged
  <2> QED
    BY <2>2, <2>3, StagingStep DEF IInv, TypeOK
<1> QED
  BY <1>2, <1>3 DEF backoff

LEMMA CommitUpdateStep ==
  ASSUME IInv, commitUpdate, staging' = NoStaging, UNCHANGED <<dirs, history>>
  PROVE  IInv'
<1>1. /\ data' = (staging.root # None)
      /\ loadList(disk, dirs, index, loaded, file)
      /\ file' = saveGroupList(index', known')
      /\ UNCHANGED <<disk, status, asked, unsure>>
  BY DEF commitUpdate
<1>2. dirs \in Dirs /\ index \in Index /\ loaded \in BOOLEAN /\ file \in File
  BY DEF IInv, TypeOK, Index, File
<1>3. home' \in [Id -> Opt(Root)] /\ index' \in Index /\ loaded' \in BOOLEAN
  BY <1>1, <1>2, LoadListTyped DEF IInv
<1>4. file' \in File
  BY <1>1, <1>3, SaveGroupListTyped
<1>5. data' \in BOOLEAN
  BY <1>1
<1>6. TypeOK'
  BY <1>1, <1>3, <1>4, <1>5, NoStagingTyped DEF IInv, TypeOK, Index, File
<1>7. Placed' /\ TrashCanBeUndone'
  BY <1>1, StillPlaced, TrashKept DEF IInv
<1>8. Staged'
  BY DEF Staged, NoStaging
<1> QED
  BY <1>6, <1>7, <1>8 DEF IInv

LEMMA CommitNewStep ==
  ASSUME IInv, staging.phase # "none", NEW id \in Id, commitNew(id), staging' = NoStaging,
         UNCHANGED <<dirs, history>>
  PROVE  IInv'
<1> DEFINE i == staging.inst
           r == staging.root
           x == [index EXCEPT ![id] = staging.group]
<1>1. /\ staging.override = None /\ r # None
      /\ id \in Free(r)
      /\ disk' = [disk EXCEPT ![r][id] = i]
      /\ status' = [status EXCEPT ![i] = "live"]
      /\ loadList(disk', dirs, x, loaded, file)
      /\ file' = saveGroupList(index', known')
      /\ asked' = [asked EXCEPT ![i] = staging.group]
      /\ unsure' = IF loaded THEN unsure ELSE unsure \cup {i}
      /\ UNCHANGED data
  BY DEF commitNew
<1>2. i \in Inst /\ status[i] = "unborn"
  BY <1>1 DEF IInv, Staged
<1>3. r \in Root /\ staging.group \in Opt(Group)
  BY <1>1 DEF IInv, TypeOK, Staging, Opt
<1>4. disk[r][id] = None
  BY <1>1 DEF Free
<1>5. x \in Index /\ loaded \in BOOLEAN /\ file \in File /\ dirs \in Dirs
  BY <1>3 DEF IInv, TypeOK, Index, File
<1> HIDE DEF i, r, x
<1>6. Placed' /\ disk' \in Disk /\ status' \in [Inst -> Status]
  BY <1>1, <1>2, <1>3, <1>4, Come DEF IInv
<1>7. \A j \in Inst : status'[j] = "trashed" <=> status[j] = "trashed"
  BY <1>1, <1>2 DEF IInv, TypeOK
<1>8. TrashCanBeUndone'
  BY <1>7, TrashKept DEF IInv
<1>9. home' \in [Id -> Opt(Root)] /\ index' \in Index /\ loaded' \in BOOLEAN
  BY <1>1, <1>5, LoadListTyped DEF IInv
<1>10. file' \in File
  BY <1>1, <1>9, SaveGroupListTyped
<1>11. asked' \in [Inst -> Opt(Group)] /\ unsure' \in SUBSET Inst
  BY <1>1, <1>2, <1>3 DEF IInv, TypeOK
<1>12. TypeOK'
  BY <1>1, <1>6, <1>9, <1>10, <1>11, NoStagingTyped DEF IInv, TypeOK, Disk, Index, File
<1>13. Staged'
  BY DEF Staged, NoStaging
<1> QED
  BY <1>6, <1>8, <1>12, <1>13 DEF IInv

LEMMA ChildSuccededStep ==
  ASSUME IInv, NEW phase \in {"child", "backoff"}, childSucceded(phase)
  PROVE  IInv'
<1>1. staging.phase # "none" /\ UNCHANGED <<dirs, history>>
  BY DEF childSucceded
<1>2. CASE commitUpdate /\ staging' = NoStaging
  BY <1>1, <1>2, CommitUpdateStep
<1>3. ASSUME NEW id \in Id, commitNew(id), staging' = NoStaging
      PROVE  IInv'
  BY <1>1, <1>3, CommitNewStep
<1>4. CASE backoff /\ UNCHANGED <<disk, status, home, groups, data, asked, unsure>>
  BY <1>1, <1>4, BackoffStep
<1> QED
  BY <1>2, <1>3, <1>4 DEF childSucceded, commitStagedInstance

LEMMA RestartStep ==
  ASSUME IInv, restart
  PROVE  IInv'
<1> DEFINE ids == discoverInstances(disk, dirs)
<1>1. /\ home' = [id \in Id |-> IF id \in ids THEN rootDirOf(disk, dirs, id) ELSE None]
      /\ index' = IF ids # {} /\ file.there THEN file.group ELSE NoGroups
      /\ loaded' = (ids # {} /\ file.there)
      /\ history' = <<>>
      /\ status' = [i \in Inst |-> IF status[i] = "trashed" THEN "out" ELSE status[i]]
      /\ staging' = NoStaging
      /\ UNCHANGED <<dirs, disk, file, data, asked, unsure>>
  BY DEF restart
<1>2. home' \in [Id -> Opt(Root)]
  <2>1. \A id \in ids : rootDirOf(disk, dirs, id) \in Root
    BY FoundInARoot DEF IInv, TypeOK
  <2> HIDE DEF ids
  <2> QED
    BY <1>1, <2>1 DEF Opt
<1>3. index' \in Index /\ loaded' \in BOOLEAN
  <2>1. file.group \in Index /\ file.there \in BOOLEAN /\ NoGroups \in Index
    BY DEF IInv, TypeOK, NoGroups, Index, Opt
  <2> QED
    BY <1>1, <2>1
<1>4. status' \in [Inst -> Status] /\ history' \in Seq(Record)
  BY <1>1 DEF IInv, TypeOK, Status
<1>5. TypeOK'
  BY <1>1, <1>2, <1>3, <1>4, NoStagingTyped DEF IInv, TypeOK, Index
<1>6. disk \in Disk /\ None \notin Inst
  BY InstanceListAssumption DEF IInv, TypeOK, Disk
<1>7. \A i \in Inst : status'[i] = "live" <=> status[i] = "live"
  BY <1>1
<1>8. Placed'
  <2>1. Once'
    BY <1>1 DEF IInv, Placed, Once
  <2>2. Somewhere'
    BY <1>1, <1>7 DEF IInv, Placed, Somewhere
  <2>3. Live'
    <3> SUFFICES ASSUME NEW r \in Root, NEW id \in Id, disk[r][id] # None
                 PROVE  status'[disk[r][id]] = "live"
      BY <1>1 DEF Live
    <3>1. disk[r][id] \in Inst /\ status[disk[r][id]] = "live"
      BY <1>6 DEF IInv, Placed, Live, Disk, Opt
    <3> QED
      BY <1>7, <3>1
  <2> QED
    BY <2>1, <2>2, <2>3 DEF Placed
<1>9. TrashCanBeUndone'
  <2>1. {i \in Inst : status'[i] = "trashed"} = {}
    BY <1>1
  <2>2. DOMAIN history' = {}
    BY <1>1
  <2> QED
    BY <2>1, <2>2 DEF TrashCanBeUndone
<1>10. Staged'
  BY <1>1 DEF Staged, NoStaging
<1> QED
  BY <1>5, <1>8, <1>9, <1>10 DEF IInv

-----------------------------------------------------------------------------
LEMMA InitInv == Init => IInv
<1> SUFFICES ASSUME Init
             PROVE  IInv
  OBVIOUS
<1>1. None \notin Inst
  BY InstanceListAssumption
<1>2. TypeOK
  <2>1. NoGroups \in Index
    BY DEF NoGroups, Index, Opt
  <2>2. history \in Seq(Record)
    BY DEF Init
  <2> QED
    BY <2>1, <2>2, NoStagingTyped DEF Init, TypeOK, Index, Opt, Status
<1>3. Placed
  BY <1>1 DEF Init, Placed, Live, Somewhere, Once
<1>4. TrashCanBeUndone
  <2>1. {i \in Inst : status[i] = "trashed"} = {}
    BY DEF Init
  <2>2. DOMAIN history = {}
    BY DEF Init
  <2> QED
    BY <2>1, <2>2 DEF TrashCanBeUndone
<1>5. Staged
  BY DEF Init, Staged, NoStaging
<1> QED
  BY <1>2, <1>3, <1>4, <1>5 DEF IInv

LEMMA NextInv == IInv /\ [Next]_vars => IInv'
<1> SUFFICES ASSUME IInv, [Next]_vars
             PROVE  IInv'
  OBVIOUS
<1>1. CASE instanceDirContentsChanged
  BY <1>1, ContentsChangedStep
<1>2. CASE on_GroupStateChanged
  BY <1>2, GroupStateStep
<1>3. CASE undoTrashInstance
  BY <1>3, UndoStep
<1>4. CASE childFailed
  BY <1>4, ChildFailedStep
<1>5. CASE restart
  BY <1>5, RestartStep
<1>6. ASSUME NEW phase \in {"child", "backoff"}, childSucceded(phase)
      PROVE  IInv'
  BY <1>6, ChildSuccededStep
<1>7. ASSUME NEW g \in Group, deleteGroup(g)
      PROVE  IInv'
  BY <1>7, DeleteGroupStep
<1>8. ASSUME NEW id \in Id, removeInstance(id)
      PROVE  IInv'
  BY <1>8, RemoveStep
<1>9. ASSUME NEW id \in Id, wrapUpdate(id)
      PROVE  IInv'
  BY <1>9, WrapUpdateStep
<1>10. ASSUME NEW id \in Id, NEW g \in Opt(Group), setInstanceGroup(id, g)
       PROVE  IInv'
  BY <1>10, SetGroupStep
<1>11. ASSUME NEW i \in Inst, NEW r \in Root, NEW g \in Opt(Group), wrapNew(i, r, g)
       PROVE  IInv'
  BY <1>11, WrapNewStep
<1>12. ASSUME NEW ds \in Dirs, on_InstFolderChanged(ds)
       PROVE  IInv'
  BY <1>12, InstFolderStep
<1>13. CASE UNCHANGED vars
  <2>1. TypeOK'
    BY <1>13 DEF IInv, TypeOK, vars, groups
  <2> QED
    BY <1>13, <2>1, GroupsStep DEF vars
<1> QED
  BY <1>1, <1>2, <1>3, <1>4, <1>5, <1>6, <1>7, <1>8, <1>9, <1>10, <1>11, <1>12, <1>13 DEF Next

LEMMA Invariance == Spec => []IInv
<1>1. Init => IInv
  BY InitInv
<1>2. IInv /\ [Next]_vars => IInv'
  BY NextInv
<1> QED
  BY <1>1, <1>2, PTL DEF Spec

\* Every variable keeps its type, whatever the settings name as folders.
THEOREM TypeCorrect == Spec => []TypeOK
<1>1. IInv => TypeOK
  BY DEF IInv
<1> QED
  BY <1>1, Invariance, PTL

\* Any number of instances, names and folders: one that was committed is in exactly one
\* folder until it is trashed or deleted, and otherwise in none (InstanceList.cpp:385-568,
\* 1356-1486).
THEOREM NothingLostHolds == Spec => []NothingLost
<1>1. IInv => NothingLost
  <2> SUFFICES ASSUME IInv, NEW i \in Inst
               PROVE  Cardinality(Places(i)) = IF status[i] = "live" THEN 1 ELSE 0
    BY DEF NothingLost
  <2>1. None \notin Inst
    BY InstanceListAssumption
  <2>2. CASE status[i] = "live"
    <3>1. PICK r \in Root, id \in Id : disk[r][id] = i
      BY <2>2 DEF IInv, Placed, Somewhere
    <3>2. \A s \in Root, jd \in Id : disk[s][jd] = i => s = r /\ jd = id
      BY <2>1, <3>1 DEF IInv, Placed, Once
    <3>3. Places(i) = {<<r, id>>}
      BY <3>1, <3>2 DEF Places
    <3> QED
      BY <2>2, <3>3, FS_Singleton
  <2>3. CASE status[i] # "live"
    <3>1. \A s \in Root, jd \in Id : disk[s][jd] # i
      BY <2>1, <2>3 DEF IInv, Placed, Live
    <3>2. Places(i) = {}
      BY <3>1 DEF Places
    <3> QED
      BY <2>3, <3>2, FS_EmptySet
  <2> QED
    BY <2>2, <2>3
<1> QED
  BY <1>1, Invariance, PTL

\* However often instances are trashed, restored under other names or fail to be, each one
\* that this process has moved to the trash has its record, and only one
\* (InstanceList.cpp:479, 506, 519-525).
THEOREM TrashCanBeUndoneHolds == Spec => []TrashCanBeUndone
<1>1. IInv => TrashCanBeUndone
  BY DEF IInv
<1> QED
  BY <1>1, Invariance, PTL

-----------------------------------------------------------------------------
(* Groups, when a name is not taken again in another folder.               *)

\* A name is in one folder at most, and what is listed is listed with that one; all that
\* is in the configured folders is listed.  Here d is the disk, ds the folders and h the
\* folder of each id.
NamesOnce(d) == \A id \in Id : \A r, s \in Root : d[r][id] # None /\ d[s][id] # None => r = s
AtHome(d, h) == \A id \in Id, r \in Root : h[id] # None /\ d[r][id] # None => r = h[id]
ListedIn(d, ds, h) == \A id \in Id, r \in ToSet(ds) : d[r][id] # None => h[id] = r
KnownIn(ds, h) == \A id \in Id : h[id] # None => h[id] \in ToSet(ds)
Shelved == /\ NamesOnce(disk)
           /\ AtHome(disk, home) /\ ListedIn(disk, dirs, home) /\ KnownIn(dirs, home)

\* Something is promised about the group of i.
Sure(i) == i \in Inst /\ i \notin unsure /\ asked[i] # None

\* Index, file and trash agree with what was asked for.
IndexRight == \A id \in Id : home[id] # None /\ Sure(disk[home[id]][id]) =>
                               index[id] = asked[disk[home[id]][id]]
FileRight == \A id \in Id, r \in ToSet(dirs) :
               Sure(disk[r][id]) => file.there /\ file.group[id] = asked[disk[r][id]]
TrashRight == \A n \in DOMAIN history :
                Sure(history[n].inst) => history[n].group = asked[history[n].inst]

\* Nothing is promised about what is in no configured folder.
AskedInDirs == /\ \A id \in Id, r \in Root :
                    disk[r][id] # None /\ r \notin ToSet(dirs) => asked[disk[r][id]] = None
               /\ \A n \in DOMAIN history :
                    history[n].root \notin ToSet(dirs) => asked[history[n].inst] = None
StagedInDirs == staging.phase # "none" /\ staging.override = None =>
                  staging.root \in ToSet(dirs) \cup {None}

Promised == IndexRight /\ FileRight /\ TrashRight /\ AskedInDirs
GInv == Shelved /\ Promised /\ StagedInDirs

\* The values that the steps below use.
LEMMA Values ==
  ASSUME IInv
  PROVE  /\ None \notin Inst /\ None \notin Root
         /\ disk \in Disk /\ \A r \in Root, id \in Id : disk[r][id] \in Inst \cup {None}
         /\ home \in [Id -> Opt(Root)] /\ \A id \in Id : home[id] # None => home[id] \in Root
         /\ dirs \in Dirs /\ ToSet(dirs) \subseteq Root
         /\ index \in Index /\ file \in File /\ loaded \in BOOLEAN
         /\ asked \in [Inst -> Opt(Group)] /\ unsure \subseteq Inst
         /\ history \in Seq(Record)
         /\ \A n \in DOMAIN history : history[n] \in Record /\ history[n].inst \in Inst
<1>1. dirs \in Seq(Root)
  BY InstanceListAssumption DEF IInv, TypeOK
<1>2. ASSUME NEW n \in DOMAIN history
      PROVE  history[n] \in Record /\ history[n].inst \in Inst
  <2>1. history \in Seq(Record)
    BY DEF IInv, TypeOK
  <2>2. history[n] \in Record
    BY <2>1
  <2> QED
    BY <2>2 DEF Record
<1> QED
  BY <1>1, <1>2, InstanceListAssumption DEF IInv, TypeOK, Disk, Index, File, Opt, ToSet

\* An id is found exactly when one of the folders has it, and in such a folder.
LEMMA Found ==
  ASSUME NEW d, NEW ds \in Dirs, NEW id \in Id
  PROVE  /\ ToSet(ds) \subseteq Root
         /\ id \in discoverInstances(d, ds) <=> \E r \in ToSet(ds) : d[r][id] # None
         /\ id \in discoverInstances(d, ds) =>
              rootDirOf(d, ds, id) \in ToSet(ds) /\ d[rootDirOf(d, ds, id)][id] # None
<1> DEFINE H == Holders(d, ds, id)
<1>1. ds \in Seq(Root)
  BY InstanceListAssumption
<1>2. ToSet(ds) \subseteq Root
  BY <1>1 DEF ToSet
<1>3. H \subseteq DOMAIN ds /\ H \in SUBSET Nat /\ \A n \in H : d[ds[n]][id] # None
  BY <1>1 DEF Holders
<1>4. H # {} => Min(H) \in H
  BY <1>3, MinIsMember
<1>5. id \in discoverInstances(d, ds) <=> H # {}
  BY DEF discoverInstances
<1>6. H # {} <=> \E r \in ToSet(ds) : d[r][id] # None
  BY DEF Holders, ToSet
<1>7. H # {} => rootDirOf(d, ds, id) = ds[Min(H)]
  BY DEF rootDirOf
<1> HIDE DEF H
<1> QED
  BY <1>2, <1>3, <1>4, <1>5, <1>6, <1>7 DEF ToSet

\* The list as it is loaded from the disk d and the folders ds.
LEMMA Reloaded ==
  ASSUME IInv, NEW d, NEW ds \in Dirs, NEW x, NEW l, NEW f,
         NamesOnce(d), AtHome(d, home), loadList(d, ds, x, l, f)
  PROVE  /\ AtHome(d, home') /\ ListedIn(d, ds, home') /\ KnownIn(ds, home')
         /\ \A id \in Id : home'[id] # None => d[home'[id]][id] # None
         /\ \A id \in Id : home'[id] # None /\ home[id] # None => home'[id] = home[id]
<1>1. \A id \in Id : home'[id] = IF id \notin discoverInstances(d, ds) THEN None
                                 ELSE IF id \in known THEN home[id] ELSE rootDirOf(d, ds, id)
  BY DEF loadList
<1>2. ASSUME NEW id \in Id
      PROVE  /\ home'[id] # None => d[home'[id]][id] # None /\ home'[id] \in ToSet(ds)
             /\ \A r \in Root : home'[id] # None /\ d[r][id] # None => r = home'[id]
             /\ \A r \in ToSet(ds) : d[r][id] # None => home'[id] = r
             /\ home'[id] # None /\ home[id] # None => home'[id] = home[id]
  <2> DEFINE found == id \in discoverInstances(d, ds)
             at == rootDirOf(d, ds, id)
  <2>1. /\ ToSet(ds) \subseteq Root
        /\ found <=> \E r \in ToSet(ds) : d[r][id] # None
        /\ found => at \in ToSet(ds) /\ d[at][id] # None
    BY Found
  <2>2. home'[id] = IF ~found THEN None ELSE IF home[id] # None THEN home[id] ELSE at
    BY <1>1 DEF known
  <2>3. \A r, s \in Root : d[r][id] # None /\ d[s][id] # None => r = s
    BY DEF NamesOnce
  <2>4. \A r \in Root : home[id] # None /\ d[r][id] # None => r = home[id]
    BY DEF AtHome
  <2>5. None \notin Root
    BY InstanceListAssumption
  <2> HIDE DEF found, at
  <2>6. CASE found
    <3>1. PICK r \in ToSet(ds) : d[r][id] # None
      BY <2>1, <2>6
    <3>2. home'[id] = r
      BY <2>1, <2>2, <2>3, <2>4, <2>6, <3>1
    <3> QED
      BY <2>1, <2>2, <2>3, <2>5, <2>6, <3>1, <3>2
  <2>7. CASE ~found
    BY <2>1, <2>2, <2>7
  <2> QED
    BY <2>6, <2>7
<1> QED
  BY <1>2 DEF AtHome, ListedIn, KnownIn

\* The index as it is loaded.
LEMMA IndexLoaded ==
  ASSUME NEW d, NEW ds, NEW x, NEW l, NEW f, loadList(d, ds, x, l, f)
  PROVE  \/ index' = x /\ (l \/ discoverInstances(d, ds) \subseteq known)
         \/ ~l /\ index' = (IF f.there THEN f.group ELSE NoGroups)
BY DEF loadList

\* A file that is saved is right when the index is.
LEMMA Saved ==
  ASSUME IInv', Shelved', IndexRight', file' = saveGroupList(index', known')
  PROVE  FileRight'
<1> SUFFICES ASSUME NEW id \in Id, NEW r \in ToSet(dirs'), Sure(disk[r][id])'
             PROVE  file'.there /\ file'.group[id] = asked'[disk'[r][id]]
  BY DEF FileRight
<1>1. dirs' \in Seq(Root)
  BY InstanceListAssumption DEF IInv, TypeOK
<1>2. disk'[r][id] # None /\ r # None
  BY <1>1, InstanceListAssumption DEF Sure, ToSet
<1>3. home'[id] = r
  BY <1>2 DEF Shelved, ListedIn
<1>4. id \in known' /\ index'[id] = asked'[disk'[r][id]]
  BY <1>2, <1>3 DEF IndexRight, known
<1> QED
  BY <1>4 DEF saveGroupList

\* What is promised of the trash depends on the records and on what was asked for.
LEMMA TrashStays ==
  ASSUME IInv, GInv, UNCHANGED <<dirs, history, unsure>>,
         \A n \in DOMAIN history : LET i == history[n].inst IN asked'[i] \in {asked[i], None}
  PROVE  /\ TrashRight'
         /\ \A n \in DOMAIN history' :
              history'[n].root \notin ToSet(dirs') => asked'[history'[n].inst] = None
BY DEF GInv, Promised, TrashRight, AskedInDirs, Sure

\* Only the staging changes.
LEMMA StagingGroups ==
  ASSUME IInv, GInv, StagedInDirs',
         UNCHANGED <<dirs, disk, status, history, home, groups, asked, unsure>>
  PROVE  GInv'
<1>1. Shelved'
  BY DEF GInv, Shelved, NamesOnce, AtHome, ListedIn, KnownIn
<1>2. IndexRight' /\ FileRight'
  BY DEF GInv, Promised, IndexRight, FileRight, Sure, groups
<1>3. TrashRight' /\ AskedInDirs'
  BY DEF GInv, Promised, TrashRight, AskedInDirs, Sure
<1> QED
  BY <1>1, <1>2, <1>3 DEF GInv, Promised

\* The list is loaded again, from the same folders, which hold the same.
LEMMA ReloadGroups ==
  ASSUME IInv, IInv', GInv, StagedInDirs',
         loadList(disk, dirs, index, loaded, file),
         UNCHANGED <<dirs, disk, history, asked, unsure>>,
         file' = file \/ file' = saveGroupList(index', known')
  PROVE  GInv'
<1>1. dirs \in Dirs /\ None \notin Root /\ ToSet(dirs) \subseteq Root
  BY Values
<1>2. /\ AtHome(disk, home') /\ ListedIn(disk, dirs, home') /\ KnownIn(dirs, home')
      /\ \A id \in Id : home'[id] # None => disk[home'[id]][id] # None
  BY <1>1, Reloaded DEF GInv, Shelved
<1>3. Shelved'
  BY <1>2 DEF GInv, Shelved, NamesOnce, AtHome, ListedIn, KnownIn
<1>4. discoverInstances(disk, dirs) \subseteq known
  <2> SUFFICES ASSUME NEW id \in discoverInstances(disk, dirs)
               PROVE  id \in known
    OBVIOUS
  <2>1. id \in Id
    BY DEF discoverInstances
  <2>2. PICK r \in ToSet(dirs) : disk[r][id] # None
    BY <1>1, <2>1, Found
  <2> QED
    BY <1>1, <2>1, <2>2 DEF GInv, Shelved, ListedIn, known
<1>5. index' = index
  BY <1>4, IndexLoaded DEF loadList
<1>6. IndexRight'
  <2> SUFFICES ASSUME NEW id \in Id, home'[id] # None, Sure(disk[home'[id]][id])
               PROVE  index[id] = asked[disk[home'[id]][id]]
    BY <1>5 DEF IndexRight, Sure
  <2>1. home[id] = home'[id]
    BY <1>2 DEF GInv, Shelved, ListedIn, KnownIn
  <2> QED
    BY <2>1 DEF GInv, Promised, IndexRight
<1>7. FileRight'
  <2>1. CASE file' = file
    BY <2>1 DEF GInv, Promised, FileRight, Sure
  <2> QED
    BY <1>3, <1>6, <2>1, Saved
<1>8. TrashRight' /\ AskedInDirs'
  BY DEF GInv, Promised, TrashRight, AskedInDirs, Sure
<1> QED
  BY <1>3, <1>6, <1>7, <1>8 DEF GInv, Promised

\* What was moved to the trash is in no folder.
LEMMA TrashedAreOut ==
  ASSUME IInv, NEW n \in DOMAIN history, NEW r \in Root, NEW id \in Id
  PROVE  history[n].inst # disk[r][id]
<1>1. history[n].inst \in Inst /\ None \notin Inst
  BY Values
<1>2. status[history[n].inst] = "trashed"
  BY <1>1 DEF IInv, TrashCanBeUndone
<1> QED
  BY <1>1, <1>2 DEF IInv, Placed, Live

LEMMA SetGroupGroups ==
  ASSUME IInv, IInv', GInv, NEW id \in Id, NEW g \in Opt(Group), setInstanceGroup(id, g)
  PROVE  GInv'
<1> DEFINE r == home[id]
           i == disk[r][id]
<1>1. /\ r # None
      /\ index' = [index EXCEPT ![id] = g]
      /\ file' = saveGroupList(index', known')
      /\ asked' = IF i = None THEN asked ELSE [asked EXCEPT ![i] = g]
      /\ unsure' = unsure \ {i}
      /\ UNCHANGED <<dirs, disk, status, history, home, staging>>
  BY DEF setInstanceGroup, known, InstanceOf
<1>2. r \in Root /\ r \in ToSet(dirs)
  BY <1>1, Values DEF GInv, Shelved, KnownIn
<1>3. i \in Inst \cup {None} /\ None \notin Inst
  BY <1>2, Values
<1>4. \A j \in Inst : asked'[j] = IF j = i THEN g ELSE asked[j]
  BY <1>1, <1>3, Values
<1>5. \A jd \in Id : index'[jd] = IF jd = id THEN g ELSE index[jd]
  BY <1>1, Values DEF Index
<1>6. \A s \in Root, jd \in Id : disk[s][jd] \in Inst /\ disk[s][jd] = i => s = r /\ jd = id
  BY <1>2, <1>3 DEF IInv, Placed, Once
<1>7. \A n \in DOMAIN history : history[n].inst \in Inst /\ history[n].inst # i
  BY <1>2, TrashedAreOut, Values
<1>8. \A s \in Root, jd \in Id : disk[s][jd] \in Inst \cup {None}
  BY Values
<1>9. \A jd \in Id : home[jd] # None => home[jd] \in Root
  BY Values
<1>10. Shelved'
  BY <1>1 DEF GInv, Shelved, NamesOnce, AtHome, ListedIn, KnownIn
<1>11. IndexRight'
  <2> SUFFICES ASSUME NEW jd \in Id, home[jd] # None, Sure(disk[home[jd]][jd])'
               PROVE  index'[jd] = asked'[disk[home[jd]][jd]]
    BY <1>1 DEF IndexRight, Sure
  <2> DEFINE j == disk[home[jd]][jd]
  <2>1. j \in Inst /\ j \notin unsure' /\ asked'[j] # None
    BY <1>1 DEF Sure
  <2>2. CASE jd = id
    BY <1>4, <1>5, <2>1, <2>2
  <2>3. CASE jd # id
    <3>1. j # i
      BY <1>6, <1>9, <2>1, <2>3
    <3> HIDE DEF i
    <3>2. asked'[j] = asked[j] /\ j \notin unsure /\ index'[jd] = index[jd]
      BY <1>1, <1>4, <1>5, <2>1, <2>3, <3>1
    <3> QED
      BY <2>1, <3>2 DEF GInv, Promised, IndexRight, Sure
  <2> QED
    BY <2>2, <2>3
<1>12. FileRight'
  BY <1>1, <1>10, <1>11, Saved
<1> HIDE DEF i
<1>13. TrashRight'
  BY <1>1, <1>4, <1>7 DEF GInv, Promised, TrashRight, Sure
<1>14. AskedInDirs'
  <2>1. \A n \in DOMAIN history : asked'[history[n].inst] = asked[history[n].inst]
    BY <1>4, <1>7
  <2>2. ASSUME NEW jd \in Id, NEW s \in Root, disk[s][jd] # None, s \notin ToSet(dirs)
        PROVE  asked'[disk[s][jd]] = None
    <3>1. disk[s][jd] \in Inst
      BY <1>8, <2>2
    <3>2. disk[s][jd] # i
      BY <1>2, <1>6, <2>2, <3>1
    <3>3. asked[disk[s][jd]] = None
      BY <2>2 DEF GInv, Promised, AskedInDirs
    <3> QED
      BY <1>4, <3>1, <3>2, <3>3
  <2> QED
    BY <1>1, <2>1, <2>2 DEF GInv, Promised, AskedInDirs
<1>15. StagedInDirs'
  BY <1>1 DEF GInv, StagedInDirs
<1> QED
  BY <1>10, <1>11, <1>12, <1>13, <1>14, <1>15 DEF GInv, Promised

LEMMA DeleteGroupGroups ==
  ASSUME IInv, IInv', GInv, NEW g \in Group, deleteGroup(g)
  PROVE  GInv'
<1>1. /\ index' = [id \in Id |-> IF id \in known /\ index[id] = g THEN None ELSE index[id]]
      /\ file' = saveGroupList(index', known')
      /\ asked' = [i \in Inst |-> IF status[i] = "live" /\ asked[i] = g THEN None ELSE asked[i]]
      /\ UNCHANGED <<dirs, disk, status, history, home, staging, unsure>>
  BY DEF deleteGroup, known
<1>2. \A s \in Root, jd \in Id : disk[s][jd] \in Inst \cup {None}
  BY Values
<1>3. \A jd \in Id : home[jd] # None => home[jd] \in Root
  BY Values
<1>4. \A i \in Inst : asked'[i] \in {asked[i], None}
  BY <1>1
<1>5. \A n \in DOMAIN history : history[n].inst \in Inst
  BY Values
<1>6. Shelved'
  BY <1>1 DEF GInv, Shelved, NamesOnce, AtHome, ListedIn, KnownIn
<1>7. IndexRight'
  <2> SUFFICES ASSUME NEW jd \in Id, home[jd] # None, Sure(disk[home[jd]][jd])'
               PROVE  index'[jd] = asked'[disk[home[jd]][jd]]
    BY <1>1 DEF IndexRight, Sure
  <2> DEFINE j == disk[home[jd]][jd]
  <2>1. j \in Inst /\ j \notin unsure /\ asked'[j] # None
    BY <1>1 DEF Sure
  <2>2. status[j] = "live"
    BY <1>3, <2>1, InstanceListAssumption DEF IInv, Placed, Live
  <2>3. asked'[j] = asked[j] /\ asked[j] # g
    BY <1>1, <2>1, <2>2
  <2>4. index[jd] = asked[j]
    BY <2>1, <2>3 DEF GInv, Promised, IndexRight, Sure
  <2> QED
    BY <1>1, <2>3, <2>4
<1>8. FileRight'
  BY <1>1, <1>6, <1>7, Saved
<1>9. /\ TrashRight'
      /\ \A n \in DOMAIN history' :
           history'[n].root \notin ToSet(dirs') => asked'[history'[n].inst] = None
  BY <1>1, <1>4, <1>5, TrashStays
<1>10. AskedInDirs'
  BY <1>1, <1>2, <1>4, <1>9 DEF GInv, Promised, AskedInDirs
<1>11. StagedInDirs'
  BY <1>1 DEF GInv, StagedInDirs
<1> QED
  BY <1>6, <1>7, <1>8, <1>9, <1>10, <1>11 DEF GInv, Promised

LEMMA GroupStateGroups ==
  ASSUME IInv, IInv', GInv, on_GroupStateChanged
  PROVE  GInv'
<1>1. /\ file' = saveGroupList(index', known')
      /\ UNCHANGED <<dirs, disk, history, home, index, staging, asked, unsure>>
  BY DEF on_GroupStateChanged, known
<1>2. Shelved' /\ IndexRight'
  BY <1>1 DEF GInv, Promised, Shelved, NamesOnce, AtHome, ListedIn, KnownIn, IndexRight, Sure
<1>3. FileRight'
  BY <1>1, <1>2, Saved
<1>4. TrashRight' /\ AskedInDirs' /\ StagedInDirs'
  BY <1>1 DEF GInv, Promised, TrashRight, AskedInDirs, StagedInDirs, Sure
<1> QED
  BY <1>2, <1>3, <1>4 DEF GInv, Promised

\* Something may be taken out of a folder, with the group of its name.
LEMMA RemoveGroups ==
  ASSUME IInv, IInv', GInv, NEW id \in Id, removeInstance(id)
  PROVE  GInv'
<1> DEFINE r == home[id]
           i == disk[r][id]
           gone == disk' = [disk EXCEPT ![r][id] = None]
<1>1. /\ r # None /\ i # None
      /\ forgetGroup(id)
      /\ UNCHANGED <<dirs, home, staging, unsure>>
  BY DEF removeInstance, trashInstance, deleteInstance, known, InstanceOf
<1>2. \/ /\ gone /\ asked' = asked
         /\ history' = Append(history, [inst |-> i, id |-> id, root |-> r, group |-> index[id]])
      \/ /\ gone \/ disk' = disk
         /\ asked' = [asked EXCEPT ![i] = None]
         /\ history' = history
  BY DEF removeInstance, trashInstance, deleteInstance, InstanceOf
<1>3. r \in Root /\ r \in ToSet(dirs)
  BY <1>1, Values DEF GInv, Shelved, KnownIn
<1>4. i \in Inst /\ None \notin Inst
  BY <1>1, <1>3, Values
<1>5. \A s \in Root, jd \in Id : disk[s][jd] \in Inst \cup {None}
  BY Values
<1>6. \A jd \in Id : home[jd] # None => home[jd] \in Root
  BY Values
<1>7. \A s \in Root, jd \in Id :
        disk'[s][jd] = IF gone /\ s = r /\ jd = id THEN None ELSE disk[s][jd]
  BY <1>2, Values DEF Disk
<1>8. \A j \in Inst : asked'[j] \in {asked[j], None}
  BY <1>2, <1>4, Values
<1>9. gone \/ asked'[i] = None
  BY <1>2, <1>4, Values
<1>10. \A jd \in Id : index'[jd] = IF jd = id THEN None ELSE index[jd]
  BY <1>1, Values DEF forgetGroup, Index
<1> HIDE DEF gone
<1>11. ~Sure(disk[r][id])'
  BY <1>1, <1>3, <1>4, <1>7, <1>9 DEF Sure
<1> HIDE DEF i, r
<1>12. Shelved'
  <2>1. NamesOnce(disk)' /\ AtHome(disk, home)'
    BY <1>1, <1>7 DEF GInv, Shelved, NamesOnce, AtHome
  <2>2. ListedIn(disk, dirs, home)' /\ KnownIn(dirs, home)'
    BY <1>1, <1>7, Values DEF GInv, Shelved, ListedIn, KnownIn
  <2> QED
    BY <2>1, <2>2 DEF Shelved
<1>13. \A s \in Root, jd \in Id :
         Sure(disk[s][jd])' => /\ ~(s = r /\ jd = id)
                               /\ disk'[s][jd] = disk[s][jd] /\ Sure(disk[s][jd])
                               /\ asked'[disk[s][jd]] = asked[disk[s][jd]]
  <2> SUFFICES ASSUME NEW s \in Root, NEW jd \in Id, Sure(disk[s][jd])'
               PROVE  /\ ~(s = r /\ jd = id)
                      /\ disk'[s][jd] = disk[s][jd] /\ Sure(disk[s][jd])
                      /\ asked'[disk[s][jd]] = asked[disk[s][jd]]
    OBVIOUS
  <2>1. ~(s = r /\ jd = id)
    BY <1>1, <1>11 DEF r
  <2>2. disk'[s][jd] = disk[s][jd]
    BY <1>7, <2>1
  <2>3. disk[s][jd] \in Inst /\ disk[s][jd] \notin unsure /\ asked'[disk[s][jd]] # None
    BY <1>1, <2>2 DEF Sure
  <2> QED
    BY <1>8, <2>1, <2>2, <2>3 DEF Sure
<1>14. IndexRight'
  <2> SUFFICES ASSUME NEW jd \in Id, home[jd] # None, Sure(disk[home[jd]][jd])'
               PROVE  index'[jd] = asked'[disk'[home[jd]][jd]]
    BY <1>1 DEF IndexRight
  <2>1. jd # id
    BY <1>1, <1>6, <1>13 DEF r
  <2>2. index[jd] = asked[disk[home[jd]][jd]]
    BY <1>1, <1>6, <1>13 DEF GInv, Promised, IndexRight
  <2> QED
    BY <1>1, <1>6, <1>10, <1>13, <2>1, <2>2
<1>15. FileRight'
  <2>1. CASE file' = saveGroupList(index', known')
    BY <1>12, <1>14, <2>1, Saved
  <2>2. CASE file' = file
    <3> SUFFICES ASSUME NEW jd \in Id, NEW s \in ToSet(dirs), Sure(disk[s][jd])'
                 PROVE  file.there /\ file.group[jd] = asked'[disk'[s][jd]]
      BY <1>1, <2>2 DEF FileRight
    <3>1. s \in Root
      BY Values
    <3> QED
      BY <1>13, <3>1 DEF GInv, Promised, FileRight
  <2>3. known' = known
    BY <1>1 DEF known
  <2> QED
    BY <1>1, <2>1, <2>2, <2>3 DEF forgetGroup
<1>16. /\ TrashRight'
       /\ \A n \in DOMAIN history' :
            history'[n].root \notin ToSet(dirs') => asked'[history'[n].inst] = None
  <2>1. \A n \in DOMAIN history : history[n].inst \in Inst
    BY Values
  <2>2. CASE history' = history
    BY <1>1, <1>8, <2>1, <2>2, TrashStays
  <2>3. CASE /\ asked' = asked
             /\ history' = Append(history, [inst |-> i, id |-> id, root |-> r,
                                            group |-> index[id]])
    <3> DEFINE last == Len(history) + 1
    <3>1. history \in Seq(Record)
      BY Values
    <3>2. /\ DOMAIN history' = DOMAIN history \cup {last}
          /\ \A n \in DOMAIN history : history'[n] = history[n]
          /\ history'[last] = [inst |-> i, id |-> id, root |-> r, group |-> index[id]]
      BY <2>3, <3>1
    <3> HIDE DEF last
    <3>3. Sure(i) => index[id] = asked[i]
      BY <1>1 DEF GInv, Promised, IndexRight, i, r
    <3>4. TrashRight'
      BY <1>1, <2>3, <3>2, <3>3 DEF GInv, Promised, TrashRight, Sure
    <3>5. \A n \in DOMAIN history' :
            history'[n].root \notin ToSet(dirs') => asked'[history'[n].inst] = None
      BY <1>1, <1>3, <2>3, <3>2 DEF GInv, Promised, AskedInDirs
    <3> QED
      BY <3>4, <3>5
  <2> QED
    BY <1>2, <2>2, <2>3
<1>17. AskedInDirs'
  <2> SUFFICES ASSUME NEW jd \in Id, NEW s \in Root, disk'[s][jd] # None, s \notin ToSet(dirs)
               PROVE  asked'[disk'[s][jd]] = None
    BY <1>1, <1>16 DEF AskedInDirs
  <2>1. disk'[s][jd] = disk[s][jd] /\ disk[s][jd] \in Inst
    BY <1>5, <1>7
  <2>2. asked[disk[s][jd]] = None
    BY <2>1 DEF GInv, Promised, AskedInDirs
  <2> QED
    BY <1>8, <2>1, <2>2
<1>18. StagedInDirs'
  BY <1>1 DEF GInv, StagedInDirs
<1> QED
  BY <1>12, <1>14, <1>15, <1>16, <1>17, <1>18 DEF GInv, Promised

\* An instance i comes into the folder r under a free name, and the list is loaded again.
Arrives(i, r, id, x) ==
  /\ id \in Free(r) /\ status[i] # "live"
  /\ disk' = [disk EXCEPT ![r][id] = i]
  /\ loadList(disk', dirs, x, loaded, file)
  /\ dirs' = dirs
  /\ \A jd \in Id \ {id} : x[jd] = index[jd]
  /\ \A j \in Inst \ {i} : asked'[j] = asked[j] /\ (j \in unsure' <=> j \in unsure)
  /\ loaded \/ i \in unsure'
  /\ asked'[i] # None => i \in unsure' \/ x[id] = asked'[i]
  /\ \/ file' = saveGroupList(index', known')
     \/ file' = file /\ (i \in unsure' \/ asked'[i] = None)
  /\ r \in ToSet(dirs) \/ asked'[i] = None

LEMMA Arrived ==
  ASSUME IInv, IInv', GInv, ~SameNames,
         NEW i \in Inst, NEW r \in Root, NEW id \in Id, NEW x, Arrives(i, r, id, x)
  PROVE  /\ Shelved' /\ IndexRight' /\ FileRight'
         /\ \A jd \in Id, s \in Root :
              disk'[s][jd] # None /\ s \notin ToSet(dirs') => asked'[disk'[s][jd]] = None
<1> USE DEF Arrives
<1>1. id \in Id /\ None \notin Inst /\ None \notin Root /\ dirs \in Dirs
      /\ ToSet(dirs) \subseteq Root
  BY Values DEF Free
<1>2. home[id] \in {None, r} /\ \A s \in Root : disk[s][id] = None
  BY DEF Free
<1>3. \A s \in Root, jd \in Id :
        disk'[s][jd] = IF s = r /\ jd = id THEN i ELSE disk[s][jd]
  BY <1>1, Values DEF Disk
<1>4. \A s \in Root, jd \in Id : disk[s][jd] \in Inst \cup {None} /\ disk[s][jd] # i
  BY <1>1, Values DEF IInv, Placed, Live
<1>5. NamesOnce(disk') /\ AtHome(disk', home)
  BY <1>1, <1>2, <1>3 DEF GInv, Shelved, NamesOnce, AtHome
<1>6. /\ AtHome(disk', home') /\ ListedIn(disk', dirs, home') /\ KnownIn(dirs, home')
      /\ \A jd \in Id : home'[jd] # None => disk'[home'[jd]][jd] # None
  BY <1>1, <1>5, Reloaded
<1>7. Shelved'
  BY <1>5, <1>6 DEF Shelved, NamesOnce, AtHome, ListedIn, KnownIn
<1>8. \/ index' = x
      \/ ~loaded /\ index' = (IF file.there THEN file.group ELSE NoGroups)
  BY DEF loadList
\* What is promised about another instance was promised before.
<1>9. ASSUME NEW jd \in Id, NEW s \in Root, Sure(disk[s][jd])', ~(s = r /\ jd = id)
       PROVE  /\ jd # id /\ disk'[s][jd] = disk[s][jd] /\ Sure(disk[s][jd])
              /\ asked'[disk[s][jd]] = asked[disk[s][jd]]
  <2>1. disk'[s][jd] = disk[s][jd]
    BY <1>3, <1>9
  <2>2. /\ disk[s][jd] \in Inst /\ disk[s][jd] \notin unsure'
        /\ asked'[disk[s][jd]] # None
    BY <1>9, <2>1 DEF Sure
  <2>3. jd # id
    BY <1>1, <1>2, <2>2
  <2>4. disk[s][jd] \in Inst \ {i}
    BY <1>4, <2>2
  <2>5. asked'[disk[s][jd]] = asked[disk[s][jd]] /\ disk[s][jd] \notin unsure
    BY <2>2, <2>4
  <2> QED
    BY <2>1, <2>2, <2>3, <2>5 DEF Sure
<1>10. IndexRight'
  <2> SUFFICES ASSUME NEW jd \in Id, home'[jd] # None, Sure(disk[home[jd]][jd])'
               PROVE  index'[jd] = asked'[disk'[home'[jd]][jd]]
    BY DEF IndexRight
  <2>1. PICK s \in Root : s = home'[jd] /\ s \in ToSet(dirs)
    BY <1>1, <1>6 DEF KnownIn
  <2>2. CASE s = r /\ jd = id
    <3>1. disk'[s][jd] = i
      BY <1>1, <1>3, <2>2
    <3>2. Sure(i)'
      BY <2>1, <3>1 DEF Sure
    <3>3. loaded
      BY <3>2 DEF Sure
    <3>4. index' = x
      BY <1>8, <3>3
    <3> QED
      BY <2>1, <2>2, <3>1, <3>2, <3>4 DEF Sure
  <2>3. CASE ~(s = r /\ jd = id)
    <3>1. Sure(disk[s][jd])'
      BY <2>1 DEF Sure
    <3>2. /\ jd # id /\ disk'[s][jd] = disk[s][jd] /\ Sure(disk[s][jd])
          /\ asked'[disk[s][jd]] = asked[disk[s][jd]]
      BY <1>9, <2>3, <3>1
    <3>3. disk[s][jd] # None
      BY <1>1, <3>2 DEF Sure
    <3>4. home[jd] = s
      BY <2>1, <3>3 DEF GInv, Shelved, ListedIn
    <3>5. index[jd] = asked[disk[s][jd]]
      BY <1>1, <2>1, <3>2, <3>4 DEF GInv, Promised, IndexRight
    <3>6. file.there /\ file.group[jd] = asked[disk[s][jd]]
      BY <2>1, <3>2 DEF GInv, Promised, FileRight
    <3> QED
      BY <1>8, <2>1, <3>2, <3>5, <3>6
  <2> QED
    BY <2>2, <2>3
<1>11. FileRight'
  <2>1. CASE file' = saveGroupList(index', known')
    BY <1>7, <1>10, <2>1, Saved
  <2>2. CASE file' = file /\ (i \in unsure' \/ asked'[i] = None)
    <3> SUFFICES ASSUME NEW jd \in Id, NEW s \in ToSet(dirs), Sure(disk[s][jd])'
                 PROVE  file.there /\ file.group[jd] = asked'[disk'[s][jd]]
      BY <2>2 DEF FileRight
    <3>1. s \in Root
      BY <1>1
    <3>2. ~(s = r /\ jd = id)
      BY <1>3, <2>2, <3>1 DEF Sure
    <3>3. /\ disk'[s][jd] = disk[s][jd] /\ Sure(disk[s][jd])
          /\ asked'[disk[s][jd]] = asked[disk[s][jd]]
      BY <1>9, <3>1, <3>2
    <3> QED
      BY <3>3 DEF GInv, Promised, FileRight
  <2> QED
    BY <2>1, <2>2
<1>12. ASSUME NEW jd \in Id, NEW s \in Root, disk'[s][jd] # None, s \notin ToSet(dirs)
       PROVE  asked'[disk'[s][jd]] = None
  <2>1. CASE s = r /\ jd = id
    BY <1>3, <1>12, <2>1
  <2>2. CASE ~(s = r /\ jd = id)
    <3>1. disk'[s][jd] = disk[s][jd] /\ disk[s][jd] \in Inst \ {i}
      BY <1>3, <1>4, <1>12, <2>2
    <3>2. asked[disk[s][jd]] = None
      BY <1>12, <3>1 DEF GInv, Promised, AskedInDirs
    <3> QED
      BY <3>1, <3>2
  <2> QED
    BY <2>1, <2>2
<1> QED
  BY <1>7, <1>10, <1>11, <1>12

LEMMA UndoGroups ==
  ASSUME IInv, IInv', GInv, ~SameNames, undoTrashInstance
  PROVE  GInv'
<1> DEFINE rec == Last(history)
           last == Len(history)
<1>1. history # <<>> /\ UNCHANGED <<dirs, staging, asked>>
  BY DEF undoTrashInstance
<1>2. history \in Seq(Record)
  BY Values
<1>3. last \in DOMAIN history /\ rec = history[last] /\ rec \in Record
  BY <1>1, <1>2 DEF Last
<1>4. rec.inst \in Inst /\ rec.root \in Root /\ rec.group \in Opt(Group)
  BY <1>3 DEF Record
<1>5. status[rec.inst] = "trashed"
  BY <1>3, <1>4 DEF IInv, TrashCanBeUndone
<1> HIDE DEF rec, last
<1>6. StagedInDirs'
  BY <1>1 DEF GInv, StagedInDirs
<1>7. CASE UNCHANGED <<disk, status, home, groups, unsure>> /\ history' = afterUndo(FALSE)
  <2>1. UNCHANGED history
    BY <1>7 DEF afterUndo
  <2> QED
    BY <1>1, <1>6, <1>7, <2>1, StagingGroups DEF groups
<1>8. ASSUME NEW id \in UndoId(rec),
             history' = afterUndo(TRUE),
             disk' = [disk EXCEPT ![rec.root][id] = rec.inst],
             loadList(disk', dirs, IF rec.group = None THEN index
                                   ELSE [index EXCEPT ![id] = rec.group], loaded, file),
             file' = IF rec.group = None THEN file ELSE saveGroupList(index', known'),
             unsure' = IF loaded THEN unsure ELSE unsure \cup {rec.inst}
      PROVE  GInv'
  <2>1. PICK i \in Inst, r \in Root : i = rec.inst /\ r = rec.root
    BY <1>4
  <2>2. PICK x : x = IF rec.group = None THEN index ELSE [index EXCEPT ![id] = rec.group]
    OBVIOUS
  <2>3. id \in Free(r) /\ id \in Id
    BY <1>8, <2>1, <2>2 DEF UndoId, Free
  <2>4. /\ \A jd \in Id \ {id} : x[jd] = index[jd]
        /\ rec.group # None => x[id] = rec.group
    BY <2>1, <2>2, <2>3, Values DEF Index
  <2>5. Sure(i) => rec.group = asked[i]
    BY <1>3, <2>1, <2>2 DEF GInv, Promised, TrashRight
  <2>6. r \notin ToSet(dirs) => asked[i] = None
    BY <1>3, <2>1, <2>2 DEF GInv, Promised, AskedInDirs
  <2>7. status[i] # "live"
    BY <1>5, <2>1, <2>2
  <2>8. Sure(i)' => loaded /\ Sure(i) /\ asked[i] # None
    BY <1>1, <1>8, <2>1, <2>2 DEF Sure
  <2>9. loadList(disk', dirs, x, loaded, file)
    BY <1>8, <2>1, <2>2
  <2>10. disk' = [disk EXCEPT ![r][id] = i]
    BY <1>8, <2>1, <2>2
  <2>11. \A j \in Inst \ {i} : asked'[j] = asked[j] /\ (j \in unsure' <=> j \in unsure)
    BY <1>1, <1>8, <2>1, <2>2
  <2>12. loaded \/ i \in unsure'
    BY <1>8, <2>1, <2>2
  <2>13. \/ file' = saveGroupList(index', known')
         \/ file' = file /\ (i \in unsure' \/ asked'[i] = None)
    BY <1>1, <1>8, <2>1, <2>2, <2>5, <2>8 DEF Sure
  <2>14. asked'[i] # None => i \in unsure' \/ x[id] = asked'[i]
    BY <1>1, <2>1, <2>2, <2>4, <2>5, <2>8 DEF Sure
  <2>15. r \in ToSet(dirs) \/ asked'[i] = None
    BY <1>1, <2>6
  <2>16. /\ Shelved' /\ IndexRight' /\ FileRight'
         /\ \A jd \in Id, s \in Root :
              disk'[s][jd] # None /\ s \notin ToSet(dirs') => asked'[disk'[s][jd]] = None
    <3>1. Arrives(i, r, id, x)
      BY <1>1, <2>3, <2>4, <2>7, <2>9, <2>10, <2>11, <2>12, <2>13, <2>14, <2>15 DEF Arrives
    <3> QED
      BY <1>1, <2>3, <3>1, Arrived
  <2>17. /\ DOMAIN history' \subseteq DOMAIN history
         /\ \A n \in DOMAIN history' : history'[n] = history[n]
    BY <1>1, <1>2, <1>8 DEF afterUndo, Front
  <2>18. TrashRight'
    <3> SUFFICES ASSUME NEW n \in DOMAIN history', Sure(history[n].inst)'
                 PROVE  history'[n].group = asked'[history'[n].inst]
      BY DEF TrashRight
    <3>1. history'[n] = history[n] /\ n \in DOMAIN history
      BY <2>17
    <3>2. Sure(history[n].inst)
      BY <1>1, <1>8, <3>1 DEF Sure
    <3> QED
      BY <1>1, <3>1, <3>2 DEF GInv, Promised, TrashRight
  <2>19. AskedInDirs'
    BY <1>1, <2>16, <2>17 DEF GInv, Promised, AskedInDirs
  <2> QED
    BY <1>6, <2>16, <2>18, <2>19 DEF GInv, Promised
<1> QED
  BY <1>7, <1>8 DEF undoTrashInstance, rec

LEMMA CommitNewGroups ==
  ASSUME IInv, IInv', GInv, ~SameNames, staging.phase # "none",
         NEW id \in Id, commitNew(id), staging' = NoStaging, UNCHANGED <<dirs, history>>
  PROVE  GInv'
<1>1. /\ staging.override = None /\ staging.root # None
      /\ staging.inst \in Inst /\ status[staging.inst] = "unborn"
  BY DEF commitNew, IInv, Staged
<1>2. staging.root \in ToSet(dirs) /\ staging.root \in Root
  BY <1>1, Values DEF GInv, StagedInDirs
<1>3. PICK i \in Inst, r \in Root : i = staging.inst /\ r = staging.root
  BY <1>1, <1>2
<1>4. PICK x : x = [index EXCEPT ![id] = staging.group]
  OBVIOUS
<1>5. /\ id \in Free(r)
      /\ disk' = [disk EXCEPT ![r][id] = i]
      /\ loadList(disk', dirs, x, loaded, file)
      /\ file' = saveGroupList(index', known')
      /\ asked' = [asked EXCEPT ![i] = staging.group]
      /\ unsure' = IF loaded THEN unsure ELSE unsure \cup {i}
  BY <1>3, <1>4 DEF commitNew
<1>6. \A j \in Inst : asked'[j] = IF j = i THEN staging.group ELSE asked[j]
  BY <1>5, Values
<1>7. /\ \A jd \in Id \ {id} : x[jd] = index[jd]
      /\ x[id] = staging.group
  BY <1>3, <1>4, Values DEF Index
<1>8. \A j \in Inst \ {i} : asked'[j] = asked[j] /\ (j \in unsure' <=> j \in unsure)
  BY <1>5, <1>6
<1>9. x[id] = asked'[i]
  BY <1>6, <1>7
<1>10. /\ Shelved' /\ IndexRight' /\ FileRight'
      /\ \A jd \in Id, s \in Root :
           disk'[s][jd] # None /\ s \notin ToSet(dirs') => asked'[disk'[s][jd]] = None
  <2>1. status[i] # "live" /\ (loaded \/ i \in unsure')
    BY <1>1, <1>3, <1>4, <1>5
  <2>2. Arrives(i, r, id, x)
    BY <1>2, <1>3, <1>4, <1>5, <1>7, <1>8, <1>9, <2>1 DEF Arrives
  <2> QED
    BY <2>2, Arrived
<1>11. \A n \in DOMAIN history : history[n].inst \in Inst \ {i}
  BY <1>1, <1>3, <1>4, Values DEF IInv, TrashCanBeUndone
<1>12. TrashRight'
  <2> SUFFICES ASSUME NEW n \in DOMAIN history, Sure(history[n].inst)'
               PROVE  history[n].group = asked'[history[n].inst]
    BY DEF TrashRight
  <2>1. Sure(history[n].inst)
    BY <1>8, <1>11 DEF Sure
  <2> QED
    BY <1>8, <1>11, <2>1 DEF GInv, Promised, TrashRight
<1>13. AskedInDirs'
  BY <1>8, <1>10, <1>11 DEF GInv, Promised, AskedInDirs
<1>14. StagedInDirs'
  BY DEF StagedInDirs, NoStaging
<1> QED
  BY <1>10, <1>12, <1>13, <1>14 DEF GInv, Promised

LEMMA ChildSuccededGroups ==
  ASSUME IInv, IInv', GInv, ~SameNames, NEW phase \in {"child", "backoff"}, childSucceded(phase)
  PROVE  GInv'
<1>1. staging.phase # "none" /\ UNCHANGED <<dirs, history>>
  BY DEF childSucceded
<1>2. CASE commitUpdate /\ staging' = NoStaging
  <2>1. /\ loadList(disk, dirs, index, loaded, file)
        /\ file' = saveGroupList(index', known')
        /\ UNCHANGED <<disk, asked, unsure>>
    BY <1>2 DEF commitUpdate
  <2>2. StagedInDirs'
    BY <1>2 DEF StagedInDirs, NoStaging
  <2> QED
    BY <1>1, <2>1, <2>2, ReloadGroups
<1>3. ASSUME NEW id \in Id, commitNew(id), staging' = NoStaging
      PROVE  GInv'
  BY <1>1, <1>3, CommitNewGroups
<1>4. CASE backoff /\ UNCHANGED <<disk, status, home, groups, data, asked, unsure>>
  <2>1. StagedInDirs'
    <3>1. CASE staging' = NoStaging
      BY <3>1 DEF StagedInDirs, NoStaging
    <3>2. CASE staging' = [staging EXCEPT !.phase = "backoff", !.sleep = 2 * @]
      <4>1. staging'.override = staging.override /\ staging'.root = staging.root
        BY <3>2 DEF IInv, TypeOK, Staging
      <4> QED
        BY <1>1, <4>1 DEF GInv, StagedInDirs
    <3> QED
      BY <1>4, <3>1, <3>2 DEF backoff
  <2> QED
    BY <1>1, <1>4, <2>1, StagingGroups
<1> QED
  BY <1>2, <1>3, <1>4 DEF childSucceded, commitStagedInstance

LEMMA WrapNewGroups ==
  ASSUME IInv, GInv, NEW i \in Inst, NEW r \in Root, NEW g \in Opt(Group), wrapNew(i, r, g)
  PROVE  GInv'
<1>1. PICK path \in {r, None} :
        staging' = [NoStaging EXCEPT !.phase = "child", !.inst = i, !.root = path, !.group = g]
  BY DEF wrapNew, getStagedInstancePath
<1>2. /\ r \in ToSet(dirs)
      /\ UNCHANGED <<dirs, disk, status, history, home, groups, asked, unsure>>
  BY DEF wrapNew
<1>3. StagedInDirs'
  BY <1>1, <1>2 DEF StagedInDirs, NoStaging
<1> QED
  BY <1>2, <1>3, StagingGroups

LEMMA WrapUpdateGroups ==
  ASSUME IInv, GInv, NEW id \in Id, wrapUpdate(id)
  PROVE  GInv'
<1>1. PICK path : staging' = [NoStaging EXCEPT !.phase = "child", !.override = id, !.root = path]
  BY DEF wrapUpdate
<1>2. UNCHANGED <<dirs, disk, status, history, home, groups, asked, unsure>>
  BY DEF wrapUpdate
<1>3. StagedInDirs'
  BY <1>1, InstanceListAssumption DEF StagedInDirs, NoStaging
<1> QED
  BY <1>2, <1>3, StagingGroups

\* Other folders: what is promised concerns what was in one of the old ones as well.
LEMMA InstFolderGroups ==
  ASSUME IInv, IInv', GInv, NEW ds \in Dirs, on_InstFolderChanged(ds)
  PROVE  GInv'
<1>1. /\ dirs' = ds
      /\ file' = IF loaded THEN saveGroupList(index, known) ELSE file
      /\ loadList(disk, ds, index, FALSE, file')
      /\ asked' = [i \in Inst |-> IF \E n \in DOMAIN ds, id \in Id : disk[ds[n]][id] = i
                                 THEN asked[i] ELSE None]
      /\ UNCHANGED <<disk, history, staging, unsure>>
  BY DEF on_InstFolderChanged
<1>2. ToSet(ds) \subseteq Root /\ None \notin Root /\ None \notin Inst
  <2>1. ds \in Seq(Root)
    BY InstanceListAssumption
  <2> QED
    BY <2>1, InstanceListAssumption DEF ToSet
<1>3. \A i \in Inst : asked'[i] \in {asked[i], None}
  BY <1>1
<1>4. \A i \in Inst : asked'[i] # None => \E r \in ToSet(ds), id \in Id : disk[r][id] = i
  BY <1>1 DEF ToSet
<1>5. \A r \in Root, id \in Id : disk[r][id] \in Inst \cup {None}
  BY Values
<1>6. /\ AtHome(disk, home') /\ ListedIn(disk, ds, home') /\ KnownIn(ds, home')
      /\ \A id \in Id : home'[id] # None => disk[home'[id]][id] # None
  BY <1>1, Reloaded DEF GInv, Shelved
<1>7. Shelved'
  BY <1>1, <1>6 DEF GInv, Shelved, NamesOnce, AtHome, ListedIn, KnownIn
<1>8. ASSUME NEW id \in Id, NEW r \in ToSet(ds), Sure(disk[r][id])'
      PROVE  /\ index[id] = asked'[disk[r][id]]
             /\ file'.there /\ file'.group[id] = asked'[disk[r][id]]
  <2>1. r \in Root /\ r # None
    BY <1>2
  <2>2. disk[r][id] \in Inst /\ disk[r][id] \notin unsure /\ asked'[disk[r][id]] # None
    BY <1>1, <1>8 DEF Sure
  <2>3. asked'[disk[r][id]] = asked[disk[r][id]]
    BY <1>3, <2>2
  <2>4. Sure(disk[r][id])
    BY <2>2, <2>3 DEF Sure
  <2>5. r \in ToSet(dirs) /\ disk[r][id] # None
    BY <1>2, <2>1, <2>2, <2>3 DEF GInv, Promised, AskedInDirs
  <2>6. home[id] = r
    BY <2>5 DEF GInv, Shelved, ListedIn
  <2>7. index[id] = asked[disk[r][id]]
    BY <2>1, <2>4, <2>6 DEF GInv, Promised, IndexRight
  <2>8. file.there /\ file.group[id] = asked[disk[r][id]]
    BY <2>4, <2>5 DEF GInv, Promised, FileRight
  <2>9. id \in known
    BY <2>1, <2>6 DEF known
  <2> QED
    BY <1>1, <2>3, <2>7, <2>8, <2>9 DEF saveGroupList
<1>9. index' = index \/ index' = (IF file'.there THEN file'.group ELSE NoGroups)
  BY <1>1 DEF loadList
<1>10. IndexRight'
  <2> SUFFICES ASSUME NEW id \in Id, home'[id] # None, Sure(disk[home[id]][id])'
               PROVE  index'[id] = asked'[disk[home'[id]][id]]
    BY <1>1 DEF IndexRight
  <2>1. PICK r \in ToSet(ds) : r = home'[id]
    BY <1>6 DEF KnownIn
  <2>2. Sure(disk[r][id])'
    BY <2>1 DEF Sure
  <2> QED
    BY <1>8, <1>9, <2>1, <2>2
<1>11. FileRight'
  BY <1>1, <1>8 DEF FileRight
<1>12. TrashRight'
  BY <1>1, <1>3, Values DEF GInv, Promised, TrashRight, Sure
<1>13. AskedInDirs'
  <2>1. ASSUME NEW id \in Id, NEW r \in Root, disk[r][id] # None, r \notin ToSet(ds)
        PROVE  asked'[disk[r][id]] = None
    <3>1. disk[r][id] \in Inst
      BY <1>5, <2>1
    <3>2. \A s \in ToSet(ds), jd \in Id : disk[s][jd] # disk[r][id]
      BY <1>2, <2>1, <3>1 DEF IInv, Placed, Once
    <3> QED
      BY <1>4, <3>1, <3>2
  <2>2. ASSUME NEW n \in DOMAIN history
        PROVE  asked'[history[n].inst] = None
    <3>1. history[n].inst \in Inst
      BY Values
    <3>2. \A s \in ToSet(ds), jd \in Id : disk[s][jd] # history[n].inst
      BY <1>2, TrashedAreOut
    <3> QED
      BY <1>4, <3>1, <3>2
  <2> QED
    BY <1>1, <2>1, <2>2 DEF AskedInDirs
<1>14. StagedInDirs'
  <2>1. staging.phase = "none"
    BY DEF on_InstFolderChanged, AtRest
  <2> QED
    BY <1>1, <2>1 DEF StagedInDirs
<1> QED
  BY <1>7, <1>10, <1>11, <1>12, <1>13, <1>14 DEF GInv, Promised

\* The list is discovered again and the groups are those of the file.
LEMMA RestartGroups ==
  ASSUME IInv, GInv, restart
  PROVE  GInv'
<1> DEFINE ids == discoverInstances(disk, dirs)
<1>1. /\ home' = [id \in Id |-> IF id \in ids THEN rootDirOf(disk, dirs, id) ELSE None]
      /\ index' = IF ids # {} /\ file.there THEN file.group ELSE NoGroups
      /\ history' = <<>> /\ staging' = NoStaging
      /\ UNCHANGED <<dirs, disk, file, asked, unsure>>
  BY DEF restart
<1>2. dirs \in Dirs /\ None \notin Root /\ ToSet(dirs) \subseteq Root
  BY Values
<1>3. ASSUME NEW id \in Id
      PROVE  /\ home'[id] # None => id \in ids /\ home'[id] \in ToSet(dirs)
             /\ \A r \in Root : home'[id] # None /\ disk[r][id] # None => r = home'[id]
             /\ \A r \in ToSet(dirs) : disk[r][id] # None => home'[id] = r
  <2> DEFINE found == id \in ids
             at == rootDirOf(disk, dirs, id)
  <2>1. /\ found <=> \E r \in ToSet(dirs) : disk[r][id] # None
        /\ found => at \in ToSet(dirs) /\ disk[at][id] # None
    BY <1>2, Found
  <2>2. home'[id] = IF found THEN at ELSE None
    BY <1>1
  <2>3. \A r, s \in Root : disk[r][id] # None /\ disk[s][id] # None => r = s
    BY DEF GInv, Shelved, NamesOnce
  <2> HIDE DEF found, at
  <2>4. /\ home'[id] # None => found /\ home'[id] \in ToSet(dirs)
        /\ \A r \in Root : home'[id] # None /\ disk[r][id] # None => r = home'[id]
        /\ \A r \in ToSet(dirs) : disk[r][id] # None => home'[id] = r
    BY <1>2, <2>1, <2>2, <2>3
  <2> QED
    BY <2>4 DEF found
<1> HIDE DEF ids
<1>4. Shelved'
  BY <1>1, <1>3 DEF GInv, Shelved, NamesOnce, AtHome, ListedIn, KnownIn
<1>5. IndexRight'
  <2> SUFFICES ASSUME NEW id \in Id, home'[id] # None, Sure(disk[home[id]][id])'
               PROVE  index'[id] = asked[disk[home'[id]][id]]
    BY <1>1 DEF IndexRight
  <2>1. PICK r \in ToSet(dirs) : r = home'[id]
    BY <1>3
  <2>2. Sure(disk[r][id])
    BY <1>1, <2>1 DEF Sure
  <2>3. file.there /\ file.group[id] = asked[disk[r][id]]
    BY <2>2 DEF GInv, Promised, FileRight
  <2>4. ids # {}
    BY <1>3
  <2> QED
    BY <1>1, <2>1, <2>3, <2>4
<1>6. FileRight'
  BY <1>1 DEF GInv, Promised, FileRight, Sure
<1>7. DOMAIN history' = {}
  BY <1>1
<1>8. TrashRight' /\ AskedInDirs'
  BY <1>1, <1>7 DEF GInv, Promised, TrashRight, AskedInDirs
<1>9. StagedInDirs'
  BY <1>1 DEF StagedInDirs, NoStaging
<1> QED
  BY <1>4, <1>5, <1>6, <1>8, <1>9 DEF GInv, Promised

LEMMA InitGroups == Init => GInv
<1> SUFFICES ASSUME Init
             PROVE  GInv
  OBVIOUS
<1>1. \A r \in Root, id \in Id : disk[r][id] = None
  BY DEF Init
<1>2. \A id \in Id : home[id] = None
  BY DEF Init
<1>3. dirs \in Seq(Root)
  BY InstanceListAssumption DEF Init
<1>4. ToSet(dirs) \subseteq Root /\ None \notin Inst
  BY <1>3, InstanceListAssumption DEF ToSet
<1>5. DOMAIN history = {}
  BY DEF Init
<1>6. Shelved
  BY <1>1, <1>2, <1>4 DEF Shelved, NamesOnce, AtHome, ListedIn, KnownIn
<1>7. Promised
  BY <1>1, <1>2, <1>4, <1>5 DEF Promised, IndexRight, FileRight, TrashRight, AskedInDirs, Sure
<1>8. StagedInDirs
  BY DEF Init, StagedInDirs, NoStaging
<1> QED
  BY <1>6, <1>7, <1>8 DEF GInv

LEMMA NextGroups ==
  ASSUME ~SameNames
  PROVE  IInv /\ IInv' /\ GInv /\ [Next]_vars => GInv'
<1> SUFFICES ASSUME IInv, IInv', GInv, [Next]_vars
             PROVE  GInv'
  OBVIOUS
<1>1. CASE instanceDirContentsChanged
  <2>1. /\ loadList(disk, dirs, index, loaded, file)
        /\ UNCHANGED <<dirs, disk, history, file, staging, asked, unsure>>
    BY <1>1 DEF instanceDirContentsChanged
  <2>2. StagedInDirs'
    BY <2>1 DEF GInv, StagedInDirs
  <2> QED
    BY <2>1, <2>2, ReloadGroups
<1>2. CASE on_GroupStateChanged
  BY <1>2, GroupStateGroups
<1>3. CASE undoTrashInstance
  BY <1>3, UndoGroups
<1>4. CASE childFailed
  <2>1. StagedInDirs'
    BY <1>4 DEF childFailed, StagedInDirs, NoStaging
  <2> QED
    BY <1>4, <2>1, StagingGroups DEF childFailed
<1>5. CASE restart
  BY <1>5, RestartGroups
<1>6. ASSUME NEW phase \in {"child", "backoff"}, childSucceded(phase)
      PROVE  GInv'
  BY <1>6, ChildSuccededGroups
<1>7. ASSUME NEW g \in Group, deleteGroup(g)
      PROVE  GInv'
  BY <1>7, DeleteGroupGroups
<1>8. ASSUME NEW id \in Id, removeInstance(id)
      PROVE  GInv'
  BY <1>8, RemoveGroups
<1>9. ASSUME NEW id \in Id, wrapUpdate(id)
      PROVE  GInv'
  BY <1>9, WrapUpdateGroups
<1>10. ASSUME NEW id \in Id, NEW g \in Opt(Group), setInstanceGroup(id, g)
       PROVE  GInv'
  BY <1>10, SetGroupGroups
<1>11. ASSUME NEW i \in Inst, NEW r \in Root, NEW g \in Opt(Group), wrapNew(i, r, g)
       PROVE  GInv'
  BY <1>11, WrapNewGroups
<1>12. ASSUME NEW ds \in Dirs, on_InstFolderChanged(ds)
       PROVE  GInv'
  BY <1>12, InstFolderGroups
<1>13. CASE UNCHANGED vars
  <2>1. StagedInDirs'
    BY <1>13 DEF vars, GInv, StagedInDirs
  <2> QED
    BY <1>13, <2>1, StagingGroups DEF vars
<1> QED
  BY <1>1, <1>2, <1>3, <1>4, <1>5, <1>6, <1>7, <1>8, <1>9, <1>10, <1>11, <1>12, <1>13 DEF Next

\* Any number of instances, names, folders and groups, when a name is not taken again in
\* another folder (the list would keep the object of the other one): through restarts, the
\* trash, other folders and staged commits, an instance stays in the group that it was put
\* into once a group file counted as loaded (InstanceList.h:237-239, InstanceList.cpp:550-551).
THEOREM GroupKeptHolds ==
  ASSUME ~SameNames
  PROVE  Spec => []GroupKept
<1>1. Init => IInv /\ GInv
  BY InitInv, InitGroups
<1>2. IInv /\ GInv /\ [Next]_vars => (IInv /\ GInv)'
  BY NextInv, NextGroups
<1>3. GInv => GroupKept
  BY DEF GInv, Promised, IndexRight, GroupKept, Sure, known, InstanceOf
<1> QED
  BY <1>1, <1>2, <1>3, PTL DEF Spec
=============================================================================
