---------------------------- MODULE InstanceList ----------------------------
(***************************************************************************)
(* launcher/InstanceList: the instances in the configured folders, their   *)
(* groups in memory and in a file, the trash that can be undone, and the   *)
(* staging of a new instance or of an update, whose commit is retried.     *)
(*                                                                         *)
(* An instance is known by what it is (Inst), by the name of its folder    *)
(* (Id) and by the folder that is in (Root).  What it contains is left     *)
(* out.  Handlers run one at a time; instancesChanged() reaches loadList() *)
(* within the call that emits it.                                          *)
(***************************************************************************)
EXTENDS Integers, SequencesExt

CONSTANTS Inst, Id, Root, Group,
          None,            \* no instance, no id, no root, no group
          Dirs,            \* what the settings may name as folders, the primary one first;
                           \* one of them at least is there
          SameNames,       \* a name may be taken again in another folder
          StagingMayFail   \* a folder may have become inaccessible

ASSUME InstanceListAssumption ==
  /\ None \notin Inst \cup Id \cup Root \cup Group
  /\ Dirs \subseteq Seq(Root) \ {<<>>} /\ Dirs # {}
  /\ SameNames \in BOOLEAN /\ StagingMayFail \in BOOLEAN

VARIABLES dirs,      \* m_instDirs
          disk,      \* the instance in each folder of each root
          status,    \* of each instance, see Status
          history,   \* m_trashHistory
          home,      \* m_instances: the root of the one with each id
          index,     \* m_instanceGroupIndex
          loaded,    \* m_groupsLoaded
          file,      \* instgroups.json
          staging,   \* the InstanceStaging that runs, behind a modal dialog
          data,      \* the launcher's data folder is there
          asked,     \* the group each instance should be in (history) ...
          unsure     \* ... and those to which it was given while ~loaded (history)
groups == <<index, loaded, file>>
vars == <<dirs, disk, status, history, home, groups, staging, data, asked, unsure>>

Opt(S) == S \cup {None}
\* live: in a folder; trashed: by this process; out: in the trash, and forgotten
Status == {"unborn", "live", "trashed", "out", "deleted"}
Record == [inst : Inst, id : Id, root : Root, group : Opt(Group)]
Staging == [phase : {"none", "child", "backoff"}, inst : Opt(Inst), override : Opt(Id),
            root : Opt(Root), group : Opt(Group), sleep : {1, 2, 4, 8, 16}]

TypeOK == /\ dirs \in Dirs
          /\ disk \in [Root -> [Id -> Opt(Inst)]]
          /\ status \in [Inst -> Status]
          /\ history \in Seq(Record)
          /\ home \in [Id -> Opt(Root)]
          /\ index \in [Id -> Opt(Group)]
          /\ loaded \in BOOLEAN
          /\ file \in [there : BOOLEAN, group : [Id -> Opt(Group)]]
          /\ staging \in Staging
          /\ data \in BOOLEAN
          /\ asked \in [Inst -> Opt(Group)]
          /\ unsure \in SUBSET Inst

NoGroups == [id \in Id |-> None]
NoStaging == [phase |-> "none", inst |-> None, override |-> None, root |-> None,
              group |-> None, sleep |-> 1]

\* A launcher that is started for the first time.
Init == /\ dirs \in Dirs
        /\ disk = [r \in Root |-> [id \in Id |-> None]]
        /\ status = [i \in Inst |-> "unborn"]
        /\ history = <<>>
        /\ home = [id \in Id |-> None]
        /\ index = NoGroups /\ loaded = FALSE
        /\ file = [there |-> FALSE, group |-> NoGroups]
        /\ staging = NoStaging
        /\ data = TRUE
        /\ asked = [i \in Inst |-> None]
        /\ unsure = {}

-----------------------------------------------------------------------------
(* Discovering and loading. *)

\* Where the instance of an id is found: in the first configured folder that has one.
Holders(d, ds, id) == {n \in DOMAIN ds : d[ds[n]][id] # None}
rootDirOf(d, ds, id) == IF Holders(d, ds, id) = {} THEN ds[1] ELSE ds[Min(Holders(d, ds, id))]
discoverInstances(d, ds) == {id \in Id : Holders(d, ds, id) # {}}
known == {id \in Id : home[id] # None}
InstanceOf(id) == disk[home[id]][id]

\* saveGroupList(), when the ids in ids are known and x is the index.
saveGroupList(x, ids) ==
  [there |-> TRUE, group |-> [id \in Id |-> IF id \in ids THEN x[id] ELSE None]]

\* loadList() on the disk d and the folders ds, when the index is x, it counts as loaded
\* or not (l), and f is the file: an id that is in the list keeps its object, and loading
\* one that is new loads the groups first.
loadList(d, ds, x, l, f) ==
  LET ids == discoverInstances(d, ds)
      reads == ~l /\ ids \ known # {}
  IN /\ home' = [id \in Id |-> IF id \notin ids THEN None
                              ELSE IF id \in known THEN home[id] ELSE rootDirOf(d, ds, id)]
     /\ index' = IF reads THEN IF f.there THEN f.group ELSE NoGroups ELSE x
     /\ loaded' = (l \/ (reads /\ f.there))

\* The watcher of the folders has noticed something.
instanceDirContentsChanged ==
  /\ known # discoverInstances(disk, dirs)
  /\ loadList(disk, dirs, index, loaded, file)
  /\ UNCHANGED <<dirs, disk, status, history, file, staging, data, asked, unsure>>

-----------------------------------------------------------------------------
(* What the user does in the main window, when no dialog is open. *)

AtRest == staging.phase = "none" /\ data

setInstanceGroup(id, g) ==
  /\ AtRest
  /\ id \in known /\ index[id] # g
  /\ index' = [index EXCEPT ![id] = g]
  /\ file' = saveGroupList(index', known)
  /\ asked' = IF InstanceOf(id) = None THEN asked ELSE [asked EXCEPT ![InstanceOf(id)] = g]
  /\ unsure' = unsure \ {InstanceOf(id)}
  /\ UNCHANGED <<dirs, disk, status, history, home, loaded, staging, data>>

deleteGroup(g) ==
  /\ AtRest
  /\ \E id \in known : index[id] = g
  /\ index' = [id \in Id |-> IF id \in known /\ index[id] = g THEN None ELSE index[id]]
  /\ file' = saveGroupList(index', known)
  /\ asked' = [i \in Inst |-> IF status[i] = "live" /\ asked[i] = g THEN None ELSE asked[i]]
  /\ UNCHANGED <<dirs, disk, status, history, home, loaded, staging, data, unsure>>

\* A group is collapsed or expanded.
on_GroupStateChanged ==
  /\ AtRest
  /\ file' = saveGroupList(index, known)
  /\ UNCHANGED <<dirs, disk, status, history, home, index, loaded, staging, data, asked,
                 unsure>>

\* The group of id is taken out of the index, and the file is written if there was one.
forgetGroup(id) ==
  /\ index' = [index EXCEPT ![id] = None]
  /\ file' = IF index[id] = None THEN file ELSE saveGroupList(index', known)

\* Wrong on purpose, as are the definitions below whose names end in Mutant: each is a
\* bug that a property of this module has to notice.
trashInstanceMutant(id) ==
  LET r == home[id] IN
  /\ disk' = [disk EXCEPT ![r][id] = None]
  /\ status' = [status EXCEPT ![InstanceOf(id)] = "trashed"]
  /\ forgetGroup(id)
  /\ history' = Append(history, [inst |-> InstanceOf(id), id |-> id, root |-> r,
                                 group |-> index'[id]])
  /\ UNCHANGED asked

trashInstance(id) ==
  LET r == home[id] IN
  /\ disk' = [disk EXCEPT ![r][id] = None]
  /\ status' = [status EXCEPT ![InstanceOf(id)] = "trashed"]
  /\ history' = Append(history, [inst |-> InstanceOf(id), id |-> id, root |-> r,
                                 group |-> index[id]])
  /\ forgetGroup(id)
  /\ UNCHANGED asked

\* deleteInstance(), which may fail: by then the instance has lost its group.
deleteInstance(id) ==
  /\ \/ /\ disk' = [disk EXCEPT ![home[id]][id] = None]
        /\ status' = [status EXCEPT ![InstanceOf(id)] = "deleted"]
     \/ UNCHANGED <<disk, status>>
  /\ asked' = [asked EXCEPT ![InstanceOf(id)] = None]
  /\ forgetGroup(id)
  /\ UNCHANGED history

\* "Delete instance": what cannot be moved to the trash is deleted.
removeInstance(id) ==
  /\ AtRest
  /\ id \in known /\ InstanceOf(id) # None
  /\ trashInstance(id) \/ deleteInstance(id)
  /\ UNCHANGED <<dirs, home, loaded, staging, data, unsure>>

\* Names that nothing has in the folder r and that, unless SameNames, nothing has in
\* another folder or is still listed with there: the list would keep the other's object.
Free(r) ==
  {id \in Id : /\ disk[r][id] = None
              /\ \/ SameNames
                 \/ home[id] \in {None, r} /\ \A s \in Root : disk[s][id] = None}

\* The history after an attempt to restore its last record.
afterUndoMutant(restored) == Front(history)
afterUndo(restored) == IF restored THEN Front(history) ELSE history

\* The path that a record goes back to: its own, or another when that is taken.
UndoIdMutant(rec) == {rec.id}
UndoId(rec) == IF disk[rec.root][rec.id] = None THEN {rec.id} \cap Free(rec.root)
               ELSE Free(rec.root)

undoTrashInstance ==
  LET rec == Last(history) IN
  /\ AtRest /\ history # <<>>
  /\ \/ /\ history' = afterUndo(FALSE)
        /\ UNCHANGED <<disk, status, home, groups, unsure>>
     \/ \E id \in UndoId(rec) :
          LET x == IF rec.group = None THEN index ELSE [index EXCEPT ![id] = rec.group] IN
          /\ history' = afterUndo(TRUE)
          /\ disk' = [disk EXCEPT ![rec.root][id] = rec.inst]
          /\ status' = [status EXCEPT ![rec.inst] = "live"]
          /\ loadList(disk', dirs, x, loaded, file)
          /\ file' = IF rec.group = None THEN file ELSE saveGroupList(index', known')
          /\ unsure' = IF loaded THEN unsure ELSE unsure \cup {rec.inst}
  /\ UNCHANGED <<dirs, staging, data, asked>>

\* The settings name other folders.  Nothing is promised any more about the groups of
\* instances that are in none of them.
on_InstFolderChanged(ds) ==
  /\ AtRest
  /\ ds # dirs
  /\ dirs' = ds
  /\ file' = IF loaded THEN saveGroupList(index, known) ELSE file
  /\ loadList(disk, ds, index, FALSE, file')
  /\ asked' = [i \in Inst |->
                IF \E n \in DOMAIN ds, id \in Id : disk[ds[n]][id] = i THEN asked[i] ELSE None]
  /\ UNCHANGED <<disk, status, history, staging, data, unsure>>

-----------------------------------------------------------------------------
(* InstanceStaging. *)

\* getStagedInstancePath(): no root stands for the empty path that it may return.
getStagedInstancePath(r) == IF StagingMayFail THEN {r, None} ELSE {r}

\* wrapInstanceTask() for a new instance, and the start of the task.
wrapNew(i, r, g) ==
  /\ AtRest
  /\ status[i] = "unborn"
  /\ r \in ToSet(dirs)
  /\ \E path \in getStagedInstancePath(r) :
       staging' = [NoStaging EXCEPT !.phase = "child", !.inst = i, !.root = path, !.group = g]
  /\ UNCHANGED <<dirs, disk, status, history, home, groups, data, asked, unsure>>

\* The same for an update of the instance id.
wrapUpdate(id) ==
  /\ AtRest
  /\ id \in known /\ InstanceOf(id) # None
  /\ \E path \in getStagedInstancePath(rootDirOf(disk, dirs, id)) :
       staging' = [NoStaging EXCEPT !.phase = "child", !.override = id, !.root = path]
  /\ UNCHANGED <<dirs, disk, status, history, home, groups, data, asked, unsure>>

\* commitStagedInstance() of a new instance, as id.
commitNew(id) ==
  /\ staging.override = None /\ staging.root # None
  /\ id \in Free(staging.root)
  /\ disk' = [disk EXCEPT ![staging.root][id] = staging.inst]
  /\ status' = [status EXCEPT ![staging.inst] = "live"]
  /\ loadList(disk', dirs, [index EXCEPT ![id] = staging.group], loaded, file)
  /\ file' = saveGroupList(index', known')
  /\ asked' = [asked EXCEPT ![staging.inst] = staging.group]
  /\ unsure' = IF loaded THEN unsure ELSE unsure \cup {staging.inst}
  /\ UNCHANGED data

\* commitStagedInstance() of an update: what is in the path is moved, the whole of the
\* data folder when the path is empty.
commitUpdate ==
  /\ staging.override # None
  /\ data' = (staging.root # None)
  /\ loadList(disk, dirs, index, loaded, file)
  /\ file' = saveGroupList(index', known')
  /\ UNCHANGED <<disk, status, asked, unsure>>

commitStagedInstance == commitUpdate \/ \E id \in Id : commitNew(id)

\* After a commit that has failed.
backoffMutant == staging' = [staging EXCEPT !.phase = "backoff",
                                            !.sleep = IF @ = 16 THEN 1 ELSE 2 * @]
backoffOnceMoreMutant == staging' = IF staging.sleep > 16 THEN NoStaging
                                    ELSE [staging EXCEPT !.phase = "backoff", !.sleep = 2 * @]
backoff == staging' = IF staging.sleep = 16 THEN NoStaging
                      ELSE [staging EXCEPT !.phase = "backoff", !.sleep = 2 * @]

\* A commit, the first one or another after the timer: it may be blocked by something.
childSucceded(phase) ==
  /\ staging.phase = phase
  /\ \/ commitStagedInstance /\ staging' = NoStaging
     \/ /\ backoff
        /\ UNCHANGED <<disk, status, home, groups, data, asked, unsure>>
  /\ UNCHANGED <<dirs, history>>

\* The task fails, or is aborted.  Deleting an empty path deletes the working directory.
childFailed ==
  /\ staging.phase = "child"
  /\ staging' = NoStaging
  /\ data' = (staging.root # None)
  /\ UNCHANGED <<dirs, disk, status, history, home, groups, asked, unsure>>

-----------------------------------------------------------------------------
\* The launcher ends, or crashes, and is started again.
restart ==
  /\ data
  /\ LET ids == discoverInstances(disk, dirs) IN
       /\ home' = [id \in Id |-> IF id \in ids THEN rootDirOf(disk, dirs, id) ELSE None]
       /\ index' = IF ids # {} /\ file.there THEN file.group ELSE NoGroups
       /\ loaded' = (ids # {} /\ file.there)
  /\ history' = <<>>
  /\ status' = [i \in Inst |-> IF status[i] = "trashed" THEN "out" ELSE status[i]]
  /\ staging' = NoStaging
  /\ UNCHANGED <<dirs, disk, file, data, asked, unsure>>

Next == \/ instanceDirContentsChanged
        \/ on_GroupStateChanged
        \/ undoTrashInstance
        \/ childFailed
        \/ restart
        \/ \E phase \in {"child", "backoff"} : childSucceded(phase)
        \/ \E g \in Group : deleteGroup(g)
        \/ \E id \in Id : \/ removeInstance(id)
                          \/ wrapUpdate(id)
                          \/ \E g \in Opt(Group) : setInstanceGroup(id, g)
        \/ \E i \in Inst, r \in Root, g \in Opt(Group) : wrapNew(i, r, g)
        \/ \E ds \in Dirs : on_InstFolderChanged(ds)

Spec == Init /\ [][Next]_vars

\* The task that is staged ends, and the timer of the backoff fires.
Fairness == /\ WF_vars(childSucceded("child") \/ childFailed)
            /\ WF_vars(childSucceded("backoff"))
FairSpec == Spec /\ Fairness

-----------------------------------------------------------------------------
(* Properties. *)

Places(i) == {p \in Root \X Id : disk[p[1]][p[2]] = i}

\* An instance that has been committed is in exactly one folder until it is trashed or
\* deleted, however its restoring and its neighbours' names collide, and one that has
\* not been, or is gone, is in none (InstanceList.cpp:385-568, 1356-1486).
NothingLost ==
  \A i \in Inst : Cardinality(Places(i)) = IF status[i] = "live" THEN 1 ELSE 0

\* Every instance this process has moved to the trash can be put back, once: a restore
\* that fails keeps its record (InstanceList.cpp:479, 506, 519-525).
TrashCanBeUndone ==
  /\ {i \in Inst : status[i] = "trashed"} = {history[n].inst : n \in DOMAIN history}
  /\ \A m, n \in DOMAIN history : m # n => history[m].inst # history[n].inst

\* An instance is in the group that it was put into, after a restart, a return from the
\* trash under another name or a change of folders as well (InstanceList.h:237-239,
\* InstanceList.cpp:550-551), unless it was put there while no group file counted as
\* loaded: the commit and the restore write it to the index before they reload the list,
\* which then clears the index.
GroupKept ==
  \A id \in known :
    LET i == InstanceOf(id) IN
    i \in Inst \ unsure /\ asked[i] # None => index[id] = asked[i]

\* A staged task that has been started ends: a commit that is blocked is not tried
\* for ever (InstanceList.cpp:1227-1269).
StagingEnds == staging.phase # "none" ~> staging.phase = "none"

\* "Destroy a previously created staging area given by @keyPath - used when creation
\* fails" (InstanceList.h:266-268): nothing else is destroyed with it.
OnlyStagingDestroyed == data
=============================================================================
