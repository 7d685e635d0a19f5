----------------------------- MODULE Components -----------------------------
(***************************************************************************)
(* launcher/minecraft: the components of an instance (PackProfile,         *)
(* Component) and the task that loads their metadata and resolves their    *)
(* dependencies (ComponentUpdateTask), over launcher/meta.                 *)
(*                                                                         *)
(* Of a metadata file only what the resolution reads is kept: what the     *)
(* version requires and whether it is volatile.  The handlers of a task    *)
(* that call each other are steps of their own; nothing comes in between   *)
(* (AtRest, phase "wait").                                                 *)
(***************************************************************************)
EXTENDS Integers, FiniteSets, SequencesExt

CONSTANTS Order,      \* the uids, in the order in which a std::set has them
          Ver,        \* the versions, a later one is greater
          Minecraft, Loaders,  \* "net.minecraft", the uids of the loader table
          Mappings,   \* "net.fabricmc.intermediary", which follows Minecraft
          Builtin,    \* the versions that are hardcoded for some of the uids
          Metadata,   \* what the server may have
          EditsWhileLoading, \* the list may be edited while metadata is loaded
          MaxEdits    \* bound: edits of the list, and restarts

Uid == ToSet(Order)
NoVersion == 0
Version == Ver \cup {NoVersion}
Requirement == [uid : Uid, equals : Version, suggests : Version]
VersionData == [requires : SUBSET Requirement, volatile : BOOLEAN]

ASSUME ComponentsAssumption ==
  /\ Ver \subseteq Nat \ {0} /\ IsFiniteSet(Ver)
  /\ Order \in Seq(Uid) /\ \A i, j \in DOMAIN Order : Order[i] = Order[j] => i = j
  /\ Minecraft \in Uid /\ Mappings \in Uid /\ Loaders \subseteq Uid \ {Minecraft}
  /\ DOMAIN Builtin \subseteq Uid /\ \A u \in DOMAIN Builtin : Builtin[u] \in Ver
  /\ \A m \in Metadata : DOMAIN m \subseteq Uid \X Ver /\ \A e \in DOMAIN m : m[e] \in VersionData
  /\ EditsWhileLoading \in BOOLEAN /\ MaxEdits \in Nat

VARIABLES server,      \* the metadata of the server; it does not change
          components,  \* PackProfileData::components, which is also what is saved
          inMemory,    \* the metadata files that are loaded
          onDisk,      \* ... and those in the cache
          phase,       \* where the ComponentUpdateTask is
          netmode,     \* its mode
          slots,       \* the remote loads it waits for
          remoteOk,    \* remoteLoadSuccessful
          outcome,     \* how the last one has ended, if nothing was edited since
          resolved,    \* one has succeeded, and nothing was edited since (history)
          edits        \* so far (bound)
vars == <<server, components, inMemory, onDisk, phase, netmode, slots, remoteOk, outcome,
          resolved, edits>>

Component == [uid : Uid, version : Version,       \* m_version
              cached : Version,                   \* m_cachedVersion
              requires : SUBSET Requirement, volatile : BOOLEAN,  \* cached, too
              dep : BOOLEAN,                      \* m_dependencyOnly
              custom : BOOLEAN,                   \* m_file, and the patch on the disk
              loaded : BOOLEAN]                   \* m_loaded
\* The index and the files of the versions; also of one that the server does not have.
Index == <<>>
Entity == {Index} \cup (Uid \X Version)

TypeOK == /\ server \in Metadata
          /\ components \in Seq(Component)
          /\ \A i, j \in DOMAIN components : i # j => components[i].uid # components[j].uid
          /\ inMemory \subseteq onDisk
          /\ onDisk \subseteq {Index} \cup DOMAIN server
          /\ phase \in {"idle", "load", "wait", "resolve"}
          /\ netmode \in {"Online", "Offline"}
          /\ slots \subseteq [entity : Entity, at : 0 .. Len(components)]
          /\ phase = "wait" <=> slots # {}
          /\ remoteOk \in BOOLEAN
          /\ outcome \in {"none", "succeeded", "failed"}
          /\ resolved \in BOOLEAN
          /\ edits \in 0 .. MaxEdits

NewComponent(u, v, dep) ==
  [uid |-> u, version |-> v, cached |-> NoVersion, requires |-> {}, volatile |-> FALSE,
   dep |-> dep, custom |-> FALSE, loaded |-> FALSE]

\* A new instance, of which nothing has been loaded.
Init == /\ server \in Metadata
        /\ \E e \in DOMAIN server : /\ e[1] = Minecraft
                                    /\ components = <<NewComponent(Minecraft, e[2], FALSE)>>
        /\ inMemory = {} /\ onDisk = {}
        /\ phase = "idle" /\ netmode = "Offline"
        /\ slots = {} /\ remoteOk = TRUE
        /\ outcome = "none" /\ resolved = FALSE
        /\ edits = 0

-----------------------------------------------------------------------------
(* Components and their list. *)

Has(cs, u) == \E i \in DOMAIN cs : cs[i].uid = u
Place(cs, u) == CHOOSE i \in DOMAIN cs : cs[i].uid = u
File(c) == <<c.uid, c.version>>

updateCachedData(c) ==
  [c EXCEPT !.cached = c.version,
            !.requires = server[File(c)].requires,
            !.volatile = server[File(c)].volatile]

\* updateCachedData(), when there is no file to take anything from.
withoutFile(c) == [c EXCEPT !.requires = {}]

revert(c) == IF ~c.custom THEN c
             ELSE [c EXCEPT !.custom = FALSE, !.loaded = @ /\ File(c) \in inMemory]

setVersion(c, v) ==
  LET changed == [c EXCEPT !.version = v] IN
  IF v = c.version THEN c
  ELSE IF ~c.loaded \/ c.custom THEN changed
  ELSE IF <<c.uid, v>> \in inMemory THEN updateCachedData(changed)
  ELSE [withoutFile(changed) EXCEPT !.cached = v, !.loaded = FALSE]

\* Saved and read again: "cachedVolatile" is what is written, "volatile" is what is read.
reread(cs) == [i \in DOMAIN cs |-> [cs[i] EXCEPT !.volatile = FALSE, !.loaded = FALSE]]

-----------------------------------------------------------------------------
(* ComponentUpdateTask. *)

\* resolve(), which PackProfile::reload() and the dialogs call.
resolve(mode) == phase' = "load" /\ netmode' = mode /\ outcome' = "none"

emitEnd(o) == /\ phase' = "idle" /\ slots' = {} /\ outcome' = o
              /\ resolved' = (resolved \/ o = "succeeded")

\* What loadComponent() finds of one component; a local file is loaded on the way.
IsLoaded(c) == c.loaded \/ c.custom \/ File(c) \in inMemory
Loadable(c) == IsLoaded(c) \/ File(c) \in onDisk
Wanted == {i \in DOMAIN components : ~IsLoaded(components[i])}

\* Wrong on purpose, as are the definitions below whose names end in Mutant: each is a
\* mistake that a property of this module has to notice.
afterLoadMutant(c) == IF IsLoaded(c) THEN [c EXCEPT !.loaded = TRUE] ELSE c

\* What is there already is taken over at once.
afterLoad(c) ==
  IF IsLoaded(c) THEN [updateCachedData(c) EXCEPT !.loaded = TRUE]
  ELSE IF netmode = "Offline" /\ Loadable(c) THEN updateCachedData(c)
  ELSE c

loadComponents ==
  /\ phase = "load"
  /\ components' = [i \in DOMAIN components |-> afterLoad(components[i])]
  /\ inMemory' = inMemory \cup
       (({Index} \cup {File(components[i]) : i \in Wanted}) \cap onDisk)
  /\ remoteOk' = TRUE
  /\ LET remote == {[entity |-> File(components[i]), at |-> i] : i \in Wanted}
                   \cup {[entity |-> e, at |-> 0] : e \in {Index} \ inMemory}
     IN IF netmode = "Offline"
        THEN IF \A i \in Wanted : Loadable(components[i])
             THEN phase' = "resolve" /\ UNCHANGED <<slots, outcome, resolved>>
             ELSE emitEnd("failed")
        ELSE /\ slots' = remote
             /\ phase' = IF remote = {} THEN "resolve" ELSE "wait"
             /\ UNCHANGED <<outcome, resolved>>
  /\ UNCHANGED <<server, onDisk, netmode, edits>>

checkIfAllFinished(ok) ==
  IF slots' # {} THEN UNCHANGED <<phase, outcome, resolved>>
  ELSE IF ok THEN phase' = "resolve" /\ UNCHANGED <<outcome, resolved>>
  ELSE emitEnd("failed")

\* The slot knows the place that its component had, and updates what is there now.
remoteLoadSucceeded(s) ==
  /\ s.entity \in {Index} \cup DOMAIN server
  /\ inMemory' = inMemory \cup {s.entity} /\ onDisk' = onDisk \cup {s.entity}
  /\ slots' = slots \ {s}
  /\ components' = IF s.at = 0 THEN components
                   ELSE LET c == [components[s.at] EXCEPT !.loaded = TRUE] IN
                        [components EXCEPT ![s.at] =
                           IF c.custom \/ File(c) \in inMemory' THEN updateCachedData(c)
                           ELSE withoutFile(c)]
  /\ checkIfAllFinished(remoteOk)
  /\ UNCHANGED <<server, netmode, remoteOk, edits>>

remoteLoadFailed(s) ==
  /\ slots' = slots \ {s}
  /\ remoteOk' = FALSE
  /\ checkIfAllFinished(FALSE)
  /\ UNCHANGED <<server, components, inMemory, onDisk, netmode, edits>>

-----------------------------------------------------------------------------
(* The resolution of dependencies. *)

\* gatherRequirementsFromComponents(): what all of them require, composed.
AllRequires(cs) == UNION {cs[i].requires : i \in DOMAIN cs}
Required(cs) == {r.uid : r \in AllRequires(cs)}
Exact(cs, u) == {r.equals : r \in {q \in AllRequires(cs) : q.uid = u}} \ {NoVersion}
Dependees(cs, u) == {i \in DOMAIN cs : \E r \in cs[i].requires : r.uid = u}
\* Wrong: the last one that requires it.
composeRequirementMutant(cs, u) ==
  [equals |-> IF Exact(cs, u) = {} THEN NoVersion ELSE Max(Exact(cs, u)),
   suggests |-> Max({r.suggests : r \in {q \in AllRequires(cs) : q.uid = u}}),
   indexOfFirstDependee |-> Max(Dependees(cs, u))]

composeRequirement(cs, u) ==
  [equals |-> IF Exact(cs, u) = {} THEN NoVersion ELSE Max(Exact(cs, u)),
   suggests |-> Max({r.suggests : r \in {q \in AllRequires(cs) : q.uid = u}}),
   indexOfFirstDependee |-> Min(Dependees(cs, u))]
Conflicting(cs) == \E u \in Required(cs) : Cardinality(Exact(cs, u)) > 1

getTrivialRemovals(cs) ==
  {i \in DOMAIN cs : cs[i].dep /\ cs[i].volatile /\ cs[i].uid \notin Required(cs)}

removeAll(cs, obsolete) ==
  LET kept[i \in 0..Len(cs)] ==
        IF i = 0 THEN <<>>
        ELSE IF i \in obsolete THEN kept[i - 1]
        ELSE Append(kept[i - 1], cs[i])
  IN kept[Len(cs)]

Missing(cs) == {u \in Required(cs) : ~Has(cs, u)}

\* Wrong: a dependency that is there is as good as any.
NotSameMutant(cs) ==
  {u \in Required(cs) : /\ Has(cs, u) /\ ~cs[Place(cs, u)].dep
                        /\ \E v \in Exact(cs, u) : cs[Place(cs, u)].cached # v}

NotSame(cs) ==
  {u \in Required(cs) : Has(cs, u) /\ \E v \in Exact(cs, u) : cs[Place(cs, u)].cached # v}
IsLocked(c) == c.custom \/ ~c.dep

\* The version of a component that is added.
decideVersion(cs, u, r) ==
  IF r.equals # NoVersion THEN r.equals
  ELSE IF r.suggests # NoVersion THEN r.suggests
  ELSE IF u \in DOMAIN Builtin THEN Builtin[u]
  ELSE IF u = Mappings /\ Has(cs, Minecraft) THEN cs[Place(cs, Minecraft)].cached
  ELSE NoVersion

addComponent(acc, cs, u) ==
  LET r == composeRequirement(cs, u)
  IN InsertAt(acc, r.indexOfFirstDependee, NewComponent(u, decideVersion(cs, u, r), TRUE))

addMissing(cs) ==
  LET added[i \in 0..Len(Order)] ==
        IF i = 0 THEN cs
        ELSE IF Order[i] \in Missing(cs) THEN addComponent(added[i - 1], cs, Order[i])
        ELSE added[i - 1]
  IN added[Len(Order)]

changeVersions(cs, changed) ==
  [i \in DOMAIN changed |->
     IF changed[i].uid \in NotSame(cs)
     THEN setVersion(changed[i], composeRequirement(cs, changed[i].uid).equals)
     ELSE changed[i]]

\* One round: a removal may make others obsolete, what is added has to be loaded.
resolveDependencies ==
  /\ phase = "resolve"
  /\ LET cs == components
         obsolete == getTrivialRemovals(cs)
     IN IF Conflicting(cs) THEN emitEnd("failed") /\ UNCHANGED components
        ELSE IF obsolete # {}
        THEN /\ components' = removeAll(cs, obsolete)
             /\ UNCHANGED <<phase, slots, outcome, resolved>>
        ELSE IF \E u \in NotSame(cs) : IsLocked(cs[Place(cs, u)])
        THEN emitEnd("failed") /\ UNCHANGED components
        ELSE IF Missing(cs) \cup NotSame(cs) = {}
        THEN emitEnd("succeeded") /\ UNCHANGED components
        ELSE IF netmode = "Offline" THEN emitEnd("failed") /\ UNCHANGED components
        ELSE /\ components' = changeVersions(cs, addMissing(cs))
             /\ phase' = "load"
             /\ UNCHANGED <<slots, outcome, resolved>>
  /\ UNCHANGED <<server, inMemory, onDisk, netmode, remoteOk, edits>>

-----------------------------------------------------------------------------
(* What the user, a launch and a restart do. *)

AtRest == phase = "idle"
counted == edits < MaxEdits /\ edits' = edits + 1

\* Wrong: what is there is not replaced.
setComponentVersionMutant(u, v) ==
  /\ AtRest /\ counted
  /\ <<u, v>> \in DOMAIN server
  /\ Has(components, u) \/ u \in Loaders
  /\ components' = Append(components, NewComponent(u, v, FALSE))
  /\ resolve("Online")
  /\ resolved' = FALSE
  /\ UNCHANGED <<server, inMemory, onDisk, slots, remoteOk>>

\* "Change version" and the dialog for loaders.
setComponentVersion(u, v) ==
  /\ AtRest /\ counted
  /\ <<u, v>> \in DOMAIN server
  /\ Has(components, u) \/ u \in Loaders
  /\ components' =
       IF Has(components, u)
       THEN [components EXCEPT ![Place(components, u)] = setVersion(revert(@), v)]
       ELSE Append(components, NewComponent(u, v, FALSE))
  /\ resolve("Online")
  /\ resolved' = FALSE
  /\ UNCHANGED <<server, inMemory, onDisk, slots, remoteOk>>

\* The page reloads the list afterwards, the dialog for loaders only resolves it.
remove(i) ==
  /\ AtRest /\ counted
  /\ components[i].uid # Minecraft
  /\ components' \in {reread(RemoveAt(components, i)), RemoveAt(components, i)}
  /\ resolve("Online")
  /\ resolved' = FALSE
  /\ UNCHANGED <<server, inMemory, onDisk, slots, remoteOk>>

edit == /\ AtRest \/ (EditsWhileLoading /\ phase = "wait")
        /\ counted
        /\ outcome' = "none" /\ resolved' = FALSE
        /\ UNCHANGED <<server, inMemory, onDisk, phase, netmode, slots, remoteOk>>

move(i) ==
  /\ edit
  /\ \E d \in {-1, 1} :
       LET their == IF i + d \in DOMAIN components THEN i + d ELSE Len(components)
       IN /\ their # i
          /\ components' = [components EXCEPT ![i] = components[their], ![their] = components[i]]

customize(i) ==
  /\ edit
  /\ ~components[i].custom /\ File(components[i]) \in inMemory
  /\ components' = [components EXCEPT ![i].custom = TRUE]

\* The uid is taken to be one that the index knows.
revertToBase(i) ==
  /\ edit
  /\ components[i].custom
  /\ components' = [components EXCEPT ![i] = revert(@)]

\* By the page, an update of the game or a check before its launch; nothing happens
\* while a task is running.
reload(mode) ==
  /\ AtRest
  /\ components' = reread(components)
  /\ resolve(mode)
  /\ UNCHANGED <<server, inMemory, onDisk, slots, remoteOk, resolved, edits>>

restart ==
  /\ AtRest /\ counted
  /\ inMemory' = {}
  /\ components' = reread(components)
  /\ \E mode \in {"Online", "Offline"} : resolve(mode)
  /\ UNCHANGED <<server, onDisk, slots, remoteOk, resolved>>

-----------------------------------------------------------------------------
Reply(s) == remoteLoadSucceeded(s) \/ remoteLoadFailed(s)

Next == \/ loadComponents \/ resolveDependencies
        \/ \E s \in slots : Reply(s)
        \/ \E u \in Uid, v \in Ver : setComponentVersion(u, v)
        \/ \E i \in DOMAIN components :
             remove(i) \/ move(i) \/ customize(i) \/ revertToBase(i)
        \/ \E mode \in {"Online", "Offline"} : reload(mode)
        \/ restart

Spec == Init /\ [][Next]_vars
\* Handlers return, and every reply comes in the end or fails.
FairSpec == /\ Spec
            /\ WF_vars(loadComponents)
            /\ WF_vars(resolveDependencies)
            /\ WF_vars(\E s \in slots : Reply(s))

-----------------------------------------------------------------------------
(* Properties. *)

\* What the component that is there really is, whatever has been cached of it.
Real(c) == server[File(c)]
Meets(cs, r) == \E i \in DOMAIN cs : cs[i].uid = r.uid /\ r.equals \in {NoVersion, cs[i].version}

\* An instance that has been resolved, and not edited since, is complete: everything that
\* is required by what its versions really are is there, in the version asked for, nothing
\* is left over that was only needed by something else, and it passes the check before an
\* offline launch; after restarts and failed refreshes, with what is in the cache
\* (ComponentUpdateTask.cpp:84-139, 466-480, 537-545, PackProfile.cpp:104-126, 325-342).
ResolvedIsLaunchable ==
  resolved =>
    /\ \A i \in DOMAIN components :
         LET c == components[i] IN
         /\ File(c) \in DOMAIN server /\ (c.custom \/ File(c) \in onDisk)
         /\ \A r \in Real(c).requires : Meets(components, r)
         /\ c.dep /\ Real(c).volatile =>
              \E j \in DOMAIN components : \E r \in Real(components[j]).requires : r.uid = c.uid
    /\ ~(netmode = "Offline" /\ outcome = "failed")

\* "A dependency is entirely missing and needs to be injected before the dependee(s)"
\* (ComponentUpdateTask.cpp:477-479), which are those that require it when the round
\* begins; also when several are added at once, at places that were all found before the
\* first one went in.
InjectedBefore ==
  [][phase = "resolve" =>
       \A i, j \in DOMAIN components' :
         /\ ~Has(components, components'[i].uid)
         /\ \E d \in Dependees(components, components'[i].uid) :
              components[d].uid = components'[j].uid
         => i < j]_vars

\* A resolution ends, however many rounds it takes (ComponentUpdateTask.cpp:540-612).
ResolveEnds == phase # "idle" ~> phase = "idle"
=============================================================================
